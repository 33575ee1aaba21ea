------------------------- MODULE ChangesSubscription -------------------------
(***************************************************************************)
(* subscribeToChanges: a loop whose every iteration subscribes to LND,     *)
(* attaches the handlers (syncFromDataEvents) and calls back to be run     *)
(* again five seconds after something failed.  An iteration is a           *)
(* generation of three subscriptions: channels, forwards and graph.        *)
(***************************************************************************)
EXTENDS Naturals, FiniteSets

CONSTANTS
  MaxGenerations,  \* bound on iterations of the loop
  MaxEvents        \* bound on events of LND

ASSUME ChangesSubscriptionAssumption ==
  /\ MaxGenerations \in Nat \ {0}
  /\ MaxEvents \in Nat

VARIABLES
  generation,     \* the iterations so far
  timers,         \* callbacks of the loop waiting for their five seconds
  ended,          \* times the loop came to its end (the second one throws)
  listens,        \* the consumer listens to 'error'
  listened,       \* ... and has always done so
  walletFailures, \* failed getWalletInfo calls
  events,         \* events of LND so far
  handled         \* how many generations handled the last of each kind

loop == <<generation, timers, ended>>
consumer == <<listens, listened>>
vars == <<loop, consumer, walletFailures, events, handled>>

Generations == 1..MaxGenerations

\* subs: do the subscriptions have the listeners of their start; wallet:
\* getWalletInfo, "late" if it answered when those listeners were gone
Generation == [subs : {"none", "on", "off"},
               wallet : {"none", "pending", "ok", "late", "failed"}]

Unused == [subs |-> "none", wallet |-> "none"]

Fresh == [subs |-> "on", wallet |-> "pending"]

\* Handlers of node and channel events are attached at once, the others when
\* the public key is known: then also to subscriptions whose listeners an
\* 'error' has removed
HandlesGraph(g) == generation[g].subs = "on"
HandlesLate(g) == generation[g].wallet = "late"
HandlesAll(g) == generation[g].subs = "on" /\ generation[g].wallet = "ok"

Subscribed == {g \in Generations : HandlesGraph(g)}
Late == {g \in Generations : HandlesLate(g)}
Handling == {g \in Generations : HandlesAll(g)}

TypeOK ==
  /\ generation \in [Generations -> Generation]
  /\ timers \in Nat
  /\ ended \in Nat
  /\ listens \in BOOLEAN
  /\ listened \in BOOLEAN
  /\ walletFailures \in Nat
  /\ events \in 0..MaxEvents
  /\ handled \in [{"graph", "other"} -> 0..MaxGenerations]

\* doUntil runs its first iteration whether or not anybody listens
Init ==
  /\ generation = [g \in Generations |-> IF g = 1 THEN Fresh ELSE Unused]
  /\ timers = 0
  /\ ended = 0
  /\ listens \in BOOLEAN
  /\ listened = listens
  /\ walletFailures = 0
  /\ events = 0
  /\ handled = [kind \in {"graph", "other"} |-> 0]

-----------------------------------------------------------------------------

\* A mistake: two of the subscriptions call back
RestartTwice == timers' = timers + 2

\* setTimeout(cbk, subRestartDelayMs)
RestartLater == timers' = timers + 1

\* A mistake: the listeners stay
FailsButListens(g) ==
  /\ generation[g].subs = "on"
  /\ RestartLater
  /\ UNCHANGED <<generation, ended, consumer, walletFailures, events, handled>>

\* One of the subscriptions emits 'error': all lose their listeners, so that
\* no other error of this generation is heard
SubscriptionFails(g) ==
  /\ generation[g].subs = "on"
  /\ generation' = [generation EXCEPT ![g].subs = "off"]
  /\ RestartLater
  /\ UNCHANGED <<ended, consumer, walletFailures, events, handled>>

\* getPublicKey: the handlers that need the key are attached, whether or not
\* the subscriptions still have the others
WalletAnswers(g) ==
  /\ generation[g].wallet = "pending"
  /\ generation' = [generation EXCEPT
       ![g].wallet = IF HandlesGraph(g) THEN "ok" ELSE "late"]
  /\ UNCHANGED <<timers, ended, consumer, walletFailures, events, handled>>

\* A mistake: getWalletInfo fails and the loop is not called back
FailsForGood(g) ==
  /\ generation[g].wallet = "pending"
  /\ generation' = [generation EXCEPT ![g].wallet = "failed"]
  /\ walletFailures' = walletFailures + 1
  /\ UNCHANGED <<timers, ended, consumer, events, handled>>

\* getPublicKey fails and with it syncFromDataEvents: the loop is called
\* back, the listeners stay
WalletFails(g) ==
  /\ generation[g].wallet = "pending"
  /\ generation' = [generation EXCEPT ![g].wallet = "failed"]
  /\ RestartLater
  /\ walletFailures' = walletFailures + 1
  /\ UNCHANGED <<ended, consumer, events, handled>>

TimerFires == timers > 0 /\ timers' = timers - 1

\* A mistake: the test is the wrong way round
NobodyListens == ~listens

\* The test of doUntil: is there a listener of 'error'
LoopGoesOn == listens

\* A timer fires: the test, then another iteration or the end
Restart ==
  /\ TimerFires
  /\ IF LoopGoesOn
     THEN /\ \E g \in Generations :
               /\ generation[g] = Unused
               /\ generation[g - 1] # Unused
               /\ generation' = [generation EXCEPT ![g] = Fresh]
          /\ UNCHANGED ended
     ELSE /\ ended' = ended + 1
          /\ UNCHANGED generation
  /\ UNCHANGED <<consumer, walletFailures, events, handled>>

\* The consumer adds or removes its 'error' listener
ConsumerTurns ==
  /\ listens' = ~listens
  /\ listened' = FALSE
  /\ UNCHANGED <<loop, walletFailures, events, handled>>

\* LND reports a node or a channel to every generation that is subscribed
GraphEvent ==
  /\ events < MaxEvents
  /\ events' = events + 1
  /\ handled' = [handled EXCEPT !["graph"] = Cardinality(Subscribed)]
  /\ UNCHANGED <<loop, consumer, walletFailures>>

\* ... or an HTLC, a policy or an active channel: to a generation whose
\* listeners were removed only if its own stream is still there
OtherEvent ==
  /\ events < MaxEvents
  /\ events' = events + 1
  /\ \E streams \in SUBSET Late :
       handled' = [handled EXCEPT !["other"] = Cardinality(Handling \cup streams)]
  /\ UNCHANGED <<loop, consumer, walletFailures>>

Next ==
  \/ Restart
  \/ ConsumerTurns
  \/ GraphEvent
  \/ OtherEvent
  \/ \E g \in Generations : SubscriptionFails(g) \/ WalletAnswers(g) \/ WalletFails(g)

Spec == Init /\ [][Next]_vars

\* Timers fire and getWalletInfo is answered one way or the other
FairSpec ==
  /\ Spec
  /\ WF_vars(Restart)
  /\ \A g \in Generations :
       WF_vars(WalletAnswers(g) \/ WalletFails(g))

-----------------------------------------------------------------------------
(* Properties *)

\* Every failure is followed by exactly one restart, and none is forgotten:
\* the loop is subscribed, waiting for a timer or at its end.  Each failed
\* getWalletInfo adds a loop to these, as its listeners stay.
LoopsAreConserved ==
  Cardinality(Subscribed) + timers + ended = 1 + walletFailures

\* Unless a timer of the loop is running, a consumer that has always listened
\* has a generation that handles every event, or will when its getWalletInfo
\* answers: the generations that stay subscribed after a failed getWalletInfo
\* never stand in for one that works.
ServedUnlessRestarting ==
  (listened /\ timers = 0) =>
    \E g \in Subscribed : generation[g].wallet \in {"pending", "ok"}

\* "Eliminate other listeners to prevent duplicate events"
\* (src/events/subscribe_to_changes.js:53): however often the subscriptions
\* fail, an event has one handler, and one more at most for every getWalletInfo
\* that failed, whose listeners stay, and, unless it is of a node or channel,
\* for every one that answered when the listeners were gone already.
DuplicatesAreCounted ==
  /\ handled["graph"] <= 1 + walletFailures
  /\ handled["other"] <= 1 + walletFailures + Cardinality(Late)

Exhausted == \A g \in Generations : generation[g] # Unused

\* For a consumer that goes on listening, and unless failures use up every
\* generation, some generation handles the graph again after each failure.
SubscribedAgain ==
  (listened /\ timers > 0)
    ~> (Subscribed # {} \/ ~listened \/ Exhausted)

=============================================================================
