---------------------------- MODULE ForwardRules ----------------------------
(***************************************************************************)
(* enforceForwardRequestRules: an interceptor that accepts or rejects each *)
(* forward LND asks about.  Handlers of requests wait for LND and so       *)
(* interleave; they share what is known of the chain, a cache of channel   *)
(* keys and a table of the forwards that are pending.                      *)
(***************************************************************************)
EXTENDS Integers, FiniteSets, Sequences

CONSTANTS
  Requests,     \* forward requests
  Channels,
  Us,           \* the key of this node
  KeysOf,       \* KeysOf[c]: the two keys of a channel, in LND's order
  Confirmed,    \* Confirmed[c]: the height its funding confirmed at
  Routes,       \* the channels of a request: in and out
  RuleSets,     \* the arguments to choose from
  MaxBlocks,    \* bound on the height
  MaxClock,     \* bound on the hours
  MaxFaults     \* bound on failures of LND

Keys == UNION {{KeysOf[c][1], KeysOf[c][2]} : c \in Channels}

NoLimit == -1

\* stop: stop_channels, when stops says they are given; pairs: only_allow or
\* only_disallow, as kind says; limit: max_new_pending_per_hour; minAge and
\* maxAge: 0 when not given
Rules == [stops : BOOLEAN, stop : SUBSET Channels,
          kind : {"allow", "disallow", "none"}, pairs : SUBSET (Keys \X Keys),
          limit : Nat \cup {NoLimit}, minAge : Nat, maxAge : Nat]

ASSUME ForwardRulesAssumption ==
  /\ KeysOf \in [Channels -> Seq(Keys)]
  /\ \A c \in Channels : Len(KeysOf[c]) = 2 /\ Us \in {KeysOf[c][1], KeysOf[c][2]}
  /\ Confirmed \in [Channels -> Nat]
  /\ Routes \subseteq Channels \X Channels
  /\ RuleSets \subseteq Rules
  /\ IsFiniteSet(Requests)
  /\ MaxBlocks \in Nat \ {0}
  /\ MaxClock \in Nat \ {0, 1}
  /\ MaxFaults \in Nat

\* LND orders the keys of a channel by their bytes; the pairs of a rule are of
\* peers, and no node is its own peer
ASSUME KeysAssumption ==
  /\ \A c, d \in Channels :
       {KeysOf[c][1], KeysOf[c][2]} = {KeysOf[d][1], KeysOf[d][2]} => KeysOf[c] = KeysOf[d]
  /\ \A rule \in RuleSets : <<Us, Us>> \notin rule.pairs

VARIABLES
  rules,       \* the arguments
  clock,       \* the time, in hours
  minedAt,     \* minedAt[h]: the time of block h; the last is the tip
  notified,    \* the height of the last 'block' event
  chain,       \* current_block_height and latest_block_at, 0 when undefined
  lookups,     \* getWalletInfo calls of 'block' handlers
  channelKeys, \* the channels whose keys are cached
  htlcs,       \* htlcs[r]: the time of r's forward, 0 when it is not pending
  request,     \* the handlers
  answer,      \* what LND was answered
  forward,     \* what became of an accepted forward in LND
  acceptedAt,
  rushed,      \* ghost: those accepted while another was accepted and not yet seen
  stopped,     \* the listeners are removed
  faults

theChain == <<clock, minedAt, notified>>
theForwards == <<forward, acceptedAt, rushed>>
vars == <<rules, theChain, chain, lookups, channelKeys, htlcs, request, answer,
          theForwards, stopped, faults>>

Steps == {"none", "checkChain", "askedWallet", "gotWallet", "checkStop", "stopOut",
          "stopAll", "checkPairs", "edges", "decide", "done"}

NoInfo == [height |-> 0, latest |-> 0]
Info == [height : 0..MaxBlocks, latest : 0..MaxClock]

\* A handler: the request's channels, the channel lookups and the wallet info
\* it waits for
Handler == [pc : Steps, in : Channels, out : Channels, wait : SUBSET Channels,
            info : Info]

TypeOK ==
  /\ rules \in RuleSets
  /\ clock \in 1..MaxClock
  /\ minedAt \in Seq(1..MaxClock)
  /\ Len(minedAt) \in 1..MaxBlocks
  /\ notified \in 0..Len(minedAt)
  /\ chain \in Info
  /\ lookups \subseteq Info
  /\ channelKeys \subseteq Channels
  /\ htlcs \in [Requests -> 0..MaxClock]
  /\ request \in [Requests -> Handler]
  /\ answer \in [Requests -> {"none", "accept", "reject"}]
  /\ forward \in [Requests -> {"none", "sent", "seen", "resolved"}]
  /\ acceptedAt \in [Requests -> 0..MaxClock]
  /\ rushed \subseteq Requests
  /\ stopped \in BOOLEAN
  /\ faults \in 0..MaxFaults

\* The tip is an hour old as the rules begin to be enforced
Init ==
  /\ rules \in RuleSets
  /\ clock = 2
  /\ minedAt = <<1>>
  /\ notified = 0
  /\ chain = NoInfo
  /\ lookups = {}
  /\ channelKeys = {}
  /\ htlcs = [r \in Requests |-> 0]
  /\ \E route \in [Requests -> Routes] :
       request = [r \in Requests |->
         [pc |-> "none", in |-> route[r][1], out |-> route[r][2],
          wait |-> {}, info |-> NoInfo]]
  /\ answer = [r \in Requests |-> "none"]
  /\ forward = [r \in Requests |-> "none"]
  /\ acceptedAt = [r \in Requests |-> 0]
  /\ rushed = {}
  /\ stopped = FALSE
  /\ faults = 0

-----------------------------------------------------------------------------
(* LND: the chain, the forwards *)

\* A rule about the chain is in force: blocks are subscribed to
IsChain == rules.minAge # 0 \/ rules.maxAge # 0

Tip == [height |-> Len(minedAt), latest |-> minedAt[Len(minedAt)]]

Mine ==
  /\ Len(minedAt) < MaxBlocks
  /\ minedAt' = Append(minedAt, clock)
  /\ UNCHANGED <<rules, clock, notified, chain, lookups, channelKeys, htlcs, request,
                 answer, theForwards, stopped, faults>>

\* The notification of a block takes less than an hour
Tick ==
  /\ clock < MaxClock
  /\ IsChain /\ ~stopped => notified = Len(minedAt)
  /\ clock' = clock + 1
  /\ UNCHANGED <<rules, minedAt, notified, chain, lookups, channelKeys, htlcs, request,
                 answer, theForwards, stopped, faults>>

\* A mistake: the height is one ahead
BlockAheadArrives ==
  /\ IsChain /\ ~stopped
  /\ notified < Len(minedAt)
  /\ notified' = notified + 1
  /\ chain' = [height |-> notified' + 1, latest |-> clock]
  /\ UNCHANGED <<rules, clock, minedAt, lookups, channelKeys, htlcs, request, answer,
                 theForwards, stopped, faults>>

\* 'block': the height is taken over, the time too unless none was known: then
\* the wallet is asked
BlockArrives ==
  /\ IsChain /\ ~stopped
  /\ notified < Len(minedAt)
  /\ notified' = notified + 1
  /\ IF chain.latest = 0
     THEN /\ chain' = [chain EXCEPT !.height = notified']
          /\ lookups' = lookups \cup {[height |-> notified', latest |-> 0]}
     ELSE /\ chain' = [height |-> notified', latest |-> clock]
          /\ UNCHANGED lookups
  /\ UNCHANGED <<rules, clock, minedAt, channelKeys, htlcs, request, answer,
                 theForwards, stopped, faults>>

\* LND answers the lookup of a 'block' handler with the tip of that moment
LookupAnswered(lookup) ==
  /\ lookup.latest = 0
  /\ lookups' = (lookups \ {lookup}) \cup {[lookup EXCEPT !.latest = Tip.latest]}
  /\ UNCHANGED <<rules, theChain, chain, channelKeys, htlcs, request, answer,
                 theForwards, stopped, faults>>

\* and the handler takes the time from it, however late
LookupReturns(lookup) ==
  /\ lookup.latest # 0
  /\ lookups' = lookups \ {lookup}
  /\ chain' = [chain EXCEPT !.latest = lookup.latest]
  /\ UNCHANGED <<rules, theChain, channelKeys, htlcs, request, answer, theForwards,
                 stopped, faults>>

\* emitError removes the listeners
LookupFails(lookup) ==
  /\ lookup.latest = 0
  /\ faults < MaxFaults
  /\ faults' = faults + 1
  /\ lookups' = lookups \ {lookup}
  /\ stopped' = TRUE
  /\ UNCHANGED <<rules, theChain, chain, channelKeys, htlcs, request, answer,
                 theForwards>>

\* 'forward': pending forwards are kept with their times when there is a limit
ForwardSeen(r) ==
  /\ forward[r] = "sent"
  /\ forward' = [forward EXCEPT ![r] = "seen"]
  /\ IF rules.limit > 0 /\ ~stopped
     THEN \E at \in acceptedAt[r]..clock : htlcs' = [htlcs EXCEPT ![r] = at]
     ELSE UNCHANGED htlcs
  /\ UNCHANGED <<rules, theChain, chain, lookups, channelKeys, request, answer,
                 acceptedAt, rushed, stopped, faults>>

\* 'forward' of one that is settled or failed
ForwardResolved(r) ==
  /\ forward[r] = "seen"
  /\ forward' = [forward EXCEPT ![r] = "resolved"]
  /\ htlcs' = IF stopped THEN htlcs ELSE [htlcs EXCEPT ![r] = 0]
  /\ UNCHANGED <<rules, theChain, chain, lookups, channelKeys, request, answer,
                 acceptedAt, rushed, stopped, faults>>

\* A subscription fails, or the consumer removes its listeners
Stop ==
  /\ ~stopped
  /\ stopped' = TRUE
  /\ UNCHANGED <<rules, theChain, chain, lookups, channelKeys, htlcs, request, answer,
                 theForwards, faults>>

-----------------------------------------------------------------------------
(* The handler of a request *)

Goto(r, pc) == request' = [request EXCEPT ![r].pc = pc]

Await(r, pc, channels) ==
  request' = [request EXCEPT ![r].pc = pc, ![r].wait = @ \cup (channels \ channelKeys)]

Reject(r) ==
  /\ Goto(r, "done")
  /\ answer' = [answer EXCEPT ![r] = "reject"]

\* A stage of the handler that touches nothing but the handler and its answer
Stage(r, pc) ==
  /\ request[r].pc = pc
  /\ request[r].wait = {}
  /\ UNCHANGED <<rules, theChain, chain, lookups, channelKeys, htlcs, theForwards,
                 stopped, faults>>

\* 'forward_request'
Arrive(r) ==
  /\ request[r].pc = "none"
  /\ ~stopped
  /\ Goto(r, "checkChain")
  /\ UNCHANGED <<rules, theChain, chain, lookups, channelKeys, htlcs, answer,
                 theForwards, stopped, faults>>

\* The wallet is asked when a rule needs a block and none is known
CheckChain(r) ==
  /\ Stage(r, "checkChain")
  /\ Goto(r, IF IsChain /\ chain.latest = 0 THEN "askedWallet" ELSE "checkStop")
  /\ UNCHANGED answer

WalletAnswers(r) ==
  /\ request[r].pc = "askedWallet"
  /\ request' = [request EXCEPT ![r].pc = "gotWallet", ![r].info = Tip]
  /\ UNCHANGED <<rules, theChain, chain, lookups, channelKeys, htlcs, answer,
                 theForwards, stopped, faults>>

\* A block may have come in the meantime: its height is overwritten
WalletReturns(r) ==
  /\ request[r].pc = "gotWallet"
  /\ chain' = request[r].info
  /\ request' = [request EXCEPT ![r].pc = "checkStop", ![r].info = NoInfo]
  /\ UNCHANGED <<rules, theChain, lookups, channelKeys, htlcs, answer, theForwards,
                 stopped, faults>>

\* A mistake: the handler goes on after it rejected
WalletFailsAndGoesOn(r) ==
  /\ request[r].pc = "askedWallet"
  /\ faults < MaxFaults
  /\ faults' = faults + 1
  /\ Goto(r, "checkStop")
  /\ answer' = [answer EXCEPT ![r] = "reject"]
  /\ stopped' = TRUE
  /\ UNCHANGED <<rules, theChain, chain, lookups, channelKeys, htlcs, theForwards>>

\* A mistake: everything stops, and the request is left alone
WalletFailsSilently(r) ==
  /\ request[r].pc = "askedWallet"
  /\ faults < MaxFaults
  /\ faults' = faults + 1
  /\ Goto(r, "done")
  /\ stopped' = TRUE
  /\ UNCHANGED <<rules, theChain, chain, lookups, channelKeys, htlcs, answer,
                 theForwards>>

\* The request is rejected before everything stops
WalletFails(r) ==
  /\ request[r].pc = "askedWallet"
  /\ faults < MaxFaults
  /\ faults' = faults + 1
  /\ Reject(r)
  /\ stopped' = TRUE
  /\ UNCHANGED <<rules, theChain, chain, lookups, channelKeys, htlcs, theForwards>>

\* getChannel: the keys are cached, whether the handler still waits or not
ChannelReturns(r, c) ==
  /\ c \in request[r].wait
  /\ channelKeys' = channelKeys \cup {c}
  /\ request' = [request EXCEPT ![r].wait = @ \ {c}]
  /\ UNCHANGED <<rules, theChain, chain, lookups, htlcs, answer, theForwards, stopped,
                 faults>>

\* The first failure rejects the request
ChannelFails(r, c) ==
  /\ c \in request[r].wait
  /\ faults < MaxFaults
  /\ faults' = faults + 1
  /\ request' = [request EXCEPT ![r].pc = "done", ![r].wait = @ \ {c}]
  /\ answer' = [answer EXCEPT ![r] = IF @ = "none" THEN "reject" ELSE @]
  /\ UNCHANGED <<rules, theChain, chain, lookups, channelKeys, htlcs, theForwards,
                 stopped>>

CheckStop(r) ==
  /\ Stage(r, "checkStop")
  /\ \/ /\ ~rules.stops
        /\ Goto(r, "checkPairs")
        /\ UNCHANGED answer
     \/ /\ rules.stops
        /\ request[r].in \in rules.stop
        /\ Reject(r)
     \/ /\ rules.stops
        /\ request[r].in \notin rules.stop
        /\ Await(r, "stopOut", {request[r].out})
        /\ UNCHANGED answer

StopOut(r) ==
  /\ Stage(r, "stopOut")
  /\ Await(r, "stopAll", rules.stop)
  /\ UNCHANGED answer

\* A mistake: the outbound channel is compared by its id
StopsById(r) == request[r].out \in rules.stop

\* LND may forward over any channel with the peer: the keys are compared
StopsOut(r) == \E c \in rules.stop : KeysOf[c] = KeysOf[request[r].out]

StopAll(r) ==
  /\ Stage(r, "stopAll")
  /\ IF StopsOut(r) THEN Reject(r) ELSE Goto(r, "checkPairs") /\ UNCHANGED answer

CheckPairs(r) ==
  /\ Stage(r, "checkPairs")
  /\ IF rules.kind = "none" THEN Goto(r, "decide")
                            ELSE Await(r, "edges", {request[r].in, request[r].out})
  /\ UNCHANGED answer

KeySet(c) == {KeysOf[c][1], KeysOf[c][2]}

\* The peers of a request: the keys its channels do not share
InKey(r) ==
  LET keys == KeysOf[request[r].in]
  IN  IF keys[1] \notin KeySet(request[r].out) THEN keys[1] ELSE keys[2]

OutKey(r) ==
  LET keys == KeysOf[request[r].out]
  IN  IF keys[1] \in KeySet(request[r].in) THEN keys[2] ELSE keys[1]

IsListed(r) == <<InKey(r), OutKey(r)>> \in rules.pairs

Edges(r) ==
  /\ Stage(r, "edges")
  /\ IF IsListed(r) = (rules.kind = "allow")
     THEN Goto(r, "decide") /\ UNCHANGED answer
     ELSE Reject(r)

LastBlockIsRecent == rules.maxAge # 0 => chain.latest >= clock - rules.maxAge

\* Forwards seen within the hour
Pending == {r \in Requests : htlcs[r] # 0 /\ htlcs[r] > clock - 1}

\* A mistake: the limit itself is still let through
UpToTheLimit ==
  rules.limit # NoLimit => rules.limit # 0 /\ Cardinality(Pending) <= rules.limit

IsWithinLimit ==
  rules.limit # NoLimit => rules.limit # 0 /\ Cardinality(Pending) < rules.limit

\* A mistake: one of the two channels is looked at
InboundIsOldEnough(r) ==
  rules.minAge # 0 => Confirmed[request[r].in] <= chain.height - rules.minAge

IsOldEnough(r) ==
  rules.minAge # 0 =>
    \A c \in {request[r].in, request[r].out} : Confirmed[c] <= chain.height - rules.minAge

\* Accepted and pending in LND, but not in the table
IsUnseen(r) == forward[r] \in {"sent", "seen"} /\ htlcs[r] = 0

\* The rest is checked at once
Accept(r) ==
  /\ request[r].pc = "decide"
  /\ LastBlockIsRecent /\ IsWithinLimit /\ IsOldEnough(r)
  /\ Goto(r, "done")
  /\ answer' = [answer EXCEPT ![r] = "accept"]
  /\ forward' = [forward EXCEPT ![r] = "sent"]
  /\ acceptedAt' = [acceptedAt EXCEPT ![r] = clock]
  /\ rushed' = rushed \cup (IF \E other \in Requests : IsUnseen(other) THEN {r} ELSE {})
  /\ UNCHANGED <<rules, theChain, chain, lookups, channelKeys, htlcs, stopped, faults>>

Refuse(r) ==
  /\ Stage(r, "decide")
  /\ ~(LastBlockIsRecent /\ IsWithinLimit /\ IsOldEnough(r))
  /\ Reject(r)

-----------------------------------------------------------------------------

Step(r) ==
  \/ CheckChain(r)
  \/ WalletAnswers(r)
  \/ WalletReturns(r)
  \/ CheckStop(r)
  \/ StopOut(r)
  \/ StopAll(r)
  \/ CheckPairs(r)
  \/ Edges(r)
  \/ Accept(r)
  \/ Refuse(r)
  \/ \E c \in Channels : ChannelReturns(r, c)

\* All is answered: the interceptor waits for another request
Quiescent ==
  /\ \A r \in Requests : request[r].pc \in {"none", "done"}
  /\ UNCHANGED vars

Next ==
  \/ Quiescent
  \/ Mine
  \/ Tick
  \/ Stop
  \/ BlockArrives
  \/ \E lookup \in lookups :
       LookupAnswered(lookup) \/ LookupReturns(lookup) \/ LookupFails(lookup)
  \/ \E r \in Requests :
       \/ Arrive(r)
       \/ Step(r)
       \/ WalletFails(r)
       \/ \E c \in Channels : ChannelFails(r, c)
       \/ ForwardSeen(r)
       \/ ForwardResolved(r)

Spec == Init /\ [][Next]_vars

\* LND answers each of its calls in the end
FairSpec == Spec /\ \A r \in Requests : WF_vars(Step(r))

-----------------------------------------------------------------------------
(* Properties *)

Peer(c) == CHOOSE key \in KeySet(c) : KeySet(c) = {Us, key}

\* What a request was answered stands, whatever fails or stops after it.
AnswersStand ==
  [][\A r \in Requests : answer[r] # "none" => answer'[r] = answer[r]]_vars

\* Every request that was delivered is answered, after a stop as well.
EachIsAnswered ==
  \A r \in Requests : request[r].pc # "none" ~> answer[r] # "none"

\* The lists hold of the peers, not only of the channels named in them, however
\* the lookups interleave and fail.  Left out: a forward back to its own peer
\* under only_disallow.
ListsAreKept ==
  \A r \in Requests : answer[r] = "accept" =>
    LET in == request[r].in
        out == request[r].out
    IN  /\ rules.stops =>
             in \notin rules.stop /\ \A c \in rules.stop : Peer(c) # Peer(out)
        /\ rules.kind = "allow" => <<Peer(in), Peer(out)>> \in rules.pairs
        /\ (rules.kind = "disallow" /\ Peer(in) # Peer(out))
             => <<Peer(in), Peer(out)>> \notin rules.pairs

\* The height that is known may be an old one, but no forward is accepted over
\* a channel that is younger than min_activation_age.
YoungChannelsWait ==
  \A r \in Requests : answer[r] = "accept" =>
    \A c \in {request[r].in, request[r].out} :
      rules.minAge # 0 => Confirmed[c] + rules.minAge <= Len(minedAt)

\* No forward is accepted long after the tip was mined: "skip updating the latest
\* block on the first block notification", which may tell of an old block.
TipIsRecent ==
  [][\A r \in Requests :
       (answer[r] = "none" /\ answer'[r] = "accept" /\ rules.maxAge # 0)
         => Tip.latest >= clock - rules.maxAge]_vars

\* Accepted within the hour and still pending in LND
NewlyPending ==
  {r \in Requests : forward[r] \in {"sent", "seen"} /\ acceptedAt[r] > clock - 1}

\* The table that requests are counted against is filled by LND's events, which
\* come after the answers. So max_new_pending_per_hour may be exceeded, but only by
\* requests that were decided between an answer and its event: without these, the
\* limit holds at every moment, those before them and after them included.
LimitHolds ==
  rules.limit # NoLimit => Cardinality(NewlyPending \ rushed) <= rules.limit

-----------------------------------------------------------------------------
(* The inductive invariant *)

\* An answer ends the handler; only an answered request has a forward
AnsweredIsDone ==
  \A r \in Requests :
    (answer[r] # "none" \/ forward[r] # "none") => request[r].pc = "done"

\* The table holds forwards LND reported, at or after the time of the answer
ForwardsAreTimed ==
  \A r \in Requests :
    /\ forward[r] = "none" => htlcs[r] = 0
    /\ htlcs[r] # 0 => htlcs[r] >= acceptedAt[r]

\* No height is known that is not mined
HeightsAreMined ==
  /\ chain.height <= Len(minedAt)
  /\ \A r \in Requests : request[r].info.height <= Len(minedAt)

\* What the proofs carry from step to step: it implies the two properties about
\* accepted forwards, neither of which is inductive.
RulesInv ==
  /\ TypeOK
  /\ AnsweredIsDone
  /\ ForwardsAreTimed
  /\ HeightsAreMined
  /\ YoungChannelsWait
  /\ LimitHolds

=============================================================================
