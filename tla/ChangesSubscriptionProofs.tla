---------------------- MODULE ChangesSubscriptionProofs ----------------------
(***************************************************************************)
(* What subscribeToChanges keeps to for any number of generations and of   *)
(* events.  The heart of the invariant is LoopsAreConserved: errors, timers *)
(* and restarts move a loop from one place to another and lose none; with   *)
(* as many generations failed as getWalletInfo calls, one that works is     *)
(* left among those subscribed.                                            *)
(***************************************************************************)
EXTENDS ChangesSubscription, FiniteSetTheorems, TLAPS

USE ChangesSubscriptionAssumption DEF ChangesSubscriptionAssumption

\* The generations whose getWalletInfo failed.
Failed == {g \in Generations : generation[g].wallet = "failed"}

\* There are no more generations of any kind than there are generations, and
\* those that handle every event are subscribed.
LEMMA HandlersAreFew ==
  /\ IsFiniteSet(Subscribed) /\ IsFiniteSet(Late) /\ IsFiniteSet(Failed)
  /\ Cardinality(Subscribed) \in 0..MaxGenerations
  /\ Cardinality(Late) \in 0..MaxGenerations
  /\ Cardinality(Failed) \in 0..MaxGenerations
  /\ Handling \subseteq Subscribed
<1>1. IsFiniteSet(Generations) /\ Cardinality(Generations) = MaxGenerations
  BY FS_Interval DEF Generations
<1>2. /\ Subscribed \in SUBSET Generations
      /\ Late \in SUBSET Generations
      /\ Failed \in SUBSET Generations
  BY DEF Subscribed, Late, Failed
<1>3. Handling \subseteq Subscribed
  BY DEF Subscribed, Handling, HandlesAll, HandlesGraph
<1>4. ASSUME NEW S \in SUBSET Generations
      PROVE  IsFiniteSet(S) /\ Cardinality(S) \in 0..MaxGenerations
  BY <1>1, FS_Subset, FS_CardinalityType
<1>. QED
  BY <1>2, <1>3, <1>4

\* Generations that stay as they are stay what they are.
LEMMA AllKeeps ==
  ASSUME generation' = generation
  PROVE  Subscribed' = Subscribed /\ Late' = Late /\ Failed' = Failed
BY DEF Subscribed, HandlesGraph, Late, HandlesLate, Failed, Generations

\* Changes of the wallet alone leave the subscriptions alone.
LEMMA WalletKeepsSubscribed ==
  ASSUME TypeOK, NEW g \in Generations,
         NEW w \in {"none", "pending", "ok", "late", "failed"},
         generation' = [generation EXCEPT ![g].wallet = w]
  PROVE  Subscribed' = Subscribed
BY DEF Subscribed, HandlesGraph, TypeOK, Generation, Generations

-----------------------------------------------------------------------------

\* As many generations have failed as getWalletInfo calls.
FailuresAreCounted == walletFailures = Cardinality(Failed)

\* A generation with its listeners has asked for the wallet, and none that is
\* late has them.
SubscribedHasAsked ==
  \A g \in Generations :
    generation[g].subs = "on" => generation[g].wallet \in {"pending", "ok", "failed"}

\* A consumer that has always listened does so now and has kept the loop going.
ListenerKeepsLoop == listened => listens /\ ended = 0

\* The inductive invariant.
LoopInv ==
  /\ TypeOK
  /\ LoopsAreConserved
  /\ FailuresAreCounted
  /\ SubscribedHasAsked
  /\ ListenerKeepsLoop
  /\ DuplicatesAreCounted

\* The loop starts subscribed.
LEMMA LoopInit == Init => LoopInv
<1>. SUFFICES ASSUME Init PROVE LoopInv
  OBVIOUS
<1>1. TypeOK
  BY DEF Init, TypeOK, Generation, Fresh, Unused, Generations
<1>2. Subscribed = {1} /\ Failed = {}
  BY DEF Init, Subscribed, HandlesGraph, Failed, Fresh, Unused, Generations
<1>3. LoopsAreConserved
  <2>1. Cardinality(Subscribed) = 1
    BY <1>2, FS_Singleton
  <2>. QED
    BY <2>1 DEF Init, LoopsAreConserved
<1>4. FailuresAreCounted
  BY <1>2, FS_EmptySet DEF Init, FailuresAreCounted
<1>5. SubscribedHasAsked /\ ListenerKeepsLoop
  BY DEF Init, SubscribedHasAsked, ListenerKeepsLoop, Fresh, Unused
<1>6. DuplicatesAreCounted
  BY HandlersAreFew DEF Init, DuplicatesAreCounted
<1>. QED
  BY <1>1, <1>3, <1>4, <1>5, <1>6 DEF LoopInv

\* What has been handled stays within a count that does not go back.
LEMMA CountGrows ==
  ASSUME LoopInv, handled' = handled,
         walletFailures' \in Nat, walletFailures' >= walletFailures, Late \subseteq Late'
  PROVE  DuplicatesAreCounted'
<1>1. IsFiniteSet(Late') /\ Cardinality(Late') \in Nat
  <2>1. IsFiniteSet(Generations)
    BY FS_Interval DEF Generations
  <2>2. Late' \subseteq Generations
    BY DEF Late, Generations
  <2>. QED
    BY <2>1, <2>2, FS_Subset, FS_CardinalityType
<1>2. Cardinality(Late) \in Nat /\ Cardinality(Late) <= Cardinality(Late')
  BY <1>1, HandlersAreFew, FS_Subset
<1>3. /\ handled["graph"] \in Nat /\ handled["other"] \in Nat /\ walletFailures \in Nat
      /\ handled["graph"] <= 1 + walletFailures
      /\ handled["other"] <= 1 + walletFailures + Cardinality(Late)
  BY DEF LoopInv, TypeOK, DuplicatesAreCounted
<1>. QED
  BY <1>1, <1>2, <1>3 DEF DuplicatesAreCounted

\* An error of a subscription takes a loop from the subscribed to the timers.
LEMMA SubscriptionFailsKeeps ==
  ASSUME LoopInv, NEW g \in Generations, SubscriptionFails(g)
  PROVE  LoopInv'
<1>1. g \in Subscribed
  BY DEF SubscriptionFails, Subscribed, HandlesGraph
<1>2. /\ Subscribed' = Subscribed \ {g}
      /\ Late' = Late
      /\ Failed' = Failed
  BY DEF SubscriptionFails, Subscribed, HandlesGraph, Late, HandlesLate, Failed, LoopInv,
         TypeOK, Generation, Generations
<1>3. Cardinality(Subscribed') = Cardinality(Subscribed) - 1
  BY <1>1, <1>2, HandlersAreFew, FS_RemoveElement
<1>4. LoopsAreConserved'
  <2>1. Cardinality(Subscribed) \in Nat
    BY HandlersAreFew
  <2>. QED
    BY <1>3, <2>1 DEF SubscriptionFails, RestartLater, LoopInv, LoopsAreConserved, TypeOK
<1>5. TypeOK'
  <2>1. generation' \in [Generations -> Generation]
    BY DEF SubscriptionFails, LoopInv, TypeOK, Generation
  <2>2. timers' \in Nat
    BY DEF SubscriptionFails, RestartLater, LoopInv, TypeOK
  <2>. QED
    BY <2>1, <2>2 DEF SubscriptionFails, LoopInv, TypeOK, consumer
<1>6. FailuresAreCounted'
  BY <1>2 DEF SubscriptionFails, LoopInv, FailuresAreCounted
<1>7. SubscribedHasAsked'
  BY DEF SubscriptionFails, LoopInv, TypeOK, Generation, SubscribedHasAsked
<1>8. ListenerKeepsLoop'
  BY DEF SubscriptionFails, LoopInv, ListenerKeepsLoop, consumer
<1>9. DuplicatesAreCounted'
  BY <1>2, CountGrows DEF SubscriptionFails, LoopInv, TypeOK
<1>. QED
  BY <1>4, <1>5, <1>6, <1>7, <1>8, <1>9 DEF LoopInv

\* The public key is there: no loop moves, and a generation without its
\* listeners joins the late ones.
LEMMA WalletAnswersKeeps ==
  ASSUME LoopInv, NEW g \in Generations, WalletAnswers(g)
  PROVE  LoopInv'
<1>1. PICK w \in {"ok", "late"} :
        /\ generation' = [generation EXCEPT ![g].wallet = w]
        /\ generation[g].subs = "on" => w = "ok"
  BY DEF WalletAnswers, HandlesGraph
<1>2. Subscribed' = Subscribed
  BY <1>1, WalletKeepsSubscribed DEF LoopInv
<1>3. Late \subseteq Late' /\ Failed' = Failed
  BY <1>1 DEF WalletAnswers, Late, HandlesLate, Failed, LoopInv, TypeOK, Generation,
              Generations
<1>4. LoopsAreConserved'
  BY <1>2 DEF WalletAnswers, LoopInv, LoopsAreConserved
<1>5. TypeOK'
  <2>1. generation' \in [Generations -> Generation]
    BY <1>1 DEF LoopInv, TypeOK, Generation
  <2>. QED
    BY <2>1 DEF WalletAnswers, LoopInv, TypeOK, consumer
<1>6. FailuresAreCounted'
  BY <1>3 DEF WalletAnswers, LoopInv, FailuresAreCounted
<1>7. SubscribedHasAsked'
  BY <1>1 DEF LoopInv, TypeOK, Generation, SubscribedHasAsked
<1>8. ListenerKeepsLoop'
  BY DEF WalletAnswers, LoopInv, ListenerKeepsLoop, consumer
<1>9. DuplicatesAreCounted'
  BY <1>3, CountGrows DEF WalletAnswers, LoopInv, TypeOK
<1>. QED
  BY <1>4, <1>5, <1>6, <1>7, <1>8, <1>9 DEF LoopInv

\* A failed getWalletInfo adds a timer and keeps the listeners; it is counted.
LEMMA WalletFailsKeeps ==
  ASSUME LoopInv, NEW g \in Generations, WalletFails(g)
  PROVE  LoopInv'
<1>0. /\ generation[g].wallet = "pending"
      /\ generation' = [generation EXCEPT ![g].wallet = "failed"]
      /\ walletFailures' = walletFailures + 1
      /\ walletFailures \in Nat
  BY DEF WalletFails, LoopInv, TypeOK
<1>1. Subscribed' = Subscribed
  BY <1>0, WalletKeepsSubscribed DEF LoopInv
<1>2. LoopsAreConserved'
  <2>1. Cardinality(Subscribed) \in Nat
    BY HandlersAreFew
  <2>. QED
    BY <1>1, <2>1 DEF WalletFails, RestartLater, LoopInv, LoopsAreConserved, TypeOK
<1>3. TypeOK'
  <2>1. generation' \in [Generations -> Generation]
    BY <1>0 DEF LoopInv, TypeOK, Generation
  <2>2. timers' \in Nat
    BY DEF WalletFails, RestartLater, LoopInv, TypeOK
  <2>. QED
    BY <1>0, <2>1, <2>2 DEF WalletFails, LoopInv, TypeOK, consumer
<1>4. FailuresAreCounted'
  <2>1. g \notin Failed /\ Failed' = Failed \cup {g}
    BY <1>0 DEF Failed, LoopInv, TypeOK, Generation, Generations
  <2>2. Cardinality(Failed') = Cardinality(Failed) + 1
    BY <2>1, HandlersAreFew, FS_AddElement
  <2>. QED
    BY <1>0, <2>2 DEF LoopInv, FailuresAreCounted
<1>5. SubscribedHasAsked'
  BY <1>0 DEF LoopInv, TypeOK, Generation, SubscribedHasAsked
<1>6. ListenerKeepsLoop'
  BY DEF WalletFails, LoopInv, ListenerKeepsLoop, consumer
<1>7. DuplicatesAreCounted'
  <2>1. Late' = Late
    BY <1>0 DEF Late, HandlesLate, LoopInv, TypeOK, Generation, Generations
  <2>. QED
    BY <1>0, <2>1, CountGrows DEF WalletFails
<1>. QED
  BY <1>2, <1>3, <1>4, <1>5, <1>6, <1>7 DEF LoopInv

\* A timer becomes a subscribed generation, or the loop's end when nobody
\* listens.
LEMMA RestartKeeps ==
  ASSUME LoopInv, Restart
  PROVE  LoopInv'
<1>0. Cardinality(Subscribed) \in Nat /\ timers \in Nat /\ timers > 0 /\ timers' = timers - 1
  BY HandlersAreFew DEF Restart, TimerFires, LoopInv, TypeOK
<1>1. CASE LoopGoesOn
  <2>1. PICK g \in Generations : /\ generation[g] = Unused
                                 /\ generation' = [generation EXCEPT ![g] = Fresh]
    BY <1>1 DEF Restart
  <2>2. /\ g \notin Subscribed /\ Subscribed' = Subscribed \cup {g}
        /\ Late' = Late /\ Failed' = Failed
    BY <2>1 DEF Subscribed, HandlesGraph, Late, HandlesLate, Failed, Fresh, Unused, LoopInv,
                TypeOK, Generation, Generations
  <2>3. Cardinality(Subscribed') = Cardinality(Subscribed) + 1
    BY <2>2, HandlersAreFew, FS_AddElement
  <2>4. LoopsAreConserved'
    BY <1>0, <1>1, <2>3 DEF Restart, LoopInv, LoopsAreConserved, TypeOK
  <2>5. TypeOK'
    BY <1>0, <1>1, <2>1 DEF Restart, LoopInv, TypeOK, Generation, Fresh, consumer, Generations
  <2>6. FailuresAreCounted'
    BY <2>2 DEF Restart, LoopInv, FailuresAreCounted
  <2>7. SubscribedHasAsked'
    BY <2>1 DEF LoopInv, TypeOK, Generation, Fresh, SubscribedHasAsked
  <2>8. ListenerKeepsLoop'
    BY <1>1 DEF Restart, LoopInv, ListenerKeepsLoop, consumer
  <2>9. DuplicatesAreCounted'
    BY <2>2, CountGrows DEF Restart, LoopInv, TypeOK
  <2>. QED
    BY <2>4, <2>5, <2>6, <2>7, <2>8, <2>9 DEF LoopInv
<1>2. CASE ~LoopGoesOn
  <2>1. ended' = ended + 1 /\ generation' = generation
    BY <1>2 DEF Restart
  <2>2. Subscribed' = Subscribed /\ Late' = Late /\ Failed' = Failed
    BY <2>1, AllKeeps
  <2>3. LoopsAreConserved'
    BY <1>0, <2>1, <2>2 DEF Restart, LoopInv, LoopsAreConserved, TypeOK
  <2>4. TypeOK'
    BY <1>0, <2>1 DEF Restart, LoopInv, TypeOK, consumer
  <2>5. FailuresAreCounted' /\ SubscribedHasAsked'
    BY <2>1, <2>2 DEF Restart, LoopInv, FailuresAreCounted, SubscribedHasAsked
  <2>6. ListenerKeepsLoop'
    BY <1>2 DEF Restart, LoopGoesOn, LoopInv, ListenerKeepsLoop, consumer
  <2>7. DuplicatesAreCounted'
    BY <2>2, CountGrows DEF Restart, LoopInv, TypeOK
  <2>. QED
    BY <2>3, <2>4, <2>5, <2>6, <2>7 DEF LoopInv
<1>. QED
  BY <1>1, <1>2

\* A consumer that comes or goes has not always listened.
LEMMA ConsumerTurnsKeeps ==
  ASSUME LoopInv, ConsumerTurns
  PROVE  LoopInv'
<1>1. Subscribed' = Subscribed /\ Late' = Late /\ Failed' = Failed
  BY AllKeeps DEF ConsumerTurns, loop
<1>2. LoopsAreConserved' /\ FailuresAreCounted'
  BY <1>1 DEF ConsumerTurns, LoopInv, LoopsAreConserved, FailuresAreCounted, loop
<1>3. TypeOK'
  BY DEF ConsumerTurns, LoopInv, TypeOK, loop
<1>4. SubscribedHasAsked' /\ ListenerKeepsLoop'
  BY DEF ConsumerTurns, LoopInv, SubscribedHasAsked, ListenerKeepsLoop, loop
<1>5. DuplicatesAreCounted'
  BY <1>1, CountGrows DEF ConsumerTurns, LoopInv, TypeOK
<1>. QED
  BY <1>2, <1>3, <1>4, <1>5 DEF LoopInv

\* The generations subscribed are no more than the failures and one, and an
\* event of the other kind also finds the late ones.
LEMMA EventKeeps ==
  ASSUME LoopInv, GraphEvent \/ OtherEvent
  PROVE  LoopInv'
<1>1. UNCHANGED <<loop, consumer, walletFailures>> /\ events < MaxEvents /\ events' = events + 1
  BY DEF GraphEvent, OtherEvent
<1>2. Subscribed' = Subscribed /\ Late' = Late /\ Failed' = Failed
  BY <1>1, AllKeeps DEF loop
<1>3. Cardinality(Subscribed) \in Nat /\ Cardinality(Subscribed) <= 1 + walletFailures
  BY HandlersAreFew DEF LoopInv, LoopsAreConserved, TypeOK
<1>4. ASSUME NEW S, S \subseteq Handling \cup Late
      PROVE  /\ Cardinality(S) \in 0..MaxGenerations
             /\ Cardinality(S) <= 1 + walletFailures + Cardinality(Late)
  <2>1. IsFiniteSet(Generations) /\ Cardinality(Generations) = MaxGenerations
    BY FS_Interval DEF Generations
  <2>2. S \subseteq Generations /\ S \subseteq Subscribed \cup Late
    BY <1>4, HandlersAreFew DEF Subscribed, Late
  <2>3. Cardinality(S) \in 0..MaxGenerations
    BY <2>1, <2>2, FS_Subset, FS_CardinalityType
  <2>4. /\ IsFiniteSet(Subscribed \cup Late)
        /\ Cardinality(Subscribed \cup Late)
             = Cardinality(Subscribed) + Cardinality(Late) - Cardinality(Subscribed \cap Late)
    BY HandlersAreFew, FS_Union
  <2>5. Cardinality(Subscribed \cap Late) \in Nat
    BY HandlersAreFew, FS_Intersection, FS_CardinalityType
  <2>6. Cardinality(S) <= Cardinality(Subscribed \cup Late)
    BY <2>2, <2>4, FS_Subset
  <2>. QED
    BY <1>3, <2>3, <2>4, <2>5, <2>6, HandlersAreFew DEF LoopInv, TypeOK
<1>5. /\ handled' \in [{"graph", "other"} -> 0..MaxGenerations]
      /\ handled'["graph"] <= 1 + walletFailures
      /\ handled'["other"] <= 1 + walletFailures + Cardinality(Late)
  <2>0. /\ handled \in [{"graph", "other"} -> 0..MaxGenerations]
        /\ handled["graph"] <= 1 + walletFailures
        /\ handled["other"] <= 1 + walletFailures + Cardinality(Late)
    BY DEF LoopInv, TypeOK, DuplicatesAreCounted
  <2>1. CASE GraphEvent
    BY <1>3, <2>0, <2>1, HandlersAreFew DEF GraphEvent
  <2>2. CASE OtherEvent
    <3>1. PICK streams \in SUBSET Late :
            handled' = [handled EXCEPT !["other"] = Cardinality(Handling \cup streams)]
      BY <2>2 DEF OtherEvent
    <3>2. /\ Cardinality(Handling \cup streams) \in 0..MaxGenerations
          /\ Cardinality(Handling \cup streams) <= 1 + walletFailures + Cardinality(Late)
      BY <1>4
    <3>. QED
      BY <2>0, <3>1, <3>2
  <2>. QED
    BY <2>1, <2>2
<1>6. LoopsAreConserved' /\ FailuresAreCounted'
  BY <1>1, <1>2 DEF LoopInv, LoopsAreConserved, FailuresAreCounted, loop
<1>7. TypeOK'
  BY <1>1, <1>5 DEF LoopInv, TypeOK, loop, consumer
<1>8. SubscribedHasAsked' /\ ListenerKeepsLoop'
  BY <1>1 DEF LoopInv, SubscribedHasAsked, ListenerKeepsLoop, consumer, loop
<1>9. DuplicatesAreCounted'
  BY <1>1, <1>2, <1>5 DEF DuplicatesAreCounted
<1>. QED
  BY <1>6, <1>7, <1>8, <1>9 DEF LoopInv

\* The invariant is kept by every step.
LEMMA LoopNext == LoopInv /\ [Next]_vars => LoopInv'
<1>. SUFFICES ASSUME LoopInv, [Next]_vars PROVE LoopInv'
  OBVIOUS
<1>1. CASE UNCHANGED vars
  <2>1. Subscribed' = Subscribed /\ Late' = Late /\ Failed' = Failed
    BY <1>1, AllKeeps DEF vars, loop
  <2>. QED
    BY <1>1, <2>1 DEF LoopInv, TypeOK, LoopsAreConserved, FailuresAreCounted,
                      SubscribedHasAsked, ListenerKeepsLoop, DuplicatesAreCounted, vars,
                      loop, consumer
<1>2. CASE Next
  BY <1>2, RestartKeeps, ConsumerTurnsKeeps, EventKeeps, SubscriptionFailsKeeps,
     WalletAnswersKeeps, WalletFailsKeeps DEF Next
<1>. QED
  BY <1>1, <1>2

\* The loop keeps its invariant, whatever fails and whoever listens.
THEOREM LoopInvHolds == Spec => []LoopInv
BY LoopInit, LoopNext, PTL DEF Spec

-----------------------------------------------------------------------------

\* Every reachable state of the subscription loop is well typed.
THEOREM LoopTypeCorrect == Spec => []TypeOK
<1>1. LoopInv => TypeOK
  BY DEF LoopInv
<1>. QED
  BY <1>1, LoopInvHolds, PTL

\* No failure is forgotten and none restarts the loop twice.
THEOREM NoLoopIsLost == Spec => []LoopsAreConserved
<1>1. LoopInv => LoopsAreConserved
  BY DEF LoopInv
<1>. QED
  BY <1>1, LoopInvHolds, PTL

\* Unless the loop waits to restart, a consumer that has always listened has a
\* generation that works: one more is subscribed than has failed.
THEOREM ListenersAreServed == Spec => []ServedUnlessRestarting
<1>1. LoopInv => ServedUnlessRestarting
  <2>. SUFFICES ASSUME LoopInv, listened, timers = 0
                PROVE  \E g \in Subscribed : generation[g].wallet \in {"pending", "ok"}
    BY DEF ServedUnlessRestarting
  <2>1. Cardinality(Subscribed) = 1 + Cardinality(Failed)
    BY HandlersAreFew DEF LoopInv, LoopsAreConserved, FailuresAreCounted, ListenerKeepsLoop,
                          TypeOK
  <2>2. ~(Subscribed \subseteq Failed)
    <3>1. Subscribed \subseteq Failed => Cardinality(Subscribed) <= Cardinality(Failed)
      BY HandlersAreFew, FS_Subset
    <3>. QED
      BY <2>1, <3>1, HandlersAreFew
  <2>3. PICK g \in Subscribed : g \notin Failed
    BY <2>2
  <2>. QED
    BY <2>3 DEF Subscribed, HandlesGraph, Failed, LoopInv, SubscribedHasAsked
<1>. QED
  BY <1>1, LoopInvHolds, PTL

\* An event is handled once, and once more at most for every getWalletInfo
\* that failed or came too late.
THEOREM DuplicatesAreFew == Spec => []DuplicatesAreCounted
<1>1. LoopInv => DuplicatesAreCounted
  BY DEF LoopInv
<1>. QED
  BY <1>1, LoopInvHolds, PTL

=============================================================================
