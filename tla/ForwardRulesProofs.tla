------------------------- MODULE ForwardRulesProofs -------------------------
(***************************************************************************)
(* Theorems about ForwardRules, for any requests, channels, rules and      *)
(* bounds.                                                                 *)
(***************************************************************************)
EXTENDS ForwardRules, FiniteSetTheorems, TLAPS

USE ForwardRulesAssumption DEF ForwardRulesAssumption

-----------------------------------------------------------------------------
(* Types *)

LEMMA TipType ==
  ASSUME TypeOK
  PROVE  Tip \in Info
<1>1. Len(minedAt) \in 1..MaxBlocks /\ minedAt \in Seq(1..MaxClock)
  BY DEF TypeOK
<1>2. minedAt[Len(minedAt)] \in 1..MaxClock
  BY <1>1
<1>. QED
  BY <1>1, <1>2 DEF Tip, Info

LEMMA InitTypes ==
  ASSUME Init
  PROVE  TypeOK
<1>1. /\ minedAt \in Seq(1..MaxClock)
      /\ Len(minedAt) = 1
  BY DEF Init
<1>2. request \in [Requests -> Handler]
  <2>1. PICK route \in [Requests -> Routes] :
          request = [r \in Requests |->
            [pc |-> "none", in |-> route[r][1], out |-> route[r][2],
             wait |-> {}, info |-> NoInfo]]
    BY DEF Init
  <2>2. \A r \in Requests : route[r][1] \in Channels /\ route[r][2] \in Channels
    BY <2>1
  <2>3. NoInfo \in Info
    BY DEF NoInfo, Info
  <2>. QED
    BY <2>1, <2>2, <2>3 DEF Handler, Steps
<1>3. chain \in Info
  BY DEF Init, NoInfo, Info
<1>4. /\ clock \in 1..MaxClock
      /\ Len(minedAt) \in 1..MaxBlocks
      /\ notified \in 0..Len(minedAt)
      /\ faults \in 0..MaxFaults
  BY <1>1 DEF Init
<1>5. /\ rules \in RuleSets /\ lookups \subseteq Info /\ channelKeys \subseteq Channels
      /\ answer \in [Requests -> {"none", "accept", "reject"}]
      /\ forward \in [Requests -> {"none", "sent", "seen", "resolved"}]
  BY DEF Init
<1>6. htlcs \in [Requests -> 0..MaxClock] /\ acceptedAt \in [Requests -> 0..MaxClock]
  BY DEF Init
<1>7. rushed \subseteq Requests /\ stopped \in BOOLEAN
  BY DEF Init
<1>. QED
  BY <1>1, <1>2, <1>3, <1>4, <1>5, <1>6, <1>7 DEF TypeOK

\* LND's own steps, and the steps of the listeners for blocks and forwards
LEMMA ChainTypes ==
  ASSUME TypeOK, Mine \/ Tick \/ BlockArrives
  PROVE  TypeOK'
<1>1. CASE Mine
  <2>1. clock \in 1..MaxClock /\ minedAt \in Seq(1..MaxClock)
    BY DEF TypeOK
  <2>2. minedAt' \in Seq(1..MaxClock) /\ Len(minedAt') = Len(minedAt) + 1
    BY <1>1, <2>1 DEF Mine
  <2>3. Len(minedAt') \in 1..MaxBlocks /\ notified \in 0..Len(minedAt')
    BY <1>1, <2>2 DEF TypeOK, Mine
  <2>. QED
    BY <1>1, <2>2, <2>3 DEF TypeOK, Mine, theForwards
<1>2. CASE Tick
  BY <1>2 DEF TypeOK, Tick, theForwards
<1>3. CASE BlockArrives
  <2>1. notified' \in 0..Len(minedAt) /\ notified' \in 0..MaxBlocks
    BY <1>3 DEF TypeOK, BlockArrives
  <2>2. chain \in Info /\ clock \in 0..MaxClock /\ lookups \subseteq Info
    BY DEF TypeOK
  <2>3. CASE chain.latest = 0
    <3>1. chain' = [chain EXCEPT !.height = notified']
      BY <1>3, <2>3 DEF BlockArrives
    <3>2. lookups' = lookups \cup {[height |-> notified', latest |-> 0]}
      BY <1>3, <2>3 DEF BlockArrives
    <3>3. chain' \in Info
      BY <2>1, <2>2, <3>1 DEF Info
    <3>4. [height |-> notified', latest |-> 0] \in Info
      BY <2>1 DEF Info
    <3>. QED
      BY <1>3, <2>1, <2>2, <3>2, <3>3, <3>4 DEF TypeOK, BlockArrives, theForwards
  <2>4. CASE chain.latest # 0
    <3>1. chain' = [height |-> notified', latest |-> clock] /\ lookups' = lookups
      BY <1>3, <2>4 DEF BlockArrives
    <3>2. chain' \in Info
      BY <2>1, <2>2, <3>1 DEF Info
    <3>. QED
      BY <1>3, <2>1, <3>1, <3>2 DEF TypeOK, BlockArrives, theForwards
  <2>. QED
    BY <2>3, <2>4
<1>. QED
  BY <1>1, <1>2, <1>3

LEMMA LookupTypes ==
  ASSUME TypeOK, NEW lookup \in lookups,
         LookupAnswered(lookup) \/ LookupReturns(lookup) \/ LookupFails(lookup)
  PROVE  TypeOK'
<1>0. lookup \in Info /\ Tip \in Info
  BY TipType DEF TypeOK
<1>1. CASE LookupAnswered(lookup)
  <2>1. lookups' \subseteq Info
    BY <1>0, <1>1 DEF TypeOK, LookupAnswered, Info
  <2>. QED
    BY <1>1, <2>1 DEF TypeOK, LookupAnswered, theChain, theForwards
<1>2. CASE LookupReturns(lookup)
  <2>1. chain' \in Info /\ lookups' \subseteq Info
    BY <1>0, <1>2 DEF TypeOK, LookupReturns, Info
  <2>. QED
    BY <1>2, <2>1 DEF TypeOK, LookupReturns, theChain, theForwards
<1>3. CASE LookupFails(lookup)
  BY <1>3 DEF TypeOK, LookupFails, theChain, theForwards
<1>. QED
  BY <1>1, <1>2, <1>3

LEMMA ForwardTypes ==
  ASSUME TypeOK, NEW r \in Requests, ForwardSeen(r) \/ ForwardResolved(r)
  PROVE  TypeOK'
<1>1. CASE ForwardSeen(r)
  <2>1. htlcs' \in [Requests -> 0..MaxClock]
    <3>1. acceptedAt[r] \in 0..MaxClock /\ clock \in 1..MaxClock
      BY DEF TypeOK
    <3>2. CASE htlcs' = htlcs
      BY <3>2 DEF TypeOK
    <3>3. CASE \E at \in acceptedAt[r]..clock : htlcs' = [htlcs EXCEPT ![r] = at]
      BY <3>1, <3>3 DEF TypeOK
    <3>. QED
      BY <1>1, <3>2, <3>3 DEF ForwardSeen
  <2>2. forward' \in [Requests -> {"none", "sent", "seen", "resolved"}]
    BY <1>1 DEF TypeOK, ForwardSeen
  <2>. QED
    BY <1>1, <2>1, <2>2 DEF TypeOK, ForwardSeen, theChain
<1>2. CASE ForwardResolved(r)
  <2>1. htlcs' \in [Requests -> 0..MaxClock]
    BY <1>2 DEF TypeOK, ForwardResolved
  <2>2. forward' \in [Requests -> {"none", "sent", "seen", "resolved"}]
    BY <1>2 DEF TypeOK, ForwardResolved
  <2>. QED
    BY <1>2, <2>1, <2>2 DEF TypeOK, ForwardResolved, theChain
<1>. QED
  BY <1>1, <1>2

\* A handler that moves on, waits, or is done
LEMMA HandlerTypes ==
  ASSUME TypeOK, NEW r \in Requests
  PROVE  /\ \A pc \in Steps : Goto(r, pc) => request' \in [Requests -> Handler]
         /\ \A pc \in Steps, channels \in SUBSET Channels :
              Await(r, pc, channels) => request' \in [Requests -> Handler]
         /\ Reject(r) => /\ request' \in [Requests -> Handler]
                         /\ answer' \in [Requests -> {"none", "accept", "reject"}]
<1>1. request \in [Requests -> Handler] /\ request[r] \in Handler
  BY DEF TypeOK
<1>2. ASSUME NEW pc \in Steps, Goto(r, pc)
      PROVE  request' \in [Requests -> Handler]
  <2>1. [request[r] EXCEPT !.pc = pc] \in Handler
    BY <1>1 DEF Handler
  <2>. QED
    BY <1>1, <1>2, <2>1 DEF Goto
<1>3. ASSUME NEW pc \in Steps, NEW channels \in SUBSET Channels, Await(r, pc, channels)
      PROVE  request' \in [Requests -> Handler]
  <2>. DEFINE wait == request[r].wait \cup (channels \ channelKeys)
  <2>1. wait \in SUBSET Channels
    BY <1>1 DEF Handler
  <2>. HIDE DEF wait
  <2>2. [request[r] EXCEPT !.pc = pc, !.wait = wait] \in Handler
    BY <1>1, <2>1 DEF Handler
  <2>3. request' = [request EXCEPT ![r] = [request[r] EXCEPT !.pc = pc, !.wait = wait]]
    BY <1>1, <1>3 DEF Await, wait
  <2>. QED
    BY <1>1, <2>2, <2>3
<1>4. ASSUME Reject(r)
      PROVE  /\ request' \in [Requests -> Handler]
             /\ answer' \in [Requests -> {"none", "accept", "reject"}]
  BY <1>2, <1>4 DEF Reject, Steps, TypeOK
<1>. QED
  BY <1>2, <1>3, <1>4

\* The stages of a handler that change the handler and its answer only
LEMMA StageTypes ==
  ASSUME TypeOK, NEW r \in Requests,
         \/ CheckChain(r) \/ CheckStop(r) \/ StopOut(r) \/ StopAll(r)
         \/ CheckPairs(r) \/ Edges(r) \/ Refuse(r) \/ Arrive(r)
  PROVE  TypeOK'
<1>1. /\ rules \in Rules /\ rules.stop \in SUBSET Channels
      /\ {request[r].in, request[r].out} \in SUBSET Channels
      /\ {request[r].out} \in SUBSET Channels
  BY DEF TypeOK, Rules, Handler
<1>2. {"checkChain", "askedWallet", "checkStop", "stopOut", "stopAll", "checkPairs",
       "edges", "decide"} \subseteq Steps
  BY DEF Steps
<1>3. request' \in [Requests -> Handler]
  <2>1. CASE CheckChain(r) \/ Arrive(r) \/ StopAll(r) \/ Edges(r) \/ Refuse(r)
    BY <1>2, <2>1, HandlerTypes DEF CheckChain, Arrive, StopAll, Edges, Refuse
  <2>2. CASE CheckStop(r)
    BY <1>1, <1>2, <2>2, HandlerTypes DEF CheckStop
  <2>3. CASE StopOut(r)
    BY <1>1, <1>2, <2>3, HandlerTypes DEF StopOut
  <2>4. CASE CheckPairs(r)
    BY <1>1, <1>2, <2>4, HandlerTypes DEF CheckPairs
  <2>. QED
    BY <2>1, <2>2, <2>3, <2>4
<1>4. answer' \in [Requests -> {"none", "accept", "reject"}]
  <2>1. answer \in [Requests -> {"none", "accept", "reject"}]
    BY DEF TypeOK
  <2>2. answer' = answer \/ Reject(r)
    BY DEF CheckChain, CheckStop, StopOut, StopAll, CheckPairs, Edges, Refuse, Arrive
  <2>. QED
    BY <2>1, <2>2, HandlerTypes
<1>5. UNCHANGED <<rules, clock, minedAt, notified, chain, lookups, channelKeys, htlcs,
                  forward, acceptedAt, rushed, stopped, faults>>
  BY DEF CheckChain, CheckStop, StopOut, StopAll, CheckPairs, Edges, Refuse, Arrive,
     Stage, theChain, theForwards
<1>. QED
  BY <1>3, <1>4, <1>5 DEF TypeOK

\* The other steps of a handler
LEMMA WaitTypes ==
  ASSUME TypeOK, NEW r \in Requests, NEW c \in Channels,
         \/ WalletAnswers(r) \/ WalletReturns(r) \/ WalletFails(r)
         \/ ChannelReturns(r, c) \/ ChannelFails(r, c)
  PROVE  TypeOK'
<1>1. request \in [Requests -> Handler] /\ request[r] \in Handler
  BY DEF TypeOK
<1>2. CASE WalletAnswers(r)
  <2>1. [request[r] EXCEPT !.pc = "gotWallet", !.info = Tip] \in Handler
    BY <1>1, TipType DEF Handler, Steps
  <2>2. request' = [request EXCEPT ![r] =
                      [request[r] EXCEPT !.pc = "gotWallet", !.info = Tip]]
    BY <1>1, <1>2 DEF WalletAnswers
  <2>3. request' \in [Requests -> Handler]
    BY <1>1, <2>1, <2>2
  <2>. QED
    BY <1>2, <2>3 DEF TypeOK, WalletAnswers, theChain, theForwards
<1>3. CASE WalletReturns(r)
  <2>0. NoInfo \in Info
    BY DEF NoInfo, Info
  <2>1. [request[r] EXCEPT !.pc = "checkStop", !.info = NoInfo] \in Handler
    BY <1>1, <2>0 DEF Handler, Steps
  <2>2. request' = [request EXCEPT ![r] =
                      [request[r] EXCEPT !.pc = "checkStop", !.info = NoInfo]]
    BY <1>1, <1>3 DEF WalletReturns
  <2>3. request' \in [Requests -> Handler]
    BY <1>1, <2>1, <2>2
  <2>4. chain' \in Info
    BY <1>1, <1>3 DEF WalletReturns, Handler
  <2>. QED
    BY <1>3, <2>3, <2>4 DEF TypeOK, WalletReturns, theChain, theForwards
<1>4. CASE WalletFails(r)
  <2>1. /\ request' \in [Requests -> Handler]
        /\ answer' \in [Requests -> {"none", "accept", "reject"}]
    BY <1>4, HandlerTypes DEF WalletFails
  <2>2. faults' \in 0..MaxFaults /\ stopped' \in BOOLEAN
    BY <1>4 DEF WalletFails, TypeOK
  <2>. QED
    BY <1>4, <2>1, <2>2 DEF TypeOK, WalletFails, theChain, theForwards
<1>5. CASE ChannelReturns(r, c)
  <2>1. request' \in [Requests -> Handler]
    BY <1>1, <1>5 DEF ChannelReturns, Handler
  <2>. QED
    BY <1>5, <2>1 DEF TypeOK, ChannelReturns, theChain, theForwards
<1>6. CASE ChannelFails(r, c)
  <2>1. [request[r] EXCEPT !.pc = "done", !.wait = request[r].wait \ {c}] \in Handler
    BY <1>1 DEF Handler, Steps
  <2>2. request' = [request EXCEPT ![r] =
                      [request[r] EXCEPT !.pc = "done", !.wait = request[r].wait \ {c}]]
    BY <1>1, <1>6 DEF ChannelFails
  <2>3. request' \in [Requests -> Handler]
    BY <1>1, <2>1, <2>2
  <2>4. answer' \in [Requests -> {"none", "accept", "reject"}]
    BY <1>6 DEF ChannelFails, TypeOK
  <2>5. faults' \in 0..MaxFaults
    BY <1>6 DEF ChannelFails, TypeOK
  <2>. QED
    BY <1>6, <2>3, <2>4, <2>5 DEF TypeOK, ChannelFails, theChain, theForwards
<1>. QED
  BY <1>2, <1>3, <1>4, <1>5, <1>6

LEMMA AcceptTypes ==
  ASSUME TypeOK, NEW r \in Requests, Accept(r)
  PROVE  TypeOK'
<1>1. request' \in [Requests -> Handler]
  BY HandlerTypes DEF Accept, Steps
<1>2. /\ answer' \in [Requests -> {"none", "accept", "reject"}]
      /\ forward' \in [Requests -> {"none", "sent", "seen", "resolved"}]
  BY DEF Accept, TypeOK
<1>3. acceptedAt' \in [Requests -> 0..MaxClock]
  BY DEF Accept, TypeOK
<1>4. rushed' \subseteq Requests
  BY DEF Accept, TypeOK
<1>. QED
  BY <1>1, <1>2, <1>3, <1>4 DEF Accept, TypeOK, theChain

LEMMA StopTypes ==
  ASSUME TypeOK, Stop
  PROVE  TypeOK'
BY DEF Stop, TypeOK, theChain, theForwards

LEMMA NextTypes ==
  ASSUME TypeOK, [Next]_vars
  PROVE  TypeOK'
<1>1. CASE UNCHANGED vars
  BY <1>1 DEF vars, TypeOK, theChain, theForwards
<1>2. CASE Mine \/ Tick \/ BlockArrives
  BY <1>2, ChainTypes
<1>3. CASE Stop
  BY <1>3, StopTypes
<1>4. ASSUME NEW lookup \in lookups,
             LookupAnswered(lookup) \/ LookupReturns(lookup) \/ LookupFails(lookup)
      PROVE  TypeOK'
  BY <1>4, LookupTypes
<1>5. ASSUME NEW r \in Requests,
             \/ CheckChain(r) \/ CheckStop(r) \/ StopOut(r) \/ StopAll(r)
             \/ CheckPairs(r) \/ Edges(r) \/ Refuse(r) \/ Arrive(r)
      PROVE  TypeOK'
  BY <1>5, StageTypes
<1>6. ASSUME NEW r \in Requests, WalletAnswers(r) \/ WalletReturns(r) \/ WalletFails(r)
      PROVE  TypeOK'
  <2>1. request[r].in \in Channels
    BY DEF TypeOK, Handler
  <2>. QED
    BY <1>6, <2>1, WaitTypes
<1>7. ASSUME NEW r \in Requests, NEW c \in Channels,
             ChannelReturns(r, c) \/ ChannelFails(r, c)
      PROVE  TypeOK'
  BY <1>7, WaitTypes
<1>8. ASSUME NEW r \in Requests, Accept(r)
      PROVE  TypeOK'
  BY <1>8, AcceptTypes
<1>9. ASSUME NEW r \in Requests, ForwardSeen(r) \/ ForwardResolved(r)
      PROVE  TypeOK'
  BY <1>9, ForwardTypes
<1>. QED
  BY <1>1, <1>2, <1>3, <1>4, <1>5, <1>6, <1>7, <1>8, <1>9
  DEF Next, Step, Quiescent

\* The variables keep their types, for any rules, requests and bounds.
THEOREM ForwardTypeCorrect == Spec => []TypeOK
<1>. QED
  BY InitTypes, NextTypes, PTL DEF Spec

-----------------------------------------------------------------------------
(* What a step does to the handlers and their answers *)

\* The channels of a request stay, a handler that is done stays done, an answer
\* comes once and ends it.
HandlersMoveOn ==
  \A r \in Requests :
    /\ request'[r].in = request[r].in
    /\ request'[r].out = request[r].out
    /\ request[r].pc = "done" => request'[r].pc = "done"
    /\ answer'[r] # answer[r] => answer[r] = "none" /\ request'[r].pc = "done"
    /\ request'[r].info.height <= Len(minedAt)

NothingIsAccepted ==
  \A r \in Requests : answer'[r] = "accept" => answer[r] = "accept"

LEMMA LengthType ==
  ASSUME TypeOK
  PROVE  Len(minedAt) \in 1..MaxBlocks
BY DEF TypeOK

\* The fields that Goto and Await leave alone
LEMMA GotoSays ==
  ASSUME TypeOK, NEW r \in Requests, NEW pc \in Steps, Goto(r, pc)
  PROVE  \A o \in Requests :
           /\ request'[o].in = request[o].in
           /\ request'[o].out = request[o].out
           /\ request'[o].info = request[o].info
           /\ request'[o].pc = IF o = r THEN pc ELSE request[o].pc
<1>1. request \in [Requests -> Handler]
  BY DEF TypeOK
<1>. QED
  BY <1>1 DEF Goto, Handler

LEMMA AwaitSays ==
  ASSUME TypeOK, NEW r \in Requests, NEW pc \in Steps, NEW channels \in SUBSET Channels,
         Await(r, pc, channels)
  PROVE  \A o \in Requests :
           /\ request'[o].in = request[o].in
           /\ request'[o].out = request[o].out
           /\ request'[o].info = request[o].info
           /\ request'[o].pc = IF o = r THEN pc ELSE request[o].pc
<1>1. request \in [Requests -> Handler]
  BY DEF TypeOK
<1>2. PICK wait : request' = [request EXCEPT ![r] =
                                [request[r] EXCEPT !.pc = pc, !.wait = wait]]
  BY <1>1 DEF Await
<1>. QED
  BY <1>1, <1>2 DEF Handler

\* A handler that is not done has no answer yet
LEMMA NotDoneSays ==
  ASSUME AnsweredIsDone, NEW r \in Requests, request[r].pc # "done"
  PROVE  answer[r] = "none" /\ forward[r] = "none"
BY DEF AnsweredIsDone

LEMMA MovesWithoutAnswer ==
  ASSUME TypeOK, AnsweredIsDone, HeightsAreMined, NEW r \in Requests,
         request[r].pc # "done", answer' = answer,
         \A o \in Requests :
           /\ request'[o].in = request[o].in
           /\ request'[o].out = request[o].out
           /\ request'[o].info = request[o].info
           /\ o # r => request'[o].pc = request[o].pc
  PROVE  HandlersMoveOn /\ NothingIsAccepted
BY DEF HandlersMoveOn, NothingIsAccepted, HeightsAreMined

LEMMA RejectMoves ==
  ASSUME TypeOK, AnsweredIsDone, HeightsAreMined, NEW r \in Requests,
         request[r].pc # "done", Reject(r)
  PROVE  HandlersMoveOn /\ NothingIsAccepted
<1>1. \A o \in Requests :
        /\ request'[o].in = request[o].in
        /\ request'[o].out = request[o].out
        /\ request'[o].info = request[o].info
        /\ request'[o].pc = IF o = r THEN "done" ELSE request[o].pc
  BY GotoSays DEF Reject, Steps
<1>2. answer[r] = "none"
  BY NotDoneSays
<1>3. \A o \in Requests : answer'[o] = IF o = r THEN "reject" ELSE answer[o]
  BY DEF Reject, TypeOK
<1>. QED
  BY <1>1, <1>2, <1>3 DEF HandlersMoveOn, NothingIsAccepted, HeightsAreMined

LEMMA StagesMoveOn ==
  ASSUME TypeOK, AnsweredIsDone, HeightsAreMined, NEW r \in Requests,
         \/ CheckChain(r) \/ CheckStop(r) \/ StopOut(r) \/ StopAll(r)
         \/ CheckPairs(r) \/ Edges(r) \/ Refuse(r) \/ Arrive(r)
  PROVE  HandlersMoveOn /\ NothingIsAccepted
<1>1. /\ rules.stop \in SUBSET Channels
      /\ {request[r].in, request[r].out} \in SUBSET Channels
      /\ {request[r].out} \in SUBSET Channels
  BY DEF TypeOK, Rules, Handler
<1>2. request[r].pc # "done"
  BY DEF CheckChain, CheckStop, StopOut, StopAll, CheckPairs, Edges, Refuse, Arrive, Stage
<1>3. CASE Reject(r)
  BY <1>2, <1>3, RejectMoves
<1>4. CASE ~Reject(r)
  <2>1. answer' = answer
    BY <1>4 DEF CheckChain, CheckStop, StopOut, StopAll, CheckPairs, Edges, Refuse, Arrive
  <2>2. \/ \E pc \in Steps : Goto(r, pc)
        \/ \E pc \in Steps, channels \in SUBSET Channels : Await(r, pc, channels)
    <3>1. CASE CheckChain(r) \/ Arrive(r)
      BY <3>1 DEF CheckChain, Arrive, Steps
    <3>2. CASE StopAll(r) \/ Edges(r) \/ Refuse(r)
      BY <1>4, <3>2 DEF StopAll, Edges, Refuse, Steps
    <3>3. CASE CheckStop(r)
      BY <1>1, <1>4, <3>3 DEF CheckStop, Steps
    <3>4. CASE StopOut(r)
      BY <1>1, <3>4 DEF StopOut, Steps
    <3>5. CASE CheckPairs(r)
      BY <1>1, <3>5 DEF CheckPairs, Steps
    <3>. QED
      BY <3>1, <3>2, <3>3, <3>4, <3>5
  <2>3. \A o \in Requests :
          /\ request'[o].in = request[o].in
          /\ request'[o].out = request[o].out
          /\ request'[o].info = request[o].info
          /\ o # r => request'[o].pc = request[o].pc
    BY <2>2, GotoSays, AwaitSays
  <2>. QED
    BY <1>2, <2>1, <2>3, MovesWithoutAnswer
<1>. QED
  BY <1>3, <1>4

LEMMA WaitsMoveOn ==
  ASSUME TypeOK, AnsweredIsDone, HeightsAreMined, NEW r \in Requests, NEW c \in Channels,
         \/ WalletAnswers(r) \/ WalletReturns(r) \/ WalletFails(r)
         \/ ChannelReturns(r, c) \/ ChannelFails(r, c)
  PROVE  HandlersMoveOn /\ NothingIsAccepted
<1>1. request \in [Requests -> Handler] /\ request[r] \in Handler
      /\ Len(minedAt) \in 1..MaxBlocks
  BY DEF TypeOK
<1>2. CASE WalletAnswers(r) \/ WalletReturns(r)
  <2>1. request[r].pc # "done" /\ answer' = answer
    BY <1>2 DEF WalletAnswers, WalletReturns
  <2>2. PICK pc \in Steps, info \in {Tip, NoInfo} :
          request' = [request EXCEPT ![r] = [request[r] EXCEPT !.pc = pc, !.info = info]]
    BY <1>1, <1>2 DEF WalletAnswers, WalletReturns, Steps
  <2>3. info.height <= Len(minedAt)
    BY <1>1 DEF Tip, NoInfo
  <2>4. \A o \in Requests :
          /\ request'[o].in = request[o].in
          /\ request'[o].out = request[o].out
          /\ o # r => request'[o] = request[o]
          /\ o = r => request'[o].info = info
    BY <1>1, <2>2 DEF Handler
  <2>. QED
    BY <2>1, <2>3, <2>4 DEF HandlersMoveOn, NothingIsAccepted, HeightsAreMined
<1>3. CASE WalletFails(r)
  BY <1>3, RejectMoves DEF WalletFails
<1>4. CASE ChannelReturns(r, c) \/ ChannelFails(r, c)
  <2>1. CASE ChannelReturns(r, c)
    <3>1. request[r].wait \ {c} \in SUBSET Channels
      BY <1>1 DEF Handler
    <3>2. request' = [request EXCEPT ![r] =
                        [request[r] EXCEPT !.wait = request[r].wait \ {c}]]
      BY <1>1, <2>1 DEF ChannelReturns
    <3>3. \A o \in Requests :
            /\ request'[o].in = request[o].in
            /\ request'[o].out = request[o].out
            /\ request'[o].info = request[o].info
            /\ request'[o].pc = request[o].pc
      BY <1>1, <3>1, <3>2 DEF Handler
    <3>4. answer' = answer
      BY <2>1 DEF ChannelReturns
    <3>. QED
      BY <3>3, <3>4 DEF HandlersMoveOn, NothingIsAccepted, HeightsAreMined
  <2>2. CASE ChannelFails(r, c)
    <3>1. request' = [request EXCEPT ![r] =
                        [request[r] EXCEPT !.pc = "done", !.wait = request[r].wait \ {c}]]
      BY <1>1, <2>2 DEF ChannelFails
    <3>2. \A o \in Requests :
            /\ request'[o].in = request[o].in
            /\ request'[o].out = request[o].out
            /\ request'[o].info = request[o].info
            /\ request'[o].pc = IF o = r THEN "done" ELSE request[o].pc
      BY <1>1, <3>1 DEF Handler
    <3>3. \A o \in Requests :
            answer'[o] # answer[o] => o = r /\ answer[o] = "none" /\ answer'[o] = "reject"
      BY <2>2 DEF ChannelFails, TypeOK
    <3>. QED
      BY <3>2, <3>3 DEF HandlersMoveOn, NothingIsAccepted, HeightsAreMined
  <2>. QED
    BY <1>4, <2>1, <2>2
<1>. QED
  BY <1>2, <1>3, <1>4

-----------------------------------------------------------------------------
(* The forwards: the limit *)

LEMMA NewlyPendingIsFinite ==
  IsFiniteSet(NewlyPending) /\ IsFiniteSet(Pending)
BY FS_Subset DEF NewlyPending, Pending

\* When every accepted forward is in the table, the table has those that count
LEMMA TableHasNewlyPending ==
  ASSUME TypeOK, ForwardsAreTimed, \A r \in Requests : ~IsUnseen(r)
  PROVE  NewlyPending \subseteq Pending
<1>1. SUFFICES ASSUME NEW r \in Requests, forward[r] \in {"sent", "seen"},
                      acceptedAt[r] > clock - 1
               PROVE  htlcs[r] # 0 /\ htlcs[r] > clock - 1
  BY DEF NewlyPending, Pending
<1>2. htlcs[r] # 0
  BY <1>1 DEF IsUnseen
<1>3. htlcs[r] >= acceptedAt[r]
  BY <1>2 DEF ForwardsAreTimed
<1>4. htlcs[r] \in Int /\ acceptedAt[r] \in Int /\ clock \in Int
  BY DEF TypeOK
<1>. QED
  BY <1>1, <1>2, <1>3, <1>4

\* Fewer forwards that count, the same rules: the limit still holds
LEMMA LimitStays ==
  ASSUME TypeOK, LimitHolds, UNCHANGED <<rules, rushed>>,
         NewlyPending' \subseteq NewlyPending
  PROVE  LimitHolds'
<1>. DEFINE old == NewlyPending \ rushed
            new == NewlyPending' \ rushed'
<1>0. new \subseteq old /\ IsFiniteSet(old)
  BY NewlyPendingIsFinite, FS_Subset
<1>1. Cardinality(new) <= Cardinality(old)
  BY <1>0, FS_Subset
<1>2. Cardinality(old) \in Nat /\ Cardinality(new) \in Nat
  BY <1>0, FS_Subset, FS_CardinalityType
<1>3. rules.limit \in Int
  BY DEF TypeOK, Rules, NoLimit
<1>. QED
  BY <1>1, <1>2, <1>3 DEF LimitHolds

\* A request that is accepted while another is not yet in the table is rushed; when
\* none is, the table has all that count, and they are fewer than the limit
LEMMA AcceptKeepsLimit ==
  ASSUME TypeOK, ForwardsAreTimed, LimitHolds, NEW r \in Requests, Accept(r)
  PROVE  LimitHolds'
<1>. DEFINE old == NewlyPending \ rushed
            new == NewlyPending' \ rushed'
<1>1. rules' = rules
  BY DEF Accept
<1>2. SUFFICES ASSUME rules.limit # NoLimit
               PROVE  Cardinality(new) <= rules.limit
  BY <1>1 DEF LimitHolds
<1>3. NewlyPending' \subseteq NewlyPending \cup {r}
  <2>1. \A o \in Requests : o # r => forward'[o] = forward[o]
    BY DEF Accept, TypeOK
  <2>2. \A o \in Requests : o # r => acceptedAt'[o] = acceptedAt[o]
    BY DEF Accept, TypeOK
  <2>3. clock' = clock
    BY DEF Accept, theChain
  <2>. QED
    BY <2>1, <2>2, <2>3 DEF NewlyPending
<1>4. /\ IsFiniteSet(NewlyPending \cup {r})
      /\ Cardinality(NewlyPending \cup {r}) <= Cardinality(NewlyPending) + 1
  <2>1. Cardinality(NewlyPending) \in Nat
    BY NewlyPendingIsFinite, FS_CardinalityType
  <2>2. /\ IsFiniteSet(NewlyPending \cup {r})
        /\ \/ Cardinality(NewlyPending \cup {r}) = Cardinality(NewlyPending)
           \/ Cardinality(NewlyPending \cup {r}) = Cardinality(NewlyPending) + 1
    BY NewlyPendingIsFinite, FS_AddElement, Zenon
  <2>. QED
    BY <2>1, <2>2
<1>5. IsFiniteSet(old) /\ IsFiniteSet(new)
  BY <1>3, <1>4, NewlyPendingIsFinite, FS_Subset
<1>6. /\ Cardinality(old) \in Nat /\ Cardinality(new) \in Nat
      /\ Cardinality(NewlyPending) \in Nat /\ Cardinality(Pending) \in Nat
      /\ Cardinality(NewlyPending \cup {r}) \in Nat
  BY <1>4, <1>5, NewlyPendingIsFinite, FS_CardinalityType
<1>7. rules.limit \in Nat /\ Cardinality(Pending) < rules.limit
  BY <1>2 DEF Accept, IsWithinLimit, TypeOK, Rules
<1>8. CASE \E o \in Requests : IsUnseen(o)
  <2>1. new \subseteq old
    BY <1>3, <1>8 DEF Accept
  <2>2. Cardinality(new) <= Cardinality(old)
    BY <1>5, <2>1, FS_Subset
  <2>. QED
    BY <1>2, <1>6, <1>7, <2>2 DEF LimitHolds
<1>9. CASE \A o \in Requests : ~IsUnseen(o)
  <2>1. NewlyPending \subseteq Pending
    BY <1>9, TableHasNewlyPending
  <2>2. Cardinality(NewlyPending) <= Cardinality(Pending)
    BY <2>1, NewlyPendingIsFinite, FS_Subset
  <2>3. new \subseteq NewlyPending \cup {r}
    BY <1>3
  <2>4. Cardinality(new) <= Cardinality(NewlyPending \cup {r})
    BY <1>4, <2>3, FS_Subset
  <2>. QED
    BY <1>4, <1>6, <1>7, <2>2, <2>4
<1>. QED
  BY <1>8, <1>9

-----------------------------------------------------------------------------
(* One lemma per kind of step *)

\* The handlers move on without accepting anything
LEMMA MovesKeepInv ==
  ASSUME RulesInv, TypeOK', HandlersMoveOn, NothingIsAccepted,
         UNCHANGED <<rules, clock, minedAt, htlcs, theForwards>>,
         chain'.height <= Len(minedAt)
  PROVE  RulesInv'
<1>1. AnsweredIsDone'
  <2>1. SUFFICES ASSUME NEW r \in Requests, answer'[r] # "none" \/ forward[r] # "none"
                 PROVE  request'[r].pc = "done"
    BY DEF AnsweredIsDone, theForwards
  <2>2. CASE answer'[r] # answer[r]
    BY <2>2 DEF HandlersMoveOn
  <2>3. CASE answer'[r] = answer[r]
    BY <2>1, <2>3 DEF HandlersMoveOn, RulesInv, AnsweredIsDone
  <2>. QED
    BY <2>2, <2>3
<1>2. ForwardsAreTimed'
  BY DEF RulesInv, ForwardsAreTimed, theForwards
<1>3. HeightsAreMined'
  BY DEF HeightsAreMined, HandlersMoveOn
<1>4. YoungChannelsWait'
  <2>1. \A r \in Requests : answer'[r] = "accept" => answer[r] = "accept"
    BY DEF NothingIsAccepted
  <2>2. \A r \in Requests :
          request'[r].in = request[r].in /\ request'[r].out = request[r].out
    BY DEF HandlersMoveOn
  <2>. QED
    BY <2>1, <2>2 DEF RulesInv, YoungChannelsWait
<1>5. LimitHolds'
  <2>1. NewlyPending' = NewlyPending
    BY DEF NewlyPending, theForwards
  <2>. QED
    BY <2>1, LimitStays DEF RulesInv, theForwards
<1>. QED
  BY <1>1, <1>2, <1>3, <1>4, <1>5 DEF RulesInv

LEMMA AgesAreNumbers ==
  ASSUME TypeOK, NEW r \in Requests, NEW c \in {request[r].in, request[r].out}
  PROVE  Confirmed[c] \in Int /\ rules.minAge \in Int
<1>1. c \in Channels
  BY DEF TypeOK, Handler
<1>2. rules \in Rules
  BY DEF TypeOK
<1>. QED
  BY <1>1, <1>2 DEF Rules

\* The handlers rest: the chain, the clock, the listeners
LEMMA ChainKeepsInv ==
  ASSUME RulesInv, TypeOK', UNCHANGED <<rules, request, answer, htlcs, theForwards>>,
         clock' \in {clock, clock + 1}, Len(minedAt') >= Len(minedAt),
         chain'.height <= Len(minedAt')
  PROVE  RulesInv'
<1>1. AnsweredIsDone' /\ ForwardsAreTimed'
  BY DEF RulesInv, AnsweredIsDone, ForwardsAreTimed, theForwards
<1>2. Len(minedAt) \in Int /\ Len(minedAt') \in Int /\ clock \in Int
  BY DEF RulesInv, TypeOK
<1>3. HeightsAreMined'
  <2>1. \A r \in Requests : request[r].info.height \in Int
    BY DEF RulesInv, TypeOK, Handler, Info
  <2>. QED
    BY <1>2, <2>1 DEF RulesInv, HeightsAreMined
<1>4. YoungChannelsWait'
  <2>1. SUFFICES ASSUME NEW r \in Requests, answer[r] = "accept",
                        NEW c \in {request[r].in, request[r].out}, rules.minAge # 0
                 PROVE  Confirmed[c] + rules.minAge <= Len(minedAt')
    BY DEF YoungChannelsWait
  <2>2. Confirmed[c] + rules.minAge <= Len(minedAt)
    BY <2>1 DEF RulesInv, YoungChannelsWait
  <2>3. Confirmed[c] \in Int /\ rules.minAge \in Int
    BY AgesAreNumbers DEF RulesInv
  <2>. QED
    BY <1>2, <2>2, <2>3
<1>5. LimitHolds'
  <2>1. \A r \in Requests : acceptedAt[r] \in Int
    BY DEF RulesInv, TypeOK
  <2>2. NewlyPending' \subseteq NewlyPending
    BY <1>2, <2>1 DEF NewlyPending, theForwards
  <2>. QED
    BY <2>2, LimitStays DEF RulesInv, theForwards
<1>. QED
  BY <1>1, <1>3, <1>4, <1>5 DEF RulesInv

LEMMA ForwardKeepsInv ==
  ASSUME RulesInv, TypeOK', NEW r \in Requests, ForwardSeen(r) \/ ForwardResolved(r)
  PROVE  RulesInv'
<1>1. /\ forward \in [Requests -> {"none", "sent", "seen", "resolved"}]
      /\ htlcs \in [Requests -> 0..MaxClock]
      /\ acceptedAt[r] \in 0..MaxClock
  BY DEF RulesInv, TypeOK
<1>2. /\ forward[r] \in {"sent", "seen"}
      /\ \A o \in Requests : o # r => forward'[o] = forward[o]
      /\ forward'[r] \in {"seen", "resolved"}
      /\ UNCHANGED <<rules, clock, minedAt, chain, request, answer, acceptedAt, rushed>>
      /\ forward'[r] = "resolved" \/ forward[r] = "sent"
  BY <1>1 DEF ForwardSeen, ForwardResolved, theChain
<1>3. AnsweredIsDone'
  BY <1>2 DEF RulesInv, AnsweredIsDone
<1>4. ForwardsAreTimed'
  <2>1. \A o \in Requests : o # r => htlcs'[o] = htlcs[o]
    BY <1>1 DEF ForwardSeen, ForwardResolved
  <2>2. htlcs'[r] # 0 => htlcs'[r] = htlcs[r] \/ htlcs'[r] >= acceptedAt[r]
    <3>1. CASE ForwardSeen(r)
      <4>1. CASE htlcs' = htlcs
        BY <4>1
      <4>2. CASE \E at \in acceptedAt[r]..clock : htlcs' = [htlcs EXCEPT ![r] = at]
        BY <1>1, <4>2
      <4>. QED
        BY <3>1, <4>1, <4>2 DEF ForwardSeen
    <3>2. CASE ForwardResolved(r)
      BY <1>1, <3>2 DEF ForwardResolved
    <3>. QED
      BY <3>1, <3>2
  <2>. QED
    BY <1>2, <2>1, <2>2 DEF RulesInv, ForwardsAreTimed
<1>5. HeightsAreMined' /\ YoungChannelsWait'
  BY <1>2 DEF RulesInv, HeightsAreMined, YoungChannelsWait
<1>6. LimitHolds'
  <2>1. NewlyPending' \subseteq NewlyPending
    BY <1>2 DEF NewlyPending
  <2>. QED
    BY <1>2, <2>1, LimitStays DEF RulesInv
<1>. QED
  BY <1>3, <1>4, <1>5, <1>6 DEF RulesInv

\* The step that decides
LEMMA AcceptSays ==
  ASSUME TypeOK, AnsweredIsDone, HeightsAreMined, NEW r \in Requests, Accept(r)
  PROVE  /\ HandlersMoveOn
         /\ request'[r].pc = "done"
         /\ forward[r] = "none"
         /\ \A o \in Requests : o # r => answer'[o] = answer[o]
<1>1. \A o \in Requests :
        /\ request'[o].in = request[o].in
        /\ request'[o].out = request[o].out
        /\ request'[o].info = request[o].info
        /\ request'[o].pc = IF o = r THEN "done" ELSE request[o].pc
  BY GotoSays DEF Accept, Steps
<1>2. answer[r] = "none" /\ forward[r] = "none"
  BY NotDoneSays DEF Accept
<1>3. \A o \in Requests : answer'[o] = IF o = r THEN "accept" ELSE answer[o]
  BY DEF Accept, TypeOK
<1>. QED
  BY <1>1, <1>2, <1>3 DEF HandlersMoveOn, HeightsAreMined

LEMMA AcceptKeepsInv ==
  ASSUME RulesInv, TypeOK', NEW r \in Requests, Accept(r)
  PROVE  RulesInv'
<1>1. /\ HandlersMoveOn /\ request'[r].pc = "done" /\ forward[r] = "none"
      /\ \A o \in Requests : o # r => answer'[o] = answer[o]
  BY AcceptSays DEF RulesInv
<1>2. /\ UNCHANGED <<rules, clock, minedAt, chain, htlcs>>
      /\ \A o \in Requests : o # r => forward'[o] = forward[o]
      /\ \A o \in Requests : o # r => acceptedAt'[o] = acceptedAt[o]
      /\ forward'[r] = "sent"
  BY DEF RulesInv, Accept, TypeOK, theChain
<1>3. AnsweredIsDone'
  BY <1>1, <1>2 DEF RulesInv, AnsweredIsDone, HandlersMoveOn
<1>4. ForwardsAreTimed'
  BY <1>1, <1>2 DEF RulesInv, ForwardsAreTimed
<1>5. HeightsAreMined'
  BY <1>1, <1>2 DEF RulesInv, HeightsAreMined, HandlersMoveOn
<1>6. YoungChannelsWait'
  <2>1. SUFFICES ASSUME NEW o \in Requests, answer'[o] = "accept",
                        NEW c \in {request[o].in, request[o].out}, rules.minAge # 0
                 PROVE  Confirmed[c] + rules.minAge <= Len(minedAt)
    BY <1>1, <1>2 DEF YoungChannelsWait, HandlersMoveOn
  <2>2. CASE o # r
    BY <1>1, <2>1, <2>2 DEF RulesInv, YoungChannelsWait
  <2>3. CASE o = r
    <3>1. Confirmed[c] <= chain.height - rules.minAge
      BY <2>1, <2>3 DEF Accept, IsOldEnough
    <3>2. chain.height <= Len(minedAt)
      BY DEF RulesInv, HeightsAreMined
    <3>3. Confirmed[c] \in Int /\ rules.minAge \in Int
      BY <2>1, AgesAreNumbers DEF RulesInv
    <3>4. chain.height \in Int /\ Len(minedAt) \in Int
      BY DEF RulesInv, TypeOK, Info
    <3>. QED
      BY <3>1, <3>2, <3>3, <3>4
  <2>. QED
    BY <2>2, <2>3
<1>7. LimitHolds'
  BY AcceptKeepsLimit DEF RulesInv
<1>. QED
  BY <1>3, <1>4, <1>5, <1>6, <1>7 DEF RulesInv

-----------------------------------------------------------------------------
(* The theorems *)

LEMMA InitEstablishesInv ==
  ASSUME Init
  PROVE  RulesInv
<1>1. TypeOK
  BY InitTypes
<1>2. \A r \in Requests : /\ answer[r] = "none" /\ forward[r] = "none"
                          /\ htlcs[r] = 0 /\ request[r].info = NoInfo
  BY DEF Init
<1>3. chain = NoInfo /\ Len(minedAt) = 1
  BY DEF Init
<1>4. AnsweredIsDone /\ ForwardsAreTimed /\ YoungChannelsWait
  BY <1>2 DEF AnsweredIsDone, ForwardsAreTimed, YoungChannelsWait
<1>5. HeightsAreMined
  BY <1>2, <1>3 DEF HeightsAreMined, NoInfo
<1>6. LimitHolds
  <2>1. NewlyPending = {}
    BY <1>2 DEF NewlyPending
  <2>2. rules.limit # NoLimit => rules.limit \in Nat
    BY <1>1 DEF TypeOK, Rules
  <2>. QED
    BY <2>1, <2>2, FS_EmptySet DEF LimitHolds
<1>. QED
  BY <1>1, <1>4, <1>5, <1>6 DEF RulesInv

\* Every step keeps the invariant, and no step changes an answer
LEMMA NextKeepsInv ==
  ASSUME RulesInv, [Next]_vars
  PROVE  /\ RulesInv'
         /\ \A r \in Requests : answer[r] # "none" => answer'[r] = answer[r]
<1>1. /\ TypeOK /\ TypeOK' /\ AnsweredIsDone /\ HeightsAreMined
      /\ Len(minedAt) \in 1..MaxBlocks /\ chain.height <= Len(minedAt)
  BY NextTypes DEF RulesInv, TypeOK, HeightsAreMined
<1>2. CASE UNCHANGED vars
  BY <1>1, <1>2, ChainKeepsInv DEF vars, theChain, theForwards
<1>3. CASE Mine \/ Tick \/ Stop
  <2>1. Len(minedAt') >= Len(minedAt)
    BY <1>1, <1>3 DEF Mine, Tick, Stop, theChain, TypeOK
  <2>2. /\ UNCHANGED <<rules, chain, request, answer, htlcs, theForwards>>
        /\ clock' \in {clock, clock + 1}
    BY <1>3 DEF Mine, Tick, Stop, theChain
  <2>3. Len(minedAt') \in Int /\ chain.height \in Int
    BY <1>1 DEF TypeOK, Info
  <2>. QED
    BY <1>1, <2>1, <2>2, <2>3, ChainKeepsInv
<1>4. CASE BlockArrives
  <2>1. chain'.height = notified + 1 /\ notified + 1 <= Len(minedAt)
    BY <1>1, <1>4 DEF BlockArrives, TypeOK, Info
  <2>. QED
    BY <1>1, <1>4, <2>1, ChainKeepsInv DEF BlockArrives
<1>5. ASSUME NEW lookup \in lookups,
             LookupAnswered(lookup) \/ LookupReturns(lookup) \/ LookupFails(lookup)
      PROVE  /\ RulesInv'
             /\ \A r \in Requests : answer[r] # "none" => answer'[r] = answer[r]
  <2>1. chain'.height = chain.height
    BY <1>1, <1>5 DEF LookupAnswered, LookupReturns, LookupFails, TypeOK, Info
  <2>. QED
    BY <1>1, <1>5, <2>1, ChainKeepsInv
    DEF LookupAnswered, LookupReturns, LookupFails, theChain
<1>6. ASSUME NEW r \in Requests,
             \/ CheckChain(r) \/ CheckStop(r) \/ StopOut(r) \/ StopAll(r)
             \/ CheckPairs(r) \/ Edges(r) \/ Refuse(r) \/ Arrive(r)
      PROVE  /\ RulesInv'
             /\ \A o \in Requests : answer[o] # "none" => answer'[o] = answer[o]
  <2>1. HandlersMoveOn /\ NothingIsAccepted
    BY <1>1, <1>6, StagesMoveOn
  <2>2. UNCHANGED <<rules, clock, minedAt, chain, htlcs, theForwards>>
    BY <1>6 DEF CheckChain, CheckStop, StopOut, StopAll, CheckPairs, Edges, Refuse, Arrive,
       Stage, theChain, theForwards
  <2>3. RulesInv'
    BY <1>1, <2>1, <2>2, MovesKeepInv
  <2>. QED
    BY <2>1, <2>3 DEF HandlersMoveOn
<1>7. ASSUME NEW r \in Requests, NEW c \in Channels,
             \/ WalletAnswers(r) \/ WalletReturns(r) \/ WalletFails(r)
             \/ ChannelReturns(r, c) \/ ChannelFails(r, c)
      PROVE  /\ RulesInv'
             /\ \A o \in Requests : answer[o] # "none" => answer'[o] = answer[o]
  <2>1. HandlersMoveOn /\ NothingIsAccepted
    BY <1>1, <1>7, WaitsMoveOn
  <2>2. UNCHANGED <<rules, clock, minedAt, htlcs, theForwards>>
    BY <1>7 DEF WalletAnswers, WalletReturns, WalletFails, ChannelReturns, ChannelFails,
       theChain, theForwards
  <2>3. chain' = chain \/ chain' = request[r].info
    BY <1>7 DEF WalletAnswers, WalletReturns, WalletFails, ChannelReturns, ChannelFails
  <2>4. chain'.height <= Len(minedAt)
    BY <1>1, <2>3 DEF HeightsAreMined
  <2>5. RulesInv'
    BY <1>1, <2>1, <2>2, <2>4, MovesKeepInv
  <2>. QED
    BY <2>1, <2>5 DEF HandlersMoveOn
<1>8. ASSUME NEW r \in Requests, Accept(r)
      PROVE  /\ RulesInv'
             /\ \A o \in Requests : answer[o] # "none" => answer'[o] = answer[o]
  <2>1. HandlersMoveOn
    BY <1>1, <1>8, AcceptSays
  <2>. QED
    BY <1>1, <1>8, <2>1, AcceptKeepsInv DEF HandlersMoveOn
<1>9. ASSUME NEW r \in Requests, ForwardSeen(r) \/ ForwardResolved(r)
      PROVE  /\ RulesInv'
             /\ \A o \in Requests : answer[o] # "none" => answer'[o] = answer[o]
  BY <1>1, <1>9, ForwardKeepsInv DEF ForwardSeen, ForwardResolved
<1>10. \A r \in Requests : request[r].in \in Channels
  BY <1>1 DEF TypeOK, Handler
<1>11. CASE Quiescent
  BY <1>2, <1>11 DEF Quiescent
<1>12. ASSUME NEW r \in Requests, WalletAnswers(r) \/ WalletReturns(r) \/ WalletFails(r)
       PROVE  /\ RulesInv'
              /\ \A o \in Requests : answer[o] # "none" => answer'[o] = answer[o]
  <2>1. request[r].in \in Channels
    BY <1>10
  <2>. QED
    BY <1>7, <1>12, <2>1
<1>. QED
  BY <1>2, <1>3, <1>4, <1>5, <1>6, <1>7, <1>8, <1>9, <1>11, <1>12 DEF Next, Step

\* The invariant holds: answers end handlers, no height is known that is not mined,
\* the table of pending forwards is no older than the answers.
THEOREM RulesInvHolds == Spec => []RulesInv
<1>. QED
  BY InitEstablishesInv, NextKeepsInv, PTL DEF Spec

\* No forward is accepted over a channel younger than min_activation_age, for any
\* number of requests and however old the known height is.
THEOREM YoungChannelsAlwaysWait == Spec => []YoungChannelsWait
<1>1. RulesInv => YoungChannelsWait
  BY DEF RulesInv
<1>. QED
  BY <1>1, RulesInvHolds, PTL

\* Of the requests that were not accepted between the answer to another and its
\* event, no more of an hour are pending than max_new_pending_per_hour.
THEOREM LimitAlwaysHolds == Spec => []LimitHolds
<1>1. RulesInv => LimitHolds
  BY DEF RulesInv
<1>. QED
  BY <1>1, RulesInvHolds, PTL

\* A request is accepted or rejected once, whatever fails, returns late or stops.
THEOREM AnswersAlwaysStand == Spec => AnswersStand
<1>1. ASSUME RulesInv, [Next]_vars
      PROVE  [\A r \in Requests : answer[r] # "none" => answer'[r] = answer[r]]_vars
  BY <1>1, NextKeepsInv
<1>. QED
  BY <1>1, RulesInvHolds, PTL DEF Spec, AnswersStand

-----------------------------------------------------------------------------
(* The lists: what a stage has found out holds as long as the handler goes on *)

PassesStops(r) == rules.stops => request[r].in \notin rules.stop /\ ~StopsOut(r)

PassesPairs(r) == rules.kind # "none" => (IsListed(r) <=> rules.kind = "allow")

Passed(r) ==
  /\ request[r].pc \in {"stopOut", "stopAll"} => request[r].in \notin rules.stop
  /\ request[r].pc \in {"checkPairs", "edges", "decide"} => PassesStops(r)
  /\ request[r].pc = "decide" => PassesPairs(r)
  /\ answer[r] = "accept" => PassesStops(r) /\ PassesPairs(r)

ListsPassed == \A r \in Requests : Passed(r)

ListsInv == RulesInv /\ ListsPassed

\* The stages before the lists are looked at, and the last
Elsewhere == {"none", "checkChain", "askedWallet", "gotWallet", "checkStop", "done"}

\* A request keeps its channels: what was found out of them does not change.
LEMMA FindingsStand ==
  ASSUME rules' = rules, NEW r, request'[r].in = request[r].in,
         request'[r].out = request[r].out
  PROVE  /\ PassesStops(r)' <=> PassesStops(r)
         /\ PassesPairs(r)' <=> PassesPairs(r)
<1>1. StopsOut(r)' <=> StopsOut(r)
  BY DEF StopsOut
<1>2. IsListed(r)' <=> IsListed(r)
  BY DEF IsListed, InKey, OutKey
<1>. QED
  BY <1>1, <1>2 DEF PassesStops, PassesPairs

LEMMA StaysPassed ==
  ASSUME NEW r, Passed(r), rules' = rules, request'[r].in = request[r].in,
         request'[r].out = request[r].out,
         request'[r].pc = request[r].pc \/ request'[r].pc \in Elsewhere,
         answer'[r] \in {answer[r], "reject"}
  PROVE  Passed(r)'
BY FindingsStand DEF Passed, Elsewhere

\* The stages that look at the lists
LEMMA StagesPass ==
  ASSUME ListsInv, NEW r \in Requests,
         \/ CheckStop(r) \/ StopOut(r) \/ StopAll(r) \/ CheckPairs(r) \/ Edges(r)
         \/ Accept(r)
  PROVE  ListsPassed'
<1>1. TypeOK /\ AnsweredIsDone /\ HeightsAreMined /\ ListsPassed
  BY DEF ListsInv, RulesInv
<1>2. /\ rules' = rules /\ rules.stop \in SUBSET Channels
      /\ {request[r].in, request[r].out} \in SUBSET Channels
      /\ {request[r].out} \in SUBSET Channels
  BY <1>1 DEF CheckStop, StopOut, StopAll, CheckPairs, Edges, Accept, Stage, TypeOK, Rules,
     Handler
<1>3. answer[r] = "none" /\ \A o \in Requests : o # r => answer'[o] = answer[o]
  <2>1. request[r].pc # "done"
    BY DEF CheckStop, StopOut, StopAll, CheckPairs, Edges, Accept, Stage
  <2>2. answer[r] = "none"
    BY <1>1, <2>1, NotDoneSays
  <2>. QED
    BY <1>1, <2>2 DEF CheckStop, StopOut, StopAll, CheckPairs, Edges, Accept, Reject, TypeOK
<1>4. ASSUME NEW pc \in Steps,
             Goto(r, pc) \/ \E channels \in SUBSET Channels : Await(r, pc, channels),
             pc \in {"stopOut", "stopAll"} => request[r].in \notin rules.stop,
             pc \in {"checkPairs", "edges", "decide"} => PassesStops(r),
             pc = "decide" => PassesPairs(r),
             answer'[r] = "accept" => PassesStops(r) /\ PassesPairs(r)
      PROVE  ListsPassed'
  <2>1. \A o \in Requests :
          /\ request'[o].in = request[o].in
          /\ request'[o].out = request[o].out
          /\ request'[o].pc = IF o = r THEN pc ELSE request[o].pc
    BY <1>1, <1>4, GotoSays, AwaitSays
  <2>2. \A o \in Requests : o # r => Passed(o)'
    BY <1>1, <1>2, <1>3, <2>1, StaysPassed DEF ListsPassed
  <2>3. Passed(r)'
    BY <1>2, <1>4, <2>1, FindingsStand DEF Passed
  <2>. QED
    BY <2>2, <2>3 DEF ListsPassed
<1>5. Passed(r)
  BY <1>1 DEF ListsPassed
<1>6. CASE Reject(r)
  <2>1. answer'[r] = "reject" /\ Goto(r, "done") /\ "done" \in Steps
    BY <1>1, <1>6 DEF Reject, TypeOK, Steps
  <2>. QED
    BY <1>4, <2>1
<1>7. CASE CheckStop(r) /\ ~Reject(r)
  <2>1. answer'[r] = "none" /\ {"checkPairs", "stopOut"} \subseteq Steps
    BY <1>3, <1>7 DEF CheckStop, Steps
  <2>2. CASE ~rules.stops /\ Goto(r, "checkPairs")
    BY <1>4, <2>1, <2>2 DEF PassesStops
  <2>3. CASE request[r].in \notin rules.stop /\ Await(r, "stopOut", {request[r].out})
    BY <1>2, <1>4, <2>1, <2>3
  <2>. QED
    BY <1>7, <2>2, <2>3 DEF CheckStop
<1>8. CASE StopOut(r)
  <2>1. /\ answer'[r] = "none" /\ Await(r, "stopAll", rules.stop) /\ "stopAll" \in Steps
        /\ request[r].in \notin rules.stop
    BY <1>3, <1>5, <1>8 DEF StopOut, Stage, Passed, Steps
  <2>. QED
    BY <1>2, <1>4, <2>1
<1>9. CASE StopAll(r) /\ ~Reject(r)
  <2>1. /\ answer'[r] = "none" /\ Goto(r, "checkPairs") /\ "checkPairs" \in Steps
        /\ PassesStops(r)
    BY <1>3, <1>5, <1>9 DEF StopAll, Stage, Passed, Steps, PassesStops
  <2>. QED
    BY <1>4, <2>1
<1>10. CASE CheckPairs(r)
  <2>1. answer'[r] = "none" /\ {"decide", "edges"} \subseteq Steps /\ PassesStops(r)
    BY <1>3, <1>5, <1>10 DEF CheckPairs, Stage, Passed, Steps
  <2>2. CASE rules.kind = "none" /\ Goto(r, "decide")
    BY <1>4, <2>1, <2>2 DEF PassesPairs
  <2>3. CASE Await(r, "edges", {request[r].in, request[r].out})
    BY <1>2, <1>4, <2>1, <2>3
  <2>. QED
    BY <1>10, <2>2, <2>3 DEF CheckPairs
<1>11. CASE Edges(r) /\ ~Reject(r)
  <2>1. /\ answer'[r] = "none" /\ Goto(r, "decide") /\ "decide" \in Steps
        /\ PassesStops(r)
    BY <1>3, <1>5, <1>11 DEF Edges, Stage, Passed, Steps
  <2>2. PassesPairs(r)
    <3>1. IsListed(r) = (rules.kind = "allow")
      BY <1>11 DEF Edges
    <3>. QED
      BY <3>1, Zenon DEF PassesPairs
  <2>. QED
    BY <1>4, <2>1, <2>2
<1>12. CASE Accept(r)
  <2>1. Goto(r, "done") /\ "done" \in Steps /\ PassesStops(r) /\ PassesPairs(r)
    BY <1>5, <1>12 DEF Accept, Passed, Steps
  <2>. QED
    BY <1>4, <2>1
<1>. QED
  BY <1>6, <1>7, <1>8, <1>9, <1>10, <1>11, <1>12

\* The other steps of a handler
LEMMA OthersStayPassed ==
  ASSUME ListsInv, NEW r \in Requests,
         \/ CheckChain(r) \/ Refuse(r) \/ Arrive(r)
         \/ WalletAnswers(r) \/ WalletReturns(r) \/ WalletFails(r)
         \/ \E c \in Channels : ChannelReturns(r, c) \/ ChannelFails(r, c)
  PROVE  ListsPassed'
<1>1. /\ TypeOK /\ ListsPassed /\ request \in [Requests -> Handler]
      /\ answer \in [Requests -> {"none", "accept", "reject"}]
  BY DEF ListsInv, RulesInv, TypeOK
<1>2. rules' = rules
  BY DEF CheckChain, Refuse, Arrive, WalletAnswers, WalletReturns, WalletFails,
     ChannelReturns, ChannelFails, Stage
<1>3. ASSUME \A o \in Requests :
               /\ request'[o].in = request[o].in
               /\ request'[o].out = request[o].out
               /\ request'[o].pc = request[o].pc \/ request'[o].pc \in Elsewhere
               /\ answer'[o] \in {answer[o], "reject"}
      PROVE  ListsPassed'
  BY <1>1, <1>2, <1>3, StaysPassed DEF ListsPassed
<1>4. ASSUME NEW pc \in Elsewhere \cap Steps, Goto(r, pc),
             answer' = answer \/ answer' = [answer EXCEPT ![r] = "reject"]
      PROVE  ListsPassed'
  <2>1. \A o \in Requests : answer'[o] \in {answer[o], "reject"}
    BY <1>1, <1>4
  <2>2. \A o \in Requests :
          /\ request'[o].in = request[o].in
          /\ request'[o].out = request[o].out
          /\ request'[o].pc = IF o = r THEN pc ELSE request[o].pc
    BY <1>1, <1>4, GotoSays
  <2>. QED
    BY <1>3, <1>4, <2>1, <2>2
<1>5. CASE CheckChain(r) \/ Refuse(r) \/ Arrive(r) \/ WalletFails(r)
  BY <1>4, <1>5 DEF CheckChain, Refuse, Arrive, WalletFails, Reject, Elsewhere, Steps
<1>6. CASE WalletAnswers(r) \/ WalletReturns(r)
  <2>1. answer' = answer
    BY <1>6 DEF WalletAnswers, WalletReturns
  <2>2. PICK pc \in Elsewhere, info \in {Tip, NoInfo} :
          request' = [request EXCEPT ![r] = [request[r] EXCEPT !.pc = pc, !.info = info]]
    BY <1>1, <1>6 DEF WalletAnswers, WalletReturns, Elsewhere
  <2>3. \A o \in Requests :
          /\ request'[o].in = request[o].in
          /\ request'[o].out = request[o].out
          /\ request'[o].pc = IF o = r THEN pc ELSE request[o].pc
    BY <1>1, <2>2 DEF Handler
  <2>. QED
    BY <1>3, <2>1, <2>3
<1>7. ASSUME NEW c \in Channels, ChannelReturns(r, c) \/ ChannelFails(r, c)
      PROVE  ListsPassed'
  <2>1. CASE ChannelReturns(r, c)
    <3>1. request' = [request EXCEPT ![r] =
                        [request[r] EXCEPT !.wait = request[r].wait \ {c}]]
      BY <1>1, <2>1 DEF ChannelReturns
    <3>2. \A o \in Requests :
            /\ request'[o].in = request[o].in
            /\ request'[o].out = request[o].out
            /\ request'[o].pc = request[o].pc
      BY <1>1, <3>1 DEF Handler
    <3>. QED
      BY <1>3, <2>1, <3>2 DEF ChannelReturns
  <2>2. CASE ChannelFails(r, c)
    <3>1. request' = [request EXCEPT ![r] =
                        [request[r] EXCEPT !.pc = "done", !.wait = request[r].wait \ {c}]]
      BY <1>1, <2>2 DEF ChannelFails
    <3>2. \A o \in Requests :
            /\ request'[o].in = request[o].in
            /\ request'[o].out = request[o].out
            /\ request'[o].pc = IF o = r THEN "done" ELSE request[o].pc
      BY <1>1, <3>1 DEF Handler
    <3>3. \A o \in Requests : answer'[o] \in {answer[o], "reject"}
      BY <1>1, <2>2 DEF ChannelFails
    <3>. QED
      BY <1>3, <3>2, <3>3 DEF Elsewhere
  <2>. QED
    BY <1>7, <2>1, <2>2
<1>. QED
  BY <1>5, <1>6, <1>7

LEMMA ListsStayPassed == ListsInv /\ [Next]_vars => ListsInv'
<1>. SUFFICES ASSUME ListsInv, [Next]_vars
              PROVE  ListsPassed'
  BY NextKeepsInv DEF ListsInv
<1>1. ASSUME UNCHANGED <<rules, request, answer>>
      PROVE  ListsPassed'
  BY <1>1, StaysPassed DEF ListsInv, ListsPassed
<1>2. CASE UNCHANGED vars
  BY <1>1, <1>2 DEF vars
<1>3. CASE \/ Mine \/ Tick \/ Stop \/ BlockArrives
           \/ \E lookup \in lookups :
                LookupAnswered(lookup) \/ LookupReturns(lookup) \/ LookupFails(lookup)
           \/ \E r \in Requests : ForwardSeen(r) \/ ForwardResolved(r)
  BY <1>1, <1>3 DEF Mine, Tick, Stop, BlockArrives, LookupAnswered, LookupReturns,
     LookupFails, ForwardSeen, ForwardResolved
<1>. QED
  BY <1>2, <1>3, StagesPass, OthersStayPassed DEF Next, Step, Quiescent

\* With the keys in order, two channels have the same keys if they have the same
\* peer, and the peers of a request are the keys its channels do not share.
LEMMA PeerSays ==
  ASSUME NEW c \in Channels
  PROVE  KeySet(c) = {Us, Peer(c)} /\ Peer(c) \in KeySet(c)
<1>1. \E key \in KeySet(c) : KeySet(c) = {Us, key}
  BY DEF KeySet
<1>. QED
  BY <1>1 DEF Peer

LEMMA SamePeerSameKeys ==
  ASSUME NEW c \in Channels, NEW d \in Channels
  PROVE  Peer(c) = Peer(d) <=> KeysOf[c] = KeysOf[d]
<1>1. ASSUME Peer(c) = Peer(d)
      PROVE  KeysOf[c] = KeysOf[d]
  <2>1. KeySet(c) = KeySet(d)
    BY <1>1, PeerSays
  <2>. QED
    BY <2>1, KeysAssumption DEF KeySet
<1>2. ASSUME KeysOf[c] = KeysOf[d]
      PROVE  Peer(c) = Peer(d)
  BY <1>2 DEF Peer, KeySet
<1>. QED
  BY <1>1, <1>2

LEMMA PeersOfRequest ==
  ASSUME TypeOK, NEW r \in Requests
  PROVE  /\ Peer(request[r].in) # Peer(request[r].out) =>
              InKey(r) = Peer(request[r].in) /\ OutKey(r) = Peer(request[r].out)
         /\ Peer(request[r].in) = Peer(request[r].out) =>
              /\ InKey(r) = OutKey(r)
              /\ InKey(r) # Us => InKey(r) = Peer(request[r].in)
<1>1. request[r].in \in Channels /\ request[r].out \in Channels
  BY DEF TypeOK, Handler
<1>2. PICK in \in Channels, out \in Channels : in = request[r].in /\ out = request[r].out
  BY <1>1
<1>3. /\ KeySet(in) = {Us, Peer(in)}
      /\ KeySet(out) = {Us, Peer(out)}
      /\ KeySet(in) = {KeysOf[in][1], KeysOf[in][2]}
      /\ KeySet(out) = {KeysOf[out][1], KeysOf[out][2]}
  BY PeerSays DEF KeySet
<1>4. /\ InKey(r) = IF KeysOf[in][1] \notin KeySet(out) THEN KeysOf[in][1]
                                                         ELSE KeysOf[in][2]
      /\ OutKey(r) = IF KeysOf[out][1] \in KeySet(in) THEN KeysOf[out][2]
                                                      ELSE KeysOf[out][1]
  BY <1>2 DEF InKey, OutKey
<1>5. ASSUME Peer(in) # Peer(out)
      PROVE  InKey(r) = Peer(in) /\ OutKey(r) = Peer(out)
  <2>1. InKey(r) = Peer(in)
    <3>1. /\ {KeysOf[in][1], KeysOf[in][2]} \subseteq {Us, Peer(in)}
          /\ {Us, Peer(in)} \subseteq {KeysOf[in][1], KeysOf[in][2]}
      BY <1>3
    <3>2. (IF KeysOf[in][1] \notin {Us, Peer(out)} THEN KeysOf[in][1] ELSE KeysOf[in][2])
            = Peer(in)
      BY <1>5, <3>1
    <3>3. KeysOf[in][1] \in KeySet(out) <=> KeysOf[in][1] \in {Us, Peer(out)}
      BY <1>3, Zenon
    <3>. QED
      BY <1>4, <3>2, <3>3
  <2>2. OutKey(r) = Peer(out)
    <3>1. /\ {KeysOf[out][1], KeysOf[out][2]} \subseteq {Us, Peer(out)}
          /\ {Us, Peer(out)} \subseteq {KeysOf[out][1], KeysOf[out][2]}
      BY <1>3
    <3>2. (IF KeysOf[out][1] \in {Us, Peer(in)} THEN KeysOf[out][2] ELSE KeysOf[out][1])
            = Peer(out)
      BY <1>5, <3>1
    <3>3. KeysOf[out][1] \in KeySet(in) <=> KeysOf[out][1] \in {Us, Peer(in)}
      BY <1>3, Zenon
    <3>. QED
      BY <1>4, <3>2, <3>3
  <2>. QED
    BY <2>1, <2>2
<1>6. ASSUME Peer(in) = Peer(out)
      PROVE  InKey(r) = OutKey(r) /\ (InKey(r) # Us => InKey(r) = Peer(in))
  <2>1. KeysOf[in] = KeysOf[out]
    BY <1>6, SamePeerSameKeys
  <2>. QED
    BY <1>3, <1>4, <2>1
<1>. QED
  BY <1>2, <1>5, <1>6

LEMMA InitPasses == Init => ListsInv
<1>. SUFFICES ASSUME Init
              PROVE  ListsInv
  OBVIOUS
<1>1. \A r \in Requests : answer[r] = "none" /\ request[r].pc = "none"
  BY DEF Init
<1>. QED
  BY <1>1, InitEstablishesInv DEF ListsInv, ListsPassed, Passed

\* An accepted forward respects stop_channels, only_allow and only_disallow for
\* every channel with the peers they name, however the lookups of the channels
\* interleave, are shared through the cache, and fail.
THEOREM ListsAlwaysKept == Spec => []ListsAreKept
<1>1. ListsInv => ListsAreKept
  <2>. SUFFICES ASSUME ListsInv, NEW r \in Requests, answer[r] = "accept",
                       NEW in \in Channels, in = request[r].in,
                       NEW out \in Channels, out = request[r].out
                PROVE  /\ rules.stops =>
                            in \notin rules.stop /\ \A c \in rules.stop : Peer(c) # Peer(out)
                       /\ rules.kind = "allow" => <<Peer(in), Peer(out)>> \in rules.pairs
                       /\ (rules.kind = "disallow" /\ Peer(in) # Peer(out))
                            => <<Peer(in), Peer(out)>> \notin rules.pairs
    BY DEF ListsInv, RulesInv, TypeOK, Handler, ListsAreKept
  <2>1. TypeOK /\ PassesStops(r) /\ PassesPairs(r)
    BY DEF ListsInv, RulesInv, ListsPassed, Passed
  <2>2. rules.stop \subseteq Channels /\ <<Us, Us>> \notin rules.pairs
    BY <2>1, KeysAssumption DEF TypeOK, Rules
  <2>3. rules.stops => in \notin rules.stop /\ \A c \in rules.stop : Peer(c) # Peer(out)
    BY <2>1, <2>2, SamePeerSameKeys DEF PassesStops, StopsOut
  <2>4. ASSUME rules.kind = "allow"
        PROVE  <<Peer(in), Peer(out)>> \in rules.pairs
    <3>1. <<InKey(r), OutKey(r)>> \in rules.pairs
      BY <2>1, <2>4 DEF PassesPairs, IsListed
    <3>. QED
      BY <2>1, <2>2, <3>1, PeersOfRequest
  <2>5. ASSUME rules.kind = "disallow", Peer(in) # Peer(out)
        PROVE  <<Peer(in), Peer(out)>> \notin rules.pairs
    BY <2>1, <2>5, PeersOfRequest DEF PassesPairs, IsListed
  <2>. QED
    BY <2>3, <2>4, <2>5
<1>2. Spec => []ListsInv
  BY InitPasses, ListsStayPassed, PTL DEF Spec
<1>. QED
  BY <1>1, <1>2, PTL

=============================================================================
