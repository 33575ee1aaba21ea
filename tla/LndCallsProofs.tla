---------------------------- MODULE LndCallsProofs ----------------------------
(***************************************************************************)
(* Theorems about the modules of MCLndCalls, for any constants: in each    *)
(* part the inductive invariant of one module, that its steps keep it, and *)
(* at the end what follows for the modules beside one another.             *)
(***************************************************************************)
EXTENDS MCLndCalls, FiniteSetTheorems, TLAPS

USE LndCallsAssumption DEF LndCallsAssumption

-----------------------------------------------------------------------------
(* PeerConnection *)

\* A wait, and a wait that has not been answered: it has its timer and its
\* listener exactly while it waits, and hears of connections only then
WaitRecord ==
  [at : {"idle", "listing", "subscribing", "waiting", "checking", "done"},
   seen : BOOLEAN, listening : BOOLEAN, timer : BOOLEAN,
   inbox : SUBSET Peers, answers : Nat, excused : BOOLEAN,
   result : {"none", "ok", "missing", "failed"}]

DialRecord ==
  [at : {"idle", "listing", "sockets", "dialing", "done"},
   left : 0..MaxSockets, result : {"none", "ok", "unknown", "failed"}]

\* A dial under way has a socket left to try
HasSocket(r) == r.at = "dialing" => r.left # 0

IsAnsweredOnce(r) ==
  /\ r.answers <= 1
  /\ r.at \in {"idle", "listing", "subscribing", "waiting"} => r.answers = 0
  /\ r.timer <=> r.at = "waiting"
  /\ r.listening <=> r.at = "waiting"
  /\ r.at # "waiting" => r.inbox = {}

\* A wait that was told of its peer, by LND's list or by an event, and whose
\* peer is not there any more, has the peer's going away for a reason
IsExcusable(r) ==
  /\ (r.at = "subscribing" /\ r.seen /\ Peer \notin linked) => r.excused
  /\ (Peer \in r.inbox /\ Peer \notin linked) => r.excused
  /\ (r.at = "checking" /\ Peer \notin linked) => r.excused
  /\ r.result = "missing" => r.excused

\* The inductive invariant of the connections
LinkedInv ==
  /\ Connection!TypeOK
  /\ \A w \in Waits : IsAnsweredOnce(wait[w]) /\ IsExcusable(wait[w])
  /\ \A d \in Dials : HasSocket(dial[d])
  /\ Connection!ProbesLeaveNothing

LEMMA WaitFields ==
  ASSUME Connection!TypeOK, NEW w \in Waits
  PROVE  /\ wait[w] \in WaitRecord
         /\ wait[w].at \in {"idle", "listing", "subscribing", "waiting", "checking", "done"}
         /\ wait[w].seen \in BOOLEAN /\ wait[w].listening \in BOOLEAN
         /\ wait[w].timer \in BOOLEAN /\ wait[w].excused \in BOOLEAN
         /\ wait[w].inbox \in SUBSET Peers
         /\ wait[w].answers \in Nat
         /\ wait[w].result \in {"none", "ok", "missing", "failed"}
<1>1. wait[w] \in WaitRecord
  BY DEF Connection!TypeOK, WaitRecord
<1>. QED
  BY <1>1 DEF WaitRecord

\* One wait moves
LEMMA WaitMoves ==
  ASSUME LinkedInv, NEW w \in Waits, NEW r \in WaitRecord,
         wait' = [wait EXCEPT ![w] = r], moves' \in 0..MaxMoves,
         UNCHANGED <<linked, dial, probe, proposals>>,
         IsAnsweredOnce(r), IsExcusable(r)
  PROVE  LinkedInv'
<1>1. \A v \in Waits : wait'[v] = IF v = w THEN r ELSE wait[v]
  BY DEF LinkedInv, Connection!TypeOK
<1>2. Connection!TypeOK'
  <2>1. wait \in [Waits -> WaitRecord]
    BY DEF LinkedInv, Connection!TypeOK, WaitRecord
  <2>2. wait' \in [Waits -> WaitRecord]
    BY <2>1
  <2>. QED
    BY <2>2 DEF LinkedInv, Connection!TypeOK, WaitRecord
<1>3. \A v \in Waits : IsAnsweredOnce(wait'[v])
  BY <1>1 DEF LinkedInv
<1>4. \A v \in Waits : IsExcusable(wait[v])'
  BY <1>1 DEF LinkedInv, IsExcusable
<1>5. Connection!ProbesLeaveNothing'
  BY DEF LinkedInv, Connection!ProbesLeaveNothing
<1>. QED
  BY <1>2, <1>3, <1>4, <1>5 DEF LinkedInv, IsAnsweredOnce

\* The steps of waitForConnectedPeer
LEMMA WaitStartKeeps ==
  ASSUME LinkedInv, NEW w \in Waits, Connection!WaitStart(w)
  PROVE  LinkedInv'
<1>. DEFINE r == [Connection!Waiting EXCEPT !.at = "listing"]
<1>1. /\ wait' = [wait EXCEPT ![w] = r] /\ moves' = moves
      /\ UNCHANGED <<linked, dial, probe, proposals>>
  BY DEF Connection!WaitStart, Connection!Becomes
<1>. DEFINE idle == Connection!Waiting
<1>2. /\ idle \in WaitRecord
      /\ idle.inbox = {} /\ idle.answers = 0 /\ idle.result = "none"
      /\ ~idle.timer /\ ~idle.listening
  BY DEF Connection!Waiting, WaitRecord
<1>. HIDE DEF idle
<1>3. /\ r \in WaitRecord
      /\ r.at = "listing"
      /\ r.inbox = {} /\ r.answers = 0 /\ r.result = "none"
      /\ ~r.timer /\ ~r.listening
  BY <1>2 DEF WaitRecord, idle
<1>. HIDE DEF r
<1>4. IsAnsweredOnce(r) /\ IsExcusable(r)
  BY <1>3 DEF IsAnsweredOnce, IsExcusable
<1>. QED
  BY <1>1, <1>3, <1>4, WaitMoves DEF LinkedInv, Connection!TypeOK

LEMMA WaitListKeeps ==
  ASSUME LinkedInv, NEW w \in Waits, Connection!WaitList(w)
  PROVE  LinkedInv'
<1>0. (Peer \in linked) \in BOOLEAN
  OBVIOUS
<1>. PICK seen \in BOOLEAN : seen = (Peer \in linked)
  BY <1>0, Zenon
<1>. DEFINE r == [wait[w] EXCEPT !.at = "subscribing", !.seen = seen]
<1>1. /\ wait' = [wait EXCEPT ![w] = r] /\ moves' = moves
      /\ UNCHANGED <<linked, dial, probe, proposals>>
  BY DEF Connection!WaitList, Connection!Becomes
<1>2. wait[w] \in WaitRecord /\ wait[w].at = "listing"
  BY WaitFields DEF LinkedInv, Connection!WaitList
<1>3. /\ r \in WaitRecord
      /\ r.at = "subscribing" /\ (r.seen <=> Peer \in linked)
      /\ r.inbox = wait[w].inbox /\ r.result = wait[w].result
      /\ r.answers = wait[w].answers
      /\ (r.timer <=> wait[w].timer) /\ (r.listening <=> wait[w].listening)
      /\ (r.excused <=> wait[w].excused)
  BY <1>2 DEF WaitRecord
<1>. HIDE DEF r
<1>4. IsAnsweredOnce(r) /\ IsExcusable(r)
  BY <1>2, <1>3 DEF LinkedInv, IsAnsweredOnce, IsExcusable
<1>. QED
  BY <1>1, <1>3, <1>4, WaitMoves DEF LinkedInv, Connection!TypeOK

LEMMA WaitSubscribeKeeps ==
  ASSUME LinkedInv, NEW w \in Waits, Connection!WaitSubscribe(w)
  PROVE  LinkedInv'
<1>1. /\ moves' = moves /\ UNCHANGED <<linked, dial, probe, proposals>>
  BY DEF Connection!WaitSubscribe, Connection!Becomes
<1>2. /\ wait[w] \in WaitRecord /\ wait[w].at = "subscribing"
      /\ IsAnsweredOnce(wait[w]) /\ IsExcusable(wait[w])
  BY WaitFields DEF LinkedInv, Connection!WaitSubscribe
<1>3. CASE wait[w].seen
  <2>. DEFINE r == [wait[w] EXCEPT !.at = "checking"]
  <2>1. wait' = [wait EXCEPT ![w] = r]
    BY <1>3 DEF Connection!WaitSubscribe, Connection!Becomes
  <2>2. /\ r \in WaitRecord
        /\ r.at = "checking"
        /\ r.inbox = wait[w].inbox /\ r.result = wait[w].result
        /\ r.answers = wait[w].answers
        /\ (r.timer <=> wait[w].timer) /\ (r.listening <=> wait[w].listening)
        /\ (r.excused <=> wait[w].excused)
    BY <1>2 DEF WaitRecord
  <2>. HIDE DEF r
  <2>3. IsAnsweredOnce(r) /\ IsExcusable(r)
    BY <1>2, <1>3, <2>2 DEF IsAnsweredOnce, IsExcusable
  <2>. QED
    BY <1>1, <2>1, <2>2, <2>3, WaitMoves DEF LinkedInv, Connection!TypeOK
<1>4. CASE ~wait[w].seen
  <2>. DEFINE r == [wait[w] EXCEPT !.at = "waiting", !.listening = TRUE, !.timer = TRUE]
  <2>1. wait' = [wait EXCEPT ![w] = r]
    BY <1>4 DEF Connection!WaitSubscribe, Connection!Becomes
  <2>2. /\ r \in WaitRecord
        /\ r.at = "waiting"
        /\ r.inbox = wait[w].inbox /\ r.result = wait[w].result
        /\ r.answers = wait[w].answers
        /\ r.timer /\ r.listening
        /\ (r.excused <=> wait[w].excused)
    BY <1>2 DEF WaitRecord
  <2>. HIDE DEF r
  <2>3. IsAnsweredOnce(r) /\ IsExcusable(r)
    BY <1>2, <1>4, <2>2 DEF IsAnsweredOnce, IsExcusable
  <2>. QED
    BY <1>1, <2>1, <2>2, <2>3, WaitMoves DEF LinkedInv, Connection!TypeOK
<1>. QED
  BY <1>3, <1>4

\* What Answered(Cleared(r), ...) is
LEMMA AnsweredFields ==
  ASSUME NEW r \in WaitRecord, NEW stage \in {"checking", "done"},
         NEW result \in {"none", "failed"}
  PROVE  LET a == Connection!Answered(Connection!Cleared(r), stage, result)
         IN  /\ a \in WaitRecord
             /\ a.at = stage /\ a.result = result /\ a.answers = r.answers + 1
             /\ a.inbox = {} /\ ~a.timer /\ ~a.listening
             /\ (a.excused <=> r.excused)
<1>. DEFINE c == Connection!Cleared(r)
<1>1. /\ c \in WaitRecord /\ c.answers = r.answers /\ (c.excused <=> r.excused)
      /\ c.inbox = {} /\ ~c.timer /\ ~c.listening
  BY DEF WaitRecord, Connection!Cleared
<1>. HIDE DEF c
<1>2. Connection!Answered(c, stage, result)
        = [c EXCEPT !.at = stage, !.answers = c.answers + 1, !.result = result]
  BY DEF Connection!Answered
<1>3. Connection!Answered(c, stage, result) \in WaitRecord
  <2>1. PICK n \in Nat : n = c.answers + 1
    BY <1>1 DEF WaitRecord
  <2>2. [c EXCEPT !.at = stage, !.answers = n, !.result = result] \in WaitRecord
    BY <1>1 DEF WaitRecord
  <2>. QED
    BY <1>2, <2>1, <2>2
<1>. QED
  BY <1>1, <1>2, <1>3 DEF WaitRecord, c

LEMMA WaitConnectedKeeps ==
  ASSUME LinkedInv, NEW w \in Waits, NEW p \in Peers, Connection!WaitConnected(w, p)
  PROVE  LinkedInv'
<1>1. /\ moves' = moves /\ UNCHANGED <<linked, dial, probe, proposals>>
  BY DEF Connection!WaitConnected, Connection!Becomes
<1>2. /\ wait[w] \in WaitRecord /\ wait[w].at = "waiting" /\ p \in wait[w].inbox
      /\ IsAnsweredOnce(wait[w]) /\ IsExcusable(wait[w])
  BY WaitFields DEF LinkedInv, Connection!WaitConnected, IsAnsweredOnce
<1>3. CASE p = Peer
  <2>. DEFINE r == Connection!Answered(Connection!Cleared(wait[w]), "checking", "none")
  <2>1. wait' = [wait EXCEPT ![w] = r]
    BY <1>3 DEF Connection!WaitConnected, Connection!Becomes
  <2>2. /\ r \in WaitRecord
        /\ r.at = "checking" /\ r.result = "none" /\ r.answers = wait[w].answers + 1
        /\ r.inbox = {} /\ ~r.timer /\ ~r.listening
        /\ (r.excused <=> wait[w].excused)
    BY <1>2, AnsweredFields
  <2>. HIDE DEF r
  <2>3. IsAnsweredOnce(r) /\ IsExcusable(r)
    BY <1>2, <1>3, <2>2 DEF IsAnsweredOnce, IsExcusable
  <2>. QED
    BY <1>1, <2>1, <2>2, <2>3, WaitMoves DEF LinkedInv, Connection!TypeOK
<1>4. CASE p # Peer
  <2>. DEFINE r == [wait[w] EXCEPT !.inbox = wait[w].inbox \ {p}]
  <2>1. wait' = [wait EXCEPT ![w] = r]
    BY <1>4 DEF Connection!WaitConnected, Connection!Becomes
  <2>2. /\ r \in WaitRecord
        /\ r.at = wait[w].at /\ r.result = wait[w].result
        /\ r.inbox = wait[w].inbox \ {p} /\ r.answers = wait[w].answers
        /\ (r.timer <=> wait[w].timer) /\ (r.listening <=> wait[w].listening)
        /\ (r.excused <=> wait[w].excused) /\ (r.seen <=> wait[w].seen)
    BY <1>2 DEF WaitRecord
  <2>. HIDE DEF r
  <2>3. IsAnsweredOnce(r) /\ IsExcusable(r)
    BY <1>2, <2>2 DEF IsAnsweredOnce, IsExcusable
  <2>. QED
    BY <1>1, <2>1, <2>2, <2>3, WaitMoves DEF LinkedInv, Connection!TypeOK
<1>. QED
  BY <1>3, <1>4

LEMMA WaitBreaksKeeps ==
  ASSUME LinkedInv, NEW w \in Waits, Connection!WaitBreaks(w)
  PROVE  LinkedInv'
<1>. DEFINE r == Connection!Answered(Connection!Cleared(wait[w]), "done", "failed")
<1>1. /\ wait' = [wait EXCEPT ![w] = r] /\ UNCHANGED <<linked, dial, probe, proposals>>
  BY DEF Connection!WaitBreaks
<1>2. moves' \in 0..MaxMoves
  BY DEF Connection!WaitBreaks, LinkedInv, Connection!TypeOK, Connection!ConnectionAssumption
<1>3. /\ wait[w] \in WaitRecord /\ wait[w].at = "waiting"
      /\ IsAnsweredOnce(wait[w]) /\ IsExcusable(wait[w])
  BY WaitFields DEF LinkedInv, Connection!WaitBreaks, IsAnsweredOnce
<1>4. /\ r \in WaitRecord
      /\ r.at = "done" /\ r.result = "failed" /\ r.answers = wait[w].answers + 1
      /\ r.inbox = {} /\ ~r.timer /\ ~r.listening
  BY <1>3, AnsweredFields
<1>. HIDE DEF r
<1>5. IsAnsweredOnce(r) /\ IsExcusable(r)
  BY <1>3, <1>4 DEF IsAnsweredOnce, IsExcusable
<1>. QED
  BY <1>1, <1>2, <1>4, <1>5, WaitMoves

LEMMA WaitTimesOutKeeps ==
  ASSUME LinkedInv, NEW w \in Waits, Connection!WaitTimesOut(w)
  PROVE  LinkedInv'
<1>. DEFINE a == Connection!Answered(Connection!Cleared(wait[w]), "checking", "none")
            r == [a EXCEPT !.excused = TRUE]
<1>1. /\ wait' = [wait EXCEPT ![w] = r] /\ moves' = moves
      /\ UNCHANGED <<linked, dial, probe, proposals>>
  BY DEF Connection!WaitTimesOut, Connection!Becomes
<1>2. /\ wait[w] \in WaitRecord /\ wait[w].at = "waiting"
      /\ IsAnsweredOnce(wait[w]) /\ IsExcusable(wait[w])
  BY WaitFields DEF LinkedInv, Connection!WaitTimesOut, IsAnsweredOnce
<1>3. /\ a \in WaitRecord
      /\ a.at = "checking" /\ a.result = "none" /\ a.answers = wait[w].answers + 1
      /\ a.inbox = {} /\ ~a.timer /\ ~a.listening
  BY <1>2, AnsweredFields
<1>. HIDE DEF a
<1>4. /\ r \in WaitRecord
      /\ r.at = "checking" /\ r.result = "none" /\ r.answers = wait[w].answers + 1
      /\ r.inbox = {} /\ ~r.timer /\ ~r.listening /\ r.excused
  BY <1>3 DEF WaitRecord
<1>. HIDE DEF r
<1>5. IsAnsweredOnce(r) /\ IsExcusable(r)
  BY <1>2, <1>4 DEF IsAnsweredOnce, IsExcusable
<1>. QED
  BY <1>1, <1>4, <1>5, WaitMoves DEF LinkedInv, Connection!TypeOK

LEMMA WaitCheckKeeps ==
  ASSUME LinkedInv, NEW w \in Waits, Connection!WaitCheck(w)
  PROVE  LinkedInv'
<1>. PICK result \in {"ok", "missing"} :
       result = IF Peer \in linked THEN "ok" ELSE "missing"
  OBVIOUS
<1>. DEFINE r == [wait[w] EXCEPT !.at = "done", !.result = result]
<1>1. /\ wait' = [wait EXCEPT ![w] = r] /\ moves' = moves
      /\ UNCHANGED <<linked, dial, probe, proposals>>
  BY DEF Connection!WaitCheck, Connection!Becomes
<1>2. /\ wait[w] \in WaitRecord /\ wait[w].at = "checking"
      /\ IsAnsweredOnce(wait[w]) /\ IsExcusable(wait[w])
  BY WaitFields DEF LinkedInv, Connection!WaitCheck
<1>3. /\ r \in WaitRecord
      /\ r.at = "done" /\ r.result = result
      /\ r.inbox = wait[w].inbox /\ r.answers = wait[w].answers
      /\ (r.timer <=> wait[w].timer) /\ (r.listening <=> wait[w].listening)
      /\ (r.excused <=> wait[w].excused)
  BY <1>2 DEF WaitRecord
<1>. HIDE DEF r
<1>4. IsAnsweredOnce(r) /\ IsExcusable(r)
  BY <1>2, <1>3 DEF IsAnsweredOnce, IsExcusable
<1>. QED
  BY <1>1, <1>3, <1>4, WaitMoves DEF LinkedInv, Connection!TypeOK

LEMMA WaitCallFailsKeeps ==
  ASSUME LinkedInv, NEW w \in Waits, Connection!WaitCallFails(w)
  PROVE  LinkedInv'
<1>. DEFINE r == [wait[w] EXCEPT !.at = "done", !.result = "failed"]
<1>1. UNCHANGED <<linked, dial, probe, proposals>>
  BY DEF Connection!WaitCallFails
<1>2. wait' = [wait EXCEPT ![w] = r]
  BY DEF Connection!WaitCallFails, LinkedInv, Connection!TypeOK
<1>3. moves' \in 0..MaxMoves
  BY DEF Connection!WaitCallFails, LinkedInv, Connection!TypeOK, Connection!ConnectionAssumption
<1>4. /\ wait[w] \in WaitRecord /\ wait[w].at \in {"listing", "checking"}
      /\ IsAnsweredOnce(wait[w]) /\ IsExcusable(wait[w])
  BY WaitFields DEF LinkedInv, Connection!WaitCallFails
<1>5. /\ r \in WaitRecord
      /\ r.at = "done" /\ r.result = "failed"
      /\ r.inbox = wait[w].inbox /\ r.answers = wait[w].answers
      /\ (r.timer <=> wait[w].timer) /\ (r.listening <=> wait[w].listening)
  BY <1>4 DEF WaitRecord
<1>. HIDE DEF r
<1>6. IsAnsweredOnce(r) /\ IsExcusable(r)
  BY <1>4, <1>5 DEF IsAnsweredOnce, IsExcusable
<1>. QED
  BY <1>1, <1>2, <1>3, <1>5, <1>6, WaitMoves

\* A connection is made: every stream of peer events tells of it
LEMMA ConnectedKeeps ==
  ASSUME LinkedInv, NEW p \in Peers, Connection!Connected(p),
         UNCHANGED <<probe, proposals>>, moves' \in 0..MaxMoves,
         dial' \in [Dials -> DialRecord], \A d \in Dials : HasSocket(dial'[d])
  PROVE  LinkedInv'
<1>1. linked' = linked \cup {p}
  BY DEF Connection!Connected
<1>2. ASSUME NEW w \in Waits
      PROVE  wait'[w] \in WaitRecord /\ IsAnsweredOnce(wait'[w]) /\ IsExcusable(wait[w])'
  <2>1. /\ wait[w] \in WaitRecord /\ IsAnsweredOnce(wait[w]) /\ IsExcusable(wait[w])
    BY WaitFields DEF LinkedInv
  <2>2. CASE ~wait[w].listening
    <3>1. wait'[w] = wait[w]
      BY <2>2 DEF Connection!Connected
    <3>. QED
      BY <1>1, <2>1, <3>1 DEF IsExcusable
  <2>3. CASE wait[w].listening
    <3>. DEFINE r == [wait[w] EXCEPT !.inbox = wait[w].inbox \cup {p}]
    <3>1. wait'[w] = r
      BY <2>3 DEF Connection!Connected
    <3>2. /\ r \in WaitRecord
          /\ r.at = wait[w].at /\ r.result = wait[w].result
          /\ r.inbox = wait[w].inbox \cup {p} /\ r.answers = wait[w].answers
          /\ (r.timer <=> wait[w].timer) /\ (r.listening <=> wait[w].listening)
          /\ (r.excused <=> wait[w].excused) /\ (r.seen <=> wait[w].seen)
      BY <2>1 DEF WaitRecord
    <3>. HIDE DEF r
    <3>3. IsAnsweredOnce(r)
      BY <2>1, <2>3, <3>2 DEF IsAnsweredOnce
    <3>4. IsExcusable(wait[w])'
      BY <1>1, <2>1, <3>1, <3>2 DEF IsExcusable
    <3>. QED
      BY <3>1, <3>2, <3>3, <3>4
  <2>. QED
    BY <2>2, <2>3
<1>3. Connection!TypeOK'
  <2>1. wait' \in [Waits -> WaitRecord]
    <3>1. wait' = [w \in Waits |-> wait'[w]]
      BY DEF Connection!Connected
    <3>. QED
      BY <1>2, <3>1
  <2>2. linked' \subseteq Peers
    BY <1>1 DEF LinkedInv, Connection!TypeOK
  <2>. QED
    BY <2>1, <2>2 DEF LinkedInv, Connection!TypeOK, WaitRecord, DialRecord
<1>4. Connection!ProbesLeaveNothing'
  BY DEF LinkedInv, Connection!ProbesLeaveNothing
<1>. QED
  BY <1>2, <1>3, <1>4 DEF LinkedInv, IsAnsweredOnce

LEMMA LinkUpKeeps ==
  ASSUME LinkedInv, NEW p \in Peers, Connection!LinkUp(p)
  PROVE  LinkedInv'
<1>1. moves' \in 0..MaxMoves
  BY DEF Connection!LinkUp, LinkedInv, Connection!TypeOK, Connection!ConnectionAssumption
<1>. QED
  BY <1>1, ConnectedKeeps DEF Connection!LinkUp, LinkedInv, Connection!TypeOK, DialRecord

\* A wait during which its peer goes away is excused
LEMMA LinkDownKeeps ==
  ASSUME LinkedInv, NEW p \in Peers, Connection!LinkDown(p)
  PROVE  LinkedInv'
<1>1. moves' \in 0..MaxMoves
  BY DEF Connection!LinkDown, LinkedInv, Connection!TypeOK, Connection!ConnectionAssumption
<1>2. linked' = linked \ {p} /\ UNCHANGED <<dial, probe, proposals>>
  BY DEF Connection!LinkDown
<1>3. ASSUME NEW w \in Waits
      PROVE  wait'[w] \in WaitRecord /\ IsAnsweredOnce(wait'[w]) /\ IsExcusable(wait[w])'
  <2>1. /\ wait[w] \in WaitRecord /\ IsAnsweredOnce(wait[w]) /\ IsExcusable(wait[w])
    BY WaitFields DEF LinkedInv
  <2>. PICK excused \in BOOLEAN :
         excused = (wait[w].excused \/ (Connection!Running(w) /\ p = Peer))
    <3>1. (wait[w].excused \/ (Connection!Running(w) /\ p = Peer)) \in BOOLEAN
      OBVIOUS
    <3>. QED
      BY <3>1, Zenon
  <2>. DEFINE r == [wait[w] EXCEPT !.excused = excused]
  <2>2. wait'[w] = r
    BY DEF Connection!LinkDown
  <2>3. /\ r \in WaitRecord
        /\ r.at = wait[w].at /\ r.result = wait[w].result
        /\ r.inbox = wait[w].inbox /\ r.answers = wait[w].answers
        /\ (r.timer <=> wait[w].timer) /\ (r.listening <=> wait[w].listening)
        /\ (r.excused <=> excused) /\ (r.seen <=> wait[w].seen)
    BY <2>1 DEF WaitRecord
  <2>. HIDE DEF r
  <2>4. IsAnsweredOnce(r)
    BY <2>1, <2>3 DEF IsAnsweredOnce
  <2>5. IsExcusable(wait[w])'
    <3>1. CASE excused
      BY <2>2, <2>3, <3>1 DEF IsExcusable
    <3>2. CASE ~excused
      <4>1. ~wait[w].excused /\ (p # Peer \/ wait[w].at \in {"idle", "done"})
        BY <3>2 DEF Connection!Running
      <4>2. p # Peer => (Peer \notin linked' <=> Peer \notin linked)
        BY <1>2
      <4>3. wait[w].at \in {"idle", "done"} => wait[w].inbox = {}
        BY <2>1 DEF IsAnsweredOnce
      <4>. QED
        BY <2>1, <2>2, <2>3, <4>1, <4>2, <4>3 DEF IsExcusable
    <3>. QED
      BY <3>1, <3>2
  <2>. QED
    BY <2>2, <2>3, <2>4, <2>5
<1>4. Connection!TypeOK'
  <2>1. wait' \in [Waits -> WaitRecord]
    <3>1. wait' = [w \in Waits |-> wait'[w]]
      BY DEF Connection!LinkDown
    <3>. QED
      BY <1>3, <3>1
  <2>2. linked' \subseteq Peers
    BY <1>2 DEF LinkedInv, Connection!TypeOK
  <2>. QED
    BY <1>1, <1>2, <2>1, <2>2 DEF LinkedInv, Connection!TypeOK, WaitRecord
<1>5. Connection!ProbesLeaveNothing'
  BY <1>2 DEF LinkedInv, Connection!ProbesLeaveNothing
<1>6. \A d \in Dials : HasSocket(dial'[d])
  BY <1>2 DEF LinkedInv
<1>. QED
  BY <1>3, <1>4, <1>5, <1>6 DEF LinkedInv

\* One dial of connectPeer moves
LEMMA DialMoves ==
  ASSUME LinkedInv, NEW d \in Dials,
         \/ Connection!DialStart(d) \/ Connection!DialList(d)
         \/ Connection!DialSockets(d) \/ Connection!DialWorks(d)
         \/ Connection!DialFails(d) \/ Connection!DialCallFails(d)
  PROVE  /\ dial' \in [Dials -> DialRecord]
         /\ \A e \in Dials : HasSocket(dial'[e])
         /\ UNCHANGED <<moves, probe, proposals>>
<1>. DEFINE old == dial[d]
<1>1. /\ dial \in [Dials -> DialRecord] /\ old \in DialRecord
      /\ \A e \in Dials : HasSocket(dial[e])
  BY DEF LinkedInv, Connection!TypeOK, DialRecord
<1>2. MaxSockets \in Nat /\ 0 \in 0..MaxSockets
  BY DEF Connection!ConnectionAssumption
<1>3. Connection!Dialing \in DialRecord
  BY <1>2 DEF Connection!Dialing, DialRecord
<1>. SUFFICES ASSUME NEW r \in DialRecord, HasSocket(r), Connection!DialBecomes(d, r)
              PROVE  /\ dial' \in [Dials -> DialRecord]
                     /\ \A e \in Dials : HasSocket(dial'[e])
                     /\ UNCHANGED <<moves, probe, proposals>>
  <2>1. CASE Connection!DialStart(d)
    <3>. DEFINE r == [Connection!Dialing EXCEPT !.at = "listing"]
    <3>1. r \in DialRecord /\ HasSocket(r)
      BY <1>3 DEF DialRecord, HasSocket
    <3>. QED
      BY <2>1, <3>1 DEF Connection!DialStart
  <2>2. CASE Connection!DialList(d)
    <3>. DEFINE r == [old EXCEPT !.at = "done", !.result = "ok"]
                s == [old EXCEPT !.at = "sockets"]
    <3>1. r \in DialRecord /\ HasSocket(r) /\ s \in DialRecord /\ HasSocket(s)
      BY <1>1 DEF DialRecord, HasSocket
    <3>. QED
      BY <2>2, <3>1 DEF Connection!DialList
  <2>3. CASE Connection!DialSockets(d)
    <3>. PICK n \in 0..MaxSockets :
           Connection!DialBecomes(d, IF n = 0
             THEN [old EXCEPT !.at = "done", !.result = "unknown"]
             ELSE [old EXCEPT !.at = "dialing", !.left = n])
      BY <2>3 DEF Connection!DialSockets
    <3>. DEFINE r == [old EXCEPT !.at = "done", !.result = "unknown"]
                s == [old EXCEPT !.at = "dialing", !.left = n]
    <3>1. r \in DialRecord /\ HasSocket(r)
      BY <1>1 DEF DialRecord, HasSocket
    <3>2. s \in DialRecord /\ (n # 0 => HasSocket(s))
      BY <1>1 DEF DialRecord, HasSocket
    <3>. QED
      BY <3>1, <3>2
  <2>4. CASE Connection!DialWorks(d)
    <3>. DEFINE r == [old EXCEPT !.at = "done", !.result = "ok"]
    <3>1. r \in DialRecord /\ HasSocket(r)
      BY <1>1 DEF DialRecord, HasSocket
    <3>. QED
      BY <2>4, <3>1 DEF Connection!DialWorks
  <2>5. CASE Connection!DialFails(d)
    <3>1. old.left \in 1..MaxSockets
      BY <1>1, <1>2, <2>5 DEF Connection!DialFails, DialRecord, HasSocket
    <3>2. CASE old.left = 1
      <4>. DEFINE r == [old EXCEPT !.at = "done", !.left = 0, !.result = "failed"]
      <4>1. r \in DialRecord /\ HasSocket(r)
        BY <1>1, <1>2 DEF DialRecord, HasSocket
      <4>. QED
        BY <2>5, <3>2, <4>1 DEF Connection!DialFails
    <3>3. CASE old.left # 1
      <4>. PICK n \in 1..MaxSockets : n = old.left - 1
        BY <1>2, <3>1, <3>3
      <4>. DEFINE r == [old EXCEPT !.left = n]
      <4>1. r \in DialRecord /\ HasSocket(r)
        BY <1>1, <1>2 DEF DialRecord, HasSocket
      <4>. QED
        BY <2>5, <3>3, <4>1 DEF Connection!DialFails
    <3>. QED
      BY <3>2, <3>3
  <2>6. CASE Connection!DialCallFails(d)
    <3>. DEFINE r == [old EXCEPT !.at = "done", !.result = "failed"]
    <3>1. r \in DialRecord /\ HasSocket(r)
      BY <1>1 DEF DialRecord, HasSocket
    <3>. QED
      BY <2>6, <3>1 DEF Connection!DialCallFails
  <2>. QED
    BY <2>1, <2>2, <2>3, <2>4, <2>5, <2>6
<1>. QED
  BY <1>1 DEF Connection!DialBecomes

LEMMA DialKeeps ==
  ASSUME LinkedInv, NEW d \in Dials,
         \/ Connection!DialStart(d) \/ Connection!DialList(d)
         \/ Connection!DialSockets(d) \/ Connection!DialWorks(d)
         \/ Connection!DialFails(d) \/ Connection!DialCallFails(d)
  PROVE  LinkedInv'
<1>1. /\ dial' \in [Dials -> DialRecord] /\ \A e \in Dials : HasSocket(dial'[e])
      /\ UNCHANGED <<moves, probe, proposals>>
  BY DialMoves
<1>2. CASE Connection!DialWorks(d)
  BY <1>1, <1>2, ConnectedKeeps
     DEF Connection!DialWorks, LinkedInv, Connection!TypeOK, Connection!ConnectionAssumption
<1>3. CASE UNCHANGED <<linked, wait>>
  <2>1. Connection!TypeOK'
    BY <1>1, <1>3 DEF LinkedInv, Connection!TypeOK, DialRecord
  <2>2. \A w \in Waits : IsAnsweredOnce(wait[w])' /\ IsExcusable(wait[w])'
    BY <1>3 DEF LinkedInv, IsAnsweredOnce, IsExcusable
  <2>3. Connection!ProbesLeaveNothing'
    BY <1>1 DEF LinkedInv, Connection!ProbesLeaveNothing
  <2>. QED
    BY <1>1, <2>1, <2>2, <2>3 DEF LinkedInv, HasSocket
<1>. QED
  BY <1>2, <1>3 DEF Connection!DialStart, Connection!DialList, Connection!DialSockets,
     Connection!DialFails, Connection!DialCallFails

\* A probe of acceptsChannelOpen proposes, and cancels what it proposed
LEMMA ProbeKeeps ==
  ASSUME LinkedInv, NEW b \in Probes, Connection!Propose(b) \/ Connection!Cancel(b)
  PROVE  LinkedInv'
<1>1. UNCHANGED <<linked, moves, wait, dial>>
  BY DEF Connection!Propose, Connection!Cancel
<1>2. /\ probe \in [Probes -> {"idle", "proposed", "refused", "accepted", "failed"}]
      /\ proposals \subseteq Probes
      /\ \A c \in Probes : c \in proposals <=> probe[c] \in {"proposed", "failed"}
  BY DEF LinkedInv, Connection!TypeOK, Connection!ProbesLeaveNothing
<1>3. /\ probe' \in [Probes -> {"idle", "proposed", "refused", "accepted", "failed"}]
      /\ proposals' \subseteq Probes
  BY <1>2 DEF Connection!Propose, Connection!Cancel
<1>4. \A c \in Probes : c \in proposals' <=> probe'[c] \in {"proposed", "failed"}
  <2>1. CASE Connection!Propose(b)
    BY <1>2, <2>1 DEF Connection!Propose
  <2>2. CASE Connection!Cancel(b)
    BY <1>2, <2>2 DEF Connection!Cancel
  <2>. QED
    BY <2>1, <2>2
<1>5. Connection!ProbesLeaveNothing'
  BY <1>3, <1>4 DEF Connection!ProbesLeaveNothing
<1>6. Connection!TypeOK'
  BY <1>1, <1>3 DEF LinkedInv, Connection!TypeOK
<1>7. \A w \in Waits : IsAnsweredOnce(wait[w])' /\ IsExcusable(wait[w])'
  BY <1>1 DEF LinkedInv, IsAnsweredOnce, IsExcusable
<1>. QED
  BY <1>1, <1>5, <1>6, <1>7 DEF LinkedInv, HasSocket

\* No wait, dial or probe is under way at first
LEMMA ConnectionBegins ==
  ASSUME linked \in SUBSET Peers, Connection!NotCalled
  PROVE  LinkedInv
<1>1. MaxMoves \in Nat /\ MaxSockets \in Nat
  BY DEF Connection!ConnectionAssumption
<1>2. Connection!Waiting \in WaitRecord /\ Connection!Dialing \in DialRecord
  BY <1>1 DEF Connection!Waiting, Connection!Dialing, WaitRecord, DialRecord
<1>3. Connection!TypeOK
  BY <1>1, <1>2 DEF Connection!NotCalled, Connection!TypeOK, WaitRecord, DialRecord
<1>4. \A w \in Waits : IsAnsweredOnce(wait[w]) /\ IsExcusable(wait[w])
  BY DEF Connection!NotCalled, Connection!Waiting, IsAnsweredOnce, IsExcusable
<1>5. \A d \in Dials : HasSocket(dial[d])
  BY DEF Connection!NotCalled, Connection!Dialing, HasSocket
<1>6. Connection!ProbesLeaveNothing
  BY DEF Connection!NotCalled, Connection!ProbesLeaveNothing
<1>. QED
  BY <1>3, <1>4, <1>5, <1>6 DEF LinkedInv

LEMMA ConnectionKeeps ==
  ASSUME LinkedInv, Connection!Next \/ UNCHANGED connection
  PROVE  LinkedInv'
<1>1. CASE UNCHANGED connection
  <2>1. UNCHANGED <<linked, moves, wait, dial, probe, proposals>>
    BY <1>1 DEF connection
  <2>. QED
    BY <2>1 DEF LinkedInv, Connection!TypeOK, IsAnsweredOnce, IsExcusable, HasSocket,
       Connection!ProbesLeaveNothing
<1>2. ASSUME NEW p \in Peers, Connection!LinkUp(p) \/ Connection!LinkDown(p)
      PROVE  LinkedInv'
  BY <1>2, LinkUpKeeps, LinkDownKeeps
<1>3. ASSUME NEW w \in Waits,
             \/ Connection!WaitStart(w) \/ Connection!WaitStep(w)
             \/ Connection!WaitBreaks(w) \/ Connection!WaitCallFails(w)
      PROVE  LinkedInv'
  BY <1>3, WaitStartKeeps, WaitListKeeps, WaitSubscribeKeeps, WaitConnectedKeeps,
     WaitTimesOutKeeps, WaitCheckKeeps, WaitBreaksKeeps, WaitCallFailsKeeps
     DEF Connection!WaitStep
<1>4. ASSUME NEW d \in Dials,
             Connection!DialStart(d) \/ Connection!DialStep(d) \/ Connection!DialCallFails(d)
      PROVE  LinkedInv'
  BY <1>4, DialKeeps DEF Connection!DialStep
<1>5. ASSUME NEW b \in Probes, Connection!Propose(b) \/ Connection!Cancel(b)
      PROVE  LinkedInv'
  BY <1>5, ProbeKeeps
<1>. QED
  BY <1>1, <1>2, <1>3, <1>4, <1>5 DEF Connection!Next

\* The inductive invariant implies the one that is checked
LEMMA ConnectionFollows ==
  ASSUME LinkedInv
  PROVE  ConnectionInv
<1>1. Connection!OneOfThreeAnswers
  <2>1. \A w \in Waits : wait[w].timer \in BOOLEAN /\ wait[w].listening \in BOOLEAN
    BY WaitFields DEF LinkedInv
  <2>. QED
    BY <2>1 DEF LinkedInv, IsAnsweredOnce, Connection!OneOfThreeAnswers
<1>2. Connection!MissingOnlyWithReason
  BY DEF LinkedInv, IsExcusable, Connection!MissingOnlyWithReason
<1>. QED
  BY <1>1, <1>2 DEF LinkedInv, ConnectionInv, Connection!ConnectionInv

-----------------------------------------------------------------------------
(* FeeUpdate *)

\* What an update knows, whatever the policies are
IsUpdate(r) ==
  r \in [at : {"idle", "pending", "listing", "reading", "writing", "checking", "done"},
         change : {r.change}, read : {r.read}, before : {r.before},
         alone : BOOLEAN, result : {r.result}]

LEMMA IdleFields ==
  /\ IsUpdate(Fees!Idle) /\ Fees!Idle.at = "idle" /\ Fees!Idle.result = "none"
  BY DEF Fees!Idle, IsUpdate

\* Up to its write an update that runs alone sees the policy it began with, and
\* after it that policy or what LND has made of the one it has written
KnowsThePolicy(r) ==
  (r.alone /\ r.at \notin {"idle", "done"}) =>
    /\ r.at # "checking" => r.before = policy
    /\ r.at = "writing" => r.read = policy
    /\ r.at = "checking" =>
         policy = r.before \/ policy \in Fees!Applied(Fees!Merged(r.change, r.before))

\* The fee rate is always asked for
NamesTheRate(r) == r.at \in {"idle", "done"} \/ FeeRate \in DOMAIN r.change

\* A policy that was read is there, and what runs alone has no company
FeeInv ==
  /\ policy # Fees!NoPolicy => Fields # {}
  /\ update = [u \in Updates |-> update[u]]
  /\ \A u \in Updates :
       /\ IsUpdate(update[u])
       /\ KnowsThePolicy(update[u])
       /\ NamesTheRate(update[u])
       /\ update[u].at \in {"writing", "checking"} => policy # Fees!NoPolicy
  /\ \A u, v \in Updates :
       (Fees!Running(u) /\ update[u].alone /\ u # v) => ~Fees!Running(v)

\* One update moves and the policy stays
LEMMA UpdateMoves ==
  ASSUME FeeInv, NEW u \in Updates, NEW r, IsUpdate(r),
         update' = [update EXCEPT ![u] = r], UNCHANGED policy,
         KnowsThePolicy(r), NamesTheRate(r),
         r.at \in {"writing", "checking"} => policy # Fees!NoPolicy,
         r.at \in {"idle", "done"} \/ (Fees!Running(u) /\ (r.alone <=> update[u].alone))
  PROVE  FeeInv'
<1>1. /\ update' = [v \in Updates |-> update'[v]]
      /\ \A v \in Updates : update'[v] = IF v = u THEN r ELSE update[v]
  BY DEF FeeInv
<1>2. \A v \in Updates : IsUpdate(update[v])'
  BY <1>1 DEF FeeInv, IsUpdate
<1>3. \A v \in Updates : KnowsThePolicy(update[v])'
  BY <1>1 DEF FeeInv, KnowsThePolicy
<1>4. \A v \in Updates : update'[v].at \in {"writing", "checking"} => policy' # Fees!NoPolicy
  BY <1>1 DEF FeeInv
<1>5. \A v, w \in Updates :
        (Fees!Running(v) /\ update[v].alone /\ v # w)' => ~Fees!Running(w)'
  BY <1>1 DEF FeeInv, Fees!Running
<1>6. \A v \in Updates : NamesTheRate(update[v])'
  BY <1>1 DEF FeeInv, NamesTheRate
<1>. QED
  BY <1>1, <1>2, <1>3, <1>4, <1>5, <1>6 DEF FeeInv

\* An update ends and forgets what it knew
LEMMA UpdateEnds ==
  ASSUME FeeInv, NEW u \in Updates, NEW result, Fees!Ends(u, result)
  PROVE  FeeInv'
<1>. DEFINE r == [Fees!Idle EXCEPT !.at = "done", !.result = result]
<1>1. update' = [update EXCEPT ![u] = r] /\ UNCHANGED policy
  BY DEF Fees!Ends, Fees!Becomes
<1>2. r.at = "done" /\ IsUpdate(r)
  BY IdleFields DEF IsUpdate
<1>. HIDE DEF r
<1>3. KnowsThePolicy(r) /\ NamesTheRate(r)
  BY <1>2 DEF KnowsThePolicy, NamesTheRate
<1>. QED
  BY <1>1, <1>2, <1>3, UpdateMoves

\* The reading steps of an update
LEMMA UpdateReads ==
  ASSUME FeeInv, NEW u \in Updates,
         Fees!CheckPending(u) \/ Fees!GetChannelId(u) \/ Fees!ReadPolicy(u)
  PROVE  FeeInv'
<1>1. /\ IsUpdate(update[u]) /\ KnowsThePolicy(update[u]) /\ NamesTheRate(update[u])
      /\ update[u].at \in {"pending", "listing", "reading"}
      /\ Fees!Running(u)
  BY DEF FeeInv, Fees!CheckPending, Fees!GetChannelId, Fees!ReadPolicy, Fees!Running
<1>2. CASE \E at \in {"listing", "reading"} : Fees!Becomes(u, [update[u] EXCEPT !.at = at])
  <2>. PICK at \in {"listing", "reading"} : Fees!Becomes(u, [update[u] EXCEPT !.at = at])
    BY <1>2
  <2>. DEFINE r == [update[u] EXCEPT !.at = at]
  <2>1. update' = [update EXCEPT ![u] = r] /\ UNCHANGED policy
    BY DEF Fees!Becomes
  <2>2. /\ r.at = at /\ IsUpdate(r) /\ (r.alone <=> update[u].alone)
        /\ r.before = update[u].before /\ r.change = update[u].change
    BY <1>1 DEF IsUpdate
  <2>3. KnowsThePolicy(r) /\ NamesTheRate(r)
    BY <1>1, <2>2 DEF KnowsThePolicy, NamesTheRate
  <2>. HIDE DEF r
  <2>. QED
    BY <1>1, <2>1, <2>2, <2>3, UpdateMoves
<1>3. CASE /\ policy # Fees!NoPolicy
           /\ Fees!Becomes(u, [update[u] EXCEPT !.at = "writing", !.read = policy])
  <2>. DEFINE r == [update[u] EXCEPT !.at = "writing", !.read = policy]
  <2>1. update' = [update EXCEPT ![u] = r] /\ UNCHANGED policy
    BY <1>3 DEF Fees!Becomes
  <2>2. r = [update[u] EXCEPT !.at = "writing", !.read = policy]
    OBVIOUS
  <2>. HIDE DEF r
  <2>3. /\ r.at = "writing" /\ IsUpdate(r) /\ (r.alone <=> update[u].alone)
        /\ r.before = update[u].before /\ r.read = policy /\ r.change = update[u].change
    BY <1>1, <2>2 DEF IsUpdate
  <2>4. KnowsThePolicy(r) /\ NamesTheRate(r)
    BY <1>1, <2>3 DEF KnowsThePolicy, NamesTheRate
  <2>. QED
    BY <1>1, <1>3, <2>1, <2>3, <2>4, UpdateMoves
<1>. QED
  BY <1>2, <1>3, UpdateEnds DEF Fees!CheckPending, Fees!GetChannelId, Fees!ReadPolicy

\* The write: what runs beside it does not run alone
LEMMA UpdateWrites ==
  ASSUME FeeInv, NEW u \in Updates, Fees!UpdateFeeRate(u)
  PROVE  FeeInv'
<1>. DEFINE r == [update[u] EXCEPT !.at = "checking", !.read = Fees!NoPolicy]
<1>1. /\ update[u].at = "writing" /\ Fees!Running(u)
      /\ IsUpdate(update[u]) /\ KnowsThePolicy(update[u])
      /\ policy # Fees!NoPolicy
  BY DEF FeeInv, Fees!UpdateFeeRate, Fees!Running
<1>2. /\ update' = [v \in Updates |-> update'[v]]
      /\ \A v \in Updates : update'[v] = IF v = u THEN r ELSE update[v]
  BY DEF FeeInv, Fees!UpdateFeeRate
<1>3. /\ r.at = "checking" /\ IsUpdate(r) /\ (r.alone <=> update[u].alone)
      /\ r.before = update[u].before /\ r.change = update[u].change
  BY <1>1 DEF IsUpdate
<1>. HIDE DEF r
<1>4. policy' = policy \/ policy' \in Fees!Applied(Fees!Merged(update[u].change, update[u].read))
  BY DEF Fees!UpdateFeeRate
<1>5. policy' # Fees!NoPolicy
  <2>1. CASE policy' = policy
    BY <1>1, <2>1
  <2>2. CASE policy' \in Fees!Applied(Fees!Merged(update[u].change, update[u].read))
    <3>1. Fields # {}
      BY <1>1 DEF FeeInv
    <3>2. DOMAIN policy' = Fields
      BY <2>2 DEF Fees!Applied, Fees!Policies, Fees!Choices
    <3>. QED
      BY <3>1, <3>2 DEF Fees!NoPolicy
  <2>. QED
    BY <1>4, <2>1, <2>2
<1>6. KnowsThePolicy(update[u])'
  BY <1>1, <1>2, <1>3, <1>4 DEF KnowsThePolicy
<1>7. \A v \in Updates \ {u} : KnowsThePolicy(update[v])'
  <2>. SUFFICES ASSUME NEW v \in Updates \ {u}
                PROVE  KnowsThePolicy(update[v])'
    OBVIOUS
  <2>1. update'[v] = update[v]
    BY <1>2
  <2>2. ~update[v].alone \/ update[v].at \in {"idle", "done"}
    BY <1>1 DEF FeeInv, Fees!Running
  <2>. QED
    BY <2>1, <2>2 DEF KnowsThePolicy
<1>8. \A v \in Updates : IsUpdate(update[v])'
  BY <1>2, <1>3 DEF FeeInv, IsUpdate
<1>9. \A v, w \in Updates :
        (Fees!Running(v) /\ update[v].alone /\ v # w)' => ~Fees!Running(w)'
  BY <1>1, <1>2, <1>3 DEF FeeInv, Fees!Running
<1>10. policy' # Fees!NoPolicy => Fields # {}
  BY <1>1 DEF FeeInv
<1>11. \A v \in Updates : NamesTheRate(update[v])'
  BY <1>1, <1>2, <1>3 DEF FeeInv, NamesTheRate
<1>. QED
  BY <1>2, <1>5, <1>6, <1>7, <1>8, <1>9, <1>10, <1>11 DEF FeeInv

\* Company takes the claim to be alone, and nothing but what goes with it
LEMMA CompanyFields ==
  ASSUME NEW r, IsUpdate(r)
  PROVE  /\ IsUpdate(Fees!InCompany(r)) /\ Fees!InCompany(r).alone = FALSE
         /\ Fees!InCompany(r).at = r.at /\ Fees!InCompany(r).change = r.change
         /\ Fees!InCompany(r).read = r.read /\ Fees!InCompany(r).result = r.result
  BY DEF IsUpdate, Fees!InCompany

\* An update begins: it runs alone if no other does, and those lose it
LEMMA UpdateStarts ==
  ASSUME FeeInv, NEW u \in Updates, Fees!Start(u)
  PROVE  FeeInv'
<1>. PICK change \in Fees!Changes :
       LET company == {v \in Updates \ {u} : Fees!Running(v)}
           begun == [Fees!Idle EXCEPT !.at = "pending", !.change = change,
                                      !.before = policy]
       IN  update' = [v \in Updates |->
             IF v = u THEN IF company = {} THEN begun ELSE Fees!InCompany(begun)
             ELSE IF v \in company THEN Fees!InCompany(update[v]) ELSE update[v]]
  BY DEF Fees!Start
<1>. DEFINE company == {v \in Updates \ {u} : Fees!Running(v)}
            begun == [Fees!Idle EXCEPT !.at = "pending", !.change = change,
                                       !.before = policy]
            r == IF company = {} THEN begun ELSE Fees!InCompany(begun)
<1>1. UNCHANGED policy
  BY DEF Fees!Start
<1>3. update' = [v \in Updates |-> update'[v]] /\ update'[u] = r
  OBVIOUS
<1>12. /\ begun.at = "pending" /\ begun.before = policy /\ IsUpdate(begun)
       /\ begun.change = change
  BY IdleFields DEF IsUpdate
<1>13. \A v \in Updates \ {u} :
         update'[v] = IF Fees!Running(v) THEN Fees!InCompany(update[v]) ELSE update[v]
  OBVIOUS
<1>14. company = {} <=> \A v \in Updates \ {u} : ~Fees!Running(v)
  OBVIOUS
<1>. HIDE DEF begun, company
<1>4. /\ r.at = "pending" /\ IsUpdate(r) /\ r.change = change
      /\ r.alone => (company = {} /\ r.before = policy)
  BY <1>12, CompanyFields
<1>. HIDE DEF r
<1>5. ASSUME NEW v \in Updates \ {u}
      PROVE  /\ IsUpdate(update'[v])
             /\ update'[v].at = update[v].at /\ update'[v].change = update[v].change
             /\ update'[v].alone => (update'[v] = update[v] /\ ~Fees!Running(v))
  BY <1>13, CompanyFields DEF FeeInv
<1>6. \A v \in Updates : IsUpdate(update[v])'
  BY <1>3, <1>4, <1>5
<1>7. \A v \in Updates : KnowsThePolicy(update[v])'
  <2>1. KnowsThePolicy(update[u])'
    BY <1>1, <1>3, <1>4 DEF KnowsThePolicy
  <2>2. ASSUME NEW v \in Updates \ {u}
        PROVE  KnowsThePolicy(update[v])'
    BY <1>5 DEF KnowsThePolicy, Fees!Running
  <2>. QED
    BY <2>1, <2>2
<1>8. \A v \in Updates : update'[v].at \in {"writing", "checking"} => policy' # Fees!NoPolicy
  BY <1>1, <1>3, <1>4, <1>5 DEF FeeInv
<1>9. \A v, w \in Updates :
        (Fees!Running(v) /\ update[v].alone /\ v # w)' => ~Fees!Running(w)'
  <2>. SUFFICES ASSUME NEW v \in Updates, NEW w \in Updates, v # w,
                       Fees!Running(v)', update'[v].alone
                PROVE  ~Fees!Running(w)'
    OBVIOUS
  <2>1. CASE v = u
    <3>1. company = {}
      BY <1>3, <1>4, <2>1
    <3>2. ~Fees!Running(w)
      BY <1>14, <2>1, <3>1
    <3>. QED
      BY <1>5, <2>1, <3>2 DEF Fees!Running
  <2>2. CASE v # u
    BY <1>5, <2>2 DEF Fees!Running
  <2>. QED
    BY <2>1, <2>2
<1>10. policy' # Fees!NoPolicy => Fields # {}
  BY <1>1 DEF FeeInv
<1>11. \A v \in Updates : NamesTheRate(update[v])'
  <2>1. FeeRate \in DOMAIN change
    BY DEF Fees!Changes, Fees!Choices
  <2>. QED
    BY <1>3, <1>4, <1>5, <2>1 DEF FeeInv, NamesTheRate
<1>. QED
  BY <1>3, <1>6, <1>7, <1>8, <1>9, <1>10, <1>11 DEF FeeInv

\* The channel's policy enters the graph: it is the one they all began with
LEMMA PolicyKnownKeeps ==
  ASSUME FeeInv, Fees!PolicyKnown
  PROVE  FeeInv'
<1>. PICK p \in Fees!Policies :
       /\ policy' = p
       /\ update' = [u \in Updates |->
            IF Fees!Running(u) /\ update[u].alone
            THEN [update[u] EXCEPT !.before = p]
            ELSE update[u]]
  BY DEF Fees!PolicyKnown
<1>1. update' = [u \in Updates |-> update'[u]]
  OBVIOUS
<1>2. ASSUME NEW u \in Updates
      PROVE  /\ IsUpdate(update'[u])
             /\ update'[u].at = update[u].at /\ (update'[u].alone <=> update[u].alone)
             /\ update'[u].change = update[u].change
             /\ (Fees!Running(u) /\ update[u].alone) => update'[u].before = p
             /\ update[u].at \notin {"writing", "checking"}
  <2>1. IsUpdate(update[u]) /\ update[u].at \notin {"writing", "checking"}
    BY DEF FeeInv, Fees!PolicyKnown
  <2>2. CASE Fees!Running(u) /\ update[u].alone
    <3>1. update'[u] = [update[u] EXCEPT !.before = p]
      BY <2>2
    <3>. QED
      BY <2>1, <3>1 DEF IsUpdate
  <2>3. CASE ~(Fees!Running(u) /\ update[u].alone)
    BY <2>1, <2>3
  <2>. QED
    BY <2>2, <2>3
<1>3. \A u \in Updates : KnowsThePolicy(update[u])'
  BY <1>2 DEF KnowsThePolicy, Fees!Running
<1>4. \A u, v \in Updates :
        (Fees!Running(u) /\ update[u].alone /\ u # v)' => ~Fees!Running(v)'
  BY <1>2 DEF FeeInv, Fees!Running
<1>5. policy' # Fees!NoPolicy => Fields # {}
  BY DEF Fees!Policies, Fees!Choices, Fees!NoPolicy
<1>6. \A u \in Updates : update'[u].at \in {"writing", "checking"} => policy' # Fees!NoPolicy
  BY <1>2
<1>7. \A u \in Updates : NamesTheRate(update[u])'
  BY <1>2 DEF FeeInv, NamesTheRate
<1>. QED
  BY <1>1, <1>2, <1>3, <1>4, <1>5, <1>6, <1>7 DEF FeeInv

LEMMA FeesBegin == Fees!Init => FeeInv
<1>. SUFFICES ASSUME Fees!Init
              PROVE  FeeInv
  OBVIOUS
<1>1. Fees!Idle.at = "idle" /\ IsUpdate(Fees!Idle)
  BY IdleFields
<1>2. policy = Fees!NoPolicy /\ update = [u \in Updates |-> Fees!Idle]
  BY DEF Fees!Init
<1>. QED
  BY <1>1, <1>2 DEF FeeInv, KnowsThePolicy, NamesTheRate, Fees!Running

LEMMA FeesKeep ==
  ASSUME FeeInv, Fees!Next \/ UNCHANGED fees
  PROVE  FeeInv'
<1>1. CASE UNCHANGED <<policy, update>>
  BY <1>1 DEF FeeInv, IsUpdate, KnowsThePolicy, NamesTheRate, Fees!Running
<1>2. CASE Fees!PolicyKnown
  BY <1>2, PolicyKnownKeeps
<1>3. ASSUME NEW u \in Updates, Fees!Start(u) \/ Fees!UpdateStep(u) \/ Fees!CallFails(u)
      PROVE  FeeInv'
  BY <1>3, UpdateStarts, UpdateReads, UpdateWrites, UpdateEnds
     DEF Fees!UpdateStep, Fees!CheckUpdated, Fees!CallFails
<1>. QED
  BY <1>1, <1>2, <1>3 DEF Fees!Next, Fees!Opens, Fees!Closes, fees

\* A success is answered by the comparison after the write, and by nothing else
LEMMA OnlyTheCheckSucceeds ==
  ASSUME FeeInv, Fees!Next \/ UNCHANGED fees, NEW u \in Updates,
         update[u].result = "none", update'[u].result = "ok"
  PROVE  Fees!CheckUpdated(u)
<1>1. \A v \in Updates : IsUpdate(update[v])
  BY DEF FeeInv
<1>2. CASE UNCHANGED update
  BY <1>2
<1>3. CASE Fees!PolicyKnown
  <2>. PICK p \in Fees!Policies :
         update' = [v \in Updates |->
            IF Fees!Running(v) /\ update[v].alone
            THEN [update[v] EXCEPT !.before = p]
            ELSE update[v]]
    BY <1>3 DEF Fees!PolicyKnown
  <2>. QED
    BY <1>1 DEF IsUpdate
<1>4. ASSUME NEW v \in Updates, Fees!Start(v)
      PROVE  FALSE
  <2>1. \/ update'[u] = update[u]
        \/ update'[u] = Fees!InCompany(update[u])
        \/ update'[u].result = "none"
    BY <1>4 DEF Fees!Start, Fees!Idle, Fees!InCompany
  <2>. QED
    BY <1>1, <2>1, CompanyFields
<1>5. ASSUME NEW v \in Updates,
             Fees!UpdateStep(v) \/ Fees!CallFails(v)
      PROVE  v = u /\ Fees!CheckUpdated(u)
  <2>1. CASE v # u
    BY <1>5, <2>1 DEF FeeInv, Fees!UpdateStep, Fees!CallFails, Fees!CheckPending,
       Fees!GetChannelId, Fees!ReadPolicy, Fees!UpdateFeeRate, Fees!CheckUpdated,
       Fees!Ends, Fees!Becomes
  <2>2. CASE v = u
    <3>1. ASSUME NEW result \in {"pending", "unknown", "failed"}, Fees!Ends(u, result)
          PROVE  FALSE
      BY <3>1, IdleFields DEF FeeInv, Fees!Ends, Fees!Becomes, IsUpdate
    <3>2. ASSUME NEW at, Fees!Becomes(u, [update[u] EXCEPT !.at = at])
          PROVE  FALSE
      BY <1>1, <3>2 DEF FeeInv, Fees!Becomes, IsUpdate
    <3>3. ASSUME Fees!Becomes(u, [update[u] EXCEPT !.at = "writing", !.read = policy])
          PROVE  FALSE
      BY <1>1, <3>3 DEF FeeInv, Fees!Becomes, IsUpdate
    <3>4. ASSUME Fees!UpdateFeeRate(u)
          PROVE  FALSE
      BY <1>1, <3>4 DEF FeeInv, Fees!UpdateFeeRate, IsUpdate
    <3>. QED
      BY <1>5, <2>2, <3>1, <3>2, <3>3, <3>4 DEF Fees!UpdateStep, Fees!CallFails,
         Fees!CheckPending, Fees!GetChannelId, Fees!ReadPolicy
  <2>. QED
    BY <2>1, <2>2
<1>. QED
  BY <1>2, <1>3, <1>4, <1>5 DEF Fees!Next, Fees!Opens, Fees!Closes, fees

-----------------------------------------------------------------------------
(* ChannelWatch *)

MonitorRecord ==
  [at : {"off", "polling", "answered", "resting", "ended"},
   seen : [Watch!Kinds -> SUBSET Channels],
   memory : [Watch!Kinds -> SUBSET Channels] \cup {Watch!NoMemory},
   first : [Watch!Kinds -> SUBSET Channels]]

StopRecord ==
  [at : {"off", "idle", "polling", "answered", "resting", "done"},
   seen : SUBSET Channels, block : SUBSET Channels,
   listening : BOOLEAN, result : {"none", "ok", "failed"}]

HuntRecord ==
  [at : {"off", "polling", "answered", "found", "failed"},
   seen : BOOLEAN, tries : 0..Times]

\* The channels that have come to a kind of pending, and those that are past it
Reached(kind) ==
  IF kind = "opening"
  THEN {k \in Channels : life[k] \in {"opening", "open", "closing", "closed"}}
  ELSE {k \in Channels : life[k] \in {"closing", "closed"}}

Beyond(kind) ==
  IF kind = "opening"
  THEN {k \in Channels : life[k] \in {"open", "closing", "closed"}}
  ELSE {k \in Channels : life[k] = "closed"}

Told(kind) == {k \in Channels : told[kind][k] # 0}

\* What the monitor was told of one kind of pending: a channel that is no longer
\* in the answers, or was told or there at first and is forgotten, is past this kind
MonitorInv(kind) ==
  LET memory == Watch!Remembered[kind]  seen == monitor.seen[kind]
      first == monitor.first[kind]
  IN  /\ memory \subseteq Reached(kind)
      /\ seen \subseteq Reached(kind)
      /\ monitor.at = "answered" => memory \ seen \subseteq Beyond(kind)
      /\ Told(kind) \subseteq memory \cup (Beyond(kind) \ seen)
      /\ \A k \in Channels : told[kind][k] <= 1
      /\ first \subseteq memory \cup (Beyond(kind) \ seen)
      /\ Told(kind) \cap first = {}
      /\ monitor.memory = Watch!NoMemory => Told(kind) = {} /\ first = {}

\* Where stopAllHtlcs is, and the open channels it does not block: they opened
\* since the list it uses, or will use, was asked for
StopInv ==
  /\ stop.at \in {"off", "idle"} => ~stop.listening /\ passed = {}
  /\ Watch!ListenerOutlivesOnlyAFailure
  /\ stop.at \in {"resting", "polling"} =>
       Watch!In({"open"}) \ stop.block \subseteq young
  /\ stop.at = "answered" =>
       Watch!In({"open"}) \ (stop.block \cup stop.seen) \subseteq young
  /\ Watch!OnlyYoungChannelsPass

\* The hunt counts its attempts and stops at the last one
HuntInv == hunt.at \in {"polling", "answered"} => hunt.tries < Times

\* The inductive invariant of the loops
LoopsInv ==
  /\ Watch!TypeOK
  /\ \A kind \in Watch!Kinds : MonitorInv(kind)
  /\ StopInv
  /\ HuntInv

LEMMA WatchFields ==
  ASSUME LoopsInv
  PROVE  /\ life \in [Channels -> Watch!Lives] /\ heard \in BOOLEAN
         /\ monitor \in MonitorRecord /\ stop \in StopRecord /\ hunt \in HuntRecord
         /\ told \in [Watch!Kinds -> [Channels -> 0..2]]
         /\ young \subseteq Channels /\ passed \subseteq Channels \cup {Elsewhere}
  BY DEF LoopsInv, Watch!TypeOK, MonitorRecord, StopRecord, HuntRecord

LEMMA WatchTyped ==
  ASSUME life \in [Channels -> Watch!Lives], heard \in BOOLEAN,
         monitor \in MonitorRecord, stop \in StopRecord, hunt \in HuntRecord,
         told \in [Watch!Kinds -> [Channels -> 0..2]],
         young \subseteq Channels, passed \subseteq Channels \cup {Elsewhere}
  PROVE  Watch!TypeOK
  BY DEF Watch!TypeOK, MonitorRecord, StopRecord, HuntRecord

\* No channel comes back to a kind of pending it has left
LEMMA PendingPasses ==
  ASSUME LoopsInv, NEW kind \in Watch!Kinds
  PROVE  /\ Watch!In({kind}) \subseteq Reached(kind)
         /\ Reached(kind) \ Watch!In({kind}) = Beyond(kind)
         /\ Beyond(kind) \subseteq Reached(kind)
         /\ Watch!In({kind}) \cap Beyond(kind) = {}
  BY DEF Watch!In, Watch!Kinds, Reached, Beyond

\* What the monitor remembers, by kind
LEMMA MemoryFields ==
  ASSUME LoopsInv
  PROVE  /\ Watch!Remembered \in [Watch!Kinds -> SUBSET Channels]
         /\ monitor.seen \in [Watch!Kinds -> SUBSET Channels]
         /\ monitor.memory \in [Watch!Kinds -> SUBSET Channels] \cup {Watch!NoMemory}
         /\ \A m \in [Watch!Kinds -> SUBSET Channels] : m # Watch!NoMemory
<1>1. monitor \in MonitorRecord
  BY WatchFields
<1>2. \A m \in [Watch!Kinds -> SUBSET Channels] : m # Watch!NoMemory
  <2>. SUFFICES ASSUME NEW m \in [Watch!Kinds -> SUBSET Channels], m = Watch!NoMemory
                PROVE  FALSE
    OBVIOUS
  <2>1. DOMAIN m = Watch!Kinds /\ DOMAIN Watch!NoMemory = {}
    BY DEF Watch!NoMemory
  <2>. QED
    BY <2>1 DEF Watch!Kinds
<1>3. Watch!Nothing \in [Watch!Kinds -> SUBSET Channels]
  BY DEF Watch!Nothing
<1>4. /\ monitor.seen \in [Watch!Kinds -> SUBSET Channels]
      /\ monitor.memory \in [Watch!Kinds -> SUBSET Channels] \cup {Watch!NoMemory}
  BY <1>1 DEF MonitorRecord
<1>. QED
  BY <1>2, <1>3, <1>4 DEF Watch!Remembered

\* A channel moves on: what was reached or passed stays so, and a channel that
\* opens is young
LEMMA MovesKeeps ==
  ASSUME LoopsInv, NEW k \in Channels, Watch!Moves(k)
  PROVE  LoopsInv'
<1>. PICK next \in Watch!Follows(k) :
       /\ life' = [life EXCEPT ![k] = next]
       /\ young' = IF next = "open" THEN young \cup {k} ELSE young
  BY DEF Watch!Moves
<1>1. UNCHANGED <<heard, monitor, told, stop, passed, hunt>>
  BY DEF Watch!Moves
<1>2. /\ life \in [Channels -> Watch!Lives] /\ young \subseteq Channels
      /\ life[k] \in {"none", "opening", "open", "closing", "closed"}
  BY WatchFields DEF Watch!Lives
<1>3. \/ life[k] = "none" /\ next = "opening"
      \/ life[k] = "opening" /\ next \in {"open", "closed"}
      \/ life[k] = "open" /\ next = "closing"
      \/ life[k] = "closing" /\ next = "closed"
  BY <1>2 DEF Watch!Follows
<1>4. \A c \in Channels : life'[c] = IF c = k THEN next ELSE life[c]
  BY <1>2
<1>5. \A kind \in Watch!Kinds :
        Reached(kind) \subseteq Reached(kind)' /\ Beyond(kind) \subseteq Beyond(kind)'
  BY <1>3, <1>4 DEF Watch!Kinds, Reached, Beyond
<1>6. /\ Watch!In({"open"})' \ Watch!In({"open"}) \subseteq young'
      /\ young \subseteq young'
  BY <1>4 DEF Watch!In
<1>7. Watch!TypeOK'
  <2>1. life' \in [Channels -> Watch!Lives]
    BY <1>2, <1>3 DEF Watch!Lives
  <2>2. young' \subseteq Channels
    BY <1>2
  <2>. QED
    BY <1>1, <2>1, <2>2 DEF LoopsInv, Watch!TypeOK
<1>8. \A kind \in Watch!Kinds : MonitorInv(kind)'
  <2>. SUFFICES ASSUME NEW kind \in Watch!Kinds
                PROVE  MonitorInv(kind)'
    OBVIOUS
  <2>1. /\ Watch!Remembered' = Watch!Remembered
        /\ Told(kind)' = Told(kind)
    BY <1>1 DEF Watch!Remembered, Told
  <2>2. Reached(kind) \subseteq Reached(kind)' /\ Beyond(kind) \subseteq Beyond(kind)'
    BY <1>5
  <2>3. MonitorInv(kind)
    BY DEF LoopsInv
  <2>. QED
    BY <1>1, <2>1, <2>2, <2>3 DEF MonitorInv
<1>9. StopInv'
  BY <1>1, <1>6 DEF LoopsInv, StopInv, Watch!ListenerOutlivesOnlyAFailure,
     Watch!OnlyYoungChannelsPass
<1>10. HuntInv'
  BY <1>1 DEF LoopsInv, HuntInv
<1>. QED
  BY <1>7, <1>8, <1>9, <1>10 DEF LoopsInv

\* The monitor moves and nothing else, but for what is told
LEMMA MonitorMoves ==
  ASSUME LoopsInv, UNCHANGED <<life, heard, stop, young, passed, hunt>>,
         monitor' \in MonitorRecord, told' \in [Watch!Kinds -> [Channels -> 0..2]],
         \A kind \in Watch!Kinds : MonitorInv(kind)'
  PROVE  LoopsInv'
<1>1. Watch!TypeOK'
  BY DEF LoopsInv, Watch!TypeOK, MonitorRecord
<1>2. StopInv'
  BY DEF LoopsInv, StopInv, Watch!ListenerOutlivesOnlyAFailure,
     Watch!OnlyYoungChannelsPass, Watch!In
<1>3. HuntInv'
  BY DEF LoopsInv, HuntInv
<1>. QED
  BY <1>1, <1>2, <1>3 DEF LoopsInv

\* A poll is answered with what is pending now: what is remembered and not among
\* it has passed on
LEMMA MonitorPollKeeps ==
  ASSUME LoopsInv, Watch!MonitorPoll
  PROVE  LoopsInv'
<1>1. /\ monitor' = [monitor EXCEPT !.at = "answered", !.seen = Watch!Pending]
      /\ UNCHANGED <<life, heard, told, stop, young, passed, hunt>>
      /\ monitor \in MonitorRecord
      /\ told \in [Watch!Kinds -> [Channels -> 0..2]]
  BY WatchFields DEF Watch!MonitorPoll
<1>2. Watch!Pending \in [Watch!Kinds -> SUBSET Channels]
  BY DEF Watch!Pending, Watch!In
<1>3. /\ monitor' \in MonitorRecord /\ monitor'.at = "answered"
      /\ monitor'.seen = Watch!Pending /\ monitor'.memory = monitor.memory
      /\ monitor'.first = monitor.first
  BY <1>1, <1>2 DEF MonitorRecord
<1>4. Watch!Remembered' = Watch!Remembered
  BY <1>3 DEF Watch!Remembered
<1>5. ASSUME NEW kind \in Watch!Kinds
      PROVE  MonitorInv(kind)'
  <2>1. monitor'.seen[kind] = Watch!In({kind})
    BY <1>3 DEF Watch!Pending
  <2>2. Reached(kind)' = Reached(kind) /\ Beyond(kind)' = Beyond(kind) /\ Told(kind)' = Told(kind)
    BY <1>1 DEF Reached, Beyond, Told
  <2>3. MonitorInv(kind)
    BY DEF LoopsInv
  <2>. QED
    BY <1>1, <1>3, <1>4, <2>1, <2>2, <2>3, PendingPasses DEF MonitorInv
<1>. QED
  BY <1>1, <1>3, <1>5, MonitorMoves

\* The new ones of an answer are told and remembered
LEMMA MonitorTellKeeps ==
  ASSUME LoopsInv, Watch!MonitorTell
  PROVE  LoopsInv'
<1>. DEFINE first == monitor.memory = Watch!NoMemory
            at == IF first \/ heard THEN "resting" ELSE "ended"
            start == IF first THEN monitor.seen ELSE monitor.first
<1>1. /\ monitor.at = "answered"
      /\ monitor' = [at |-> at, seen |-> Watch!Nothing, memory |-> monitor.seen,
                     first |-> start]
      /\ told' = [kind \in Watch!Kinds |-> [k \in Channels |->
           IF ~first /\ heard /\ k \in Watch!Fresh(kind) /\ told[kind][k] < 2
           THEN told[kind][k] + 1
           ELSE told[kind][k]]]
      /\ UNCHANGED <<life, heard, stop, young, passed, hunt>>
  BY DEF Watch!MonitorTell
<1>2. told \in [Watch!Kinds -> [Channels -> 0..2]]
  BY WatchFields
<1>3. at \in {"resting", "ended"}
  OBVIOUS
<1>4. /\ monitor'.at = at /\ monitor'.seen = Watch!Nothing
      /\ monitor'.memory = monitor.seen /\ monitor'.first = start
      /\ monitor' \in MonitorRecord
  <2>. HIDE DEF at
  <2>1. Watch!Nothing \in [Watch!Kinds -> SUBSET Channels]
    BY DEF Watch!Nothing
  <2>2. start \in [Watch!Kinds -> SUBSET Channels]
    BY WatchFields, MemoryFields DEF MonitorRecord
  <2>. HIDE DEF start
  <2>. QED
    BY <1>1, <1>3, <2>1, <2>2, MemoryFields DEF MonitorRecord
<1>5. monitor.seen # Watch!NoMemory /\ Watch!Remembered' = monitor.seen
  BY <1>4, MemoryFields DEF Watch!Remembered
<1>6. ASSUME NEW kind \in Watch!Kinds, NEW k \in Channels
      PROVE  /\ told[kind][k] \in 0..2
             /\ told'[kind][k] \in 0..2
             /\ \/ told'[kind][k] = told[kind][k]
                \/ /\ ~first
                   /\ k \in monitor.seen[kind] \ Watch!Remembered[kind]
                   /\ told'[kind][k] = told[kind][k] + 1
  BY <1>1, <1>2 DEF Watch!Fresh
<1>7. told' \in [Watch!Kinds -> [Channels -> 0..2]]
  <2>1. told' = [kind \in Watch!Kinds |-> [k \in Channels |-> told'[kind][k]]]
    BY <1>1
  <2>. QED
    BY <1>6, <2>1
<1>8. ASSUME NEW kind \in Watch!Kinds
      PROVE  MonitorInv(kind)'
  <2>1. MonitorInv(kind)
    BY DEF LoopsInv
  <2>2. Reached(kind)' = Reached(kind) /\ Beyond(kind)' = Beyond(kind)
    BY <1>1 DEF Reached, Beyond
  <2>3. monitor'.seen[kind] = {} /\ monitor'.at # "answered"
    BY <1>3, <1>4 DEF Watch!Nothing
  <2>4. /\ Told(kind) \subseteq Watch!Remembered[kind] \cup (Beyond(kind) \ monitor.seen[kind])
        /\ Watch!Remembered[kind] \ monitor.seen[kind] \subseteq Beyond(kind)
        /\ monitor.seen[kind] \subseteq Reached(kind)
        /\ \A k \in Channels : told[kind][k] <= 1
    BY <1>1, <2>1 DEF MonitorInv
  <2>5. /\ monitor.first[kind] \subseteq
              Watch!Remembered[kind] \cup (Beyond(kind) \ monitor.seen[kind])
        /\ Told(kind) \cap monitor.first[kind] = {}
        /\ first => Told(kind) = {}
    BY <2>1 DEF MonitorInv
  <2>6. monitor'.first[kind] = IF first THEN monitor.seen[kind] ELSE monitor.first[kind]
    BY <1>4
  <2>7. monitor'.first[kind] \subseteq monitor.seen[kind] \cup Beyond(kind)
    BY <2>4, <2>5, <2>6
  <2>8. ASSUME NEW k \in Channels
        PROVE  /\ told'[kind][k] <= 1
               /\ told'[kind][k] # 0 => k \in monitor.seen[kind] \cup Beyond(kind)
               /\ told'[kind][k] # 0 => k \notin monitor'.first[kind]
    <3>1. CASE told'[kind][k] = told[kind][k]
      BY <1>6, <2>4, <2>5, <2>6, <3>1 DEF Told
    <3>2. CASE told'[kind][k] # told[kind][k]
      <4>1. /\ k \in monitor.seen[kind] \ Watch!Remembered[kind] /\ ~first
            /\ told'[kind][k] = told[kind][k] + 1
        BY <1>6, <3>2
      <4>2. told[kind][k] = 0
        BY <1>6, <2>4, <4>1 DEF Told
      <4>. QED
        BY <2>5, <2>6, <4>1, <4>2
    <3>. QED
      BY <3>1, <3>2
  <2>9. /\ Told(kind)' \subseteq monitor.seen[kind] \cup Beyond(kind)
        /\ Told(kind)' \cap monitor'.first[kind] = {}
    BY <2>8 DEF Told
  <2>. QED
    BY <1>4, <1>5, <2>2, <2>3, <2>4, <2>8, <2>9, <2>7 DEF MonitorInv
<1>. QED
  BY <1>1, <1>4, <1>7, <1>8, MonitorMoves

\* The timer of the next poll, and a poll that fails
LEMMA MonitorTurnsKeeps ==
  ASSUME LoopsInv, Watch!MonitorTimer \/ Watch!MonitorFails
  PROVE  LoopsInv'
<1>1. PICK at \in {"polling", "ended"} : monitor' = [monitor EXCEPT !.at = at]
  BY DEF Watch!MonitorTimer, Watch!MonitorFails
<1>2. /\ UNCHANGED <<life, heard, told, stop, young, passed, hunt>>
      /\ monitor \in MonitorRecord
      /\ told \in [Watch!Kinds -> [Channels -> 0..2]]
  BY WatchFields DEF Watch!MonitorTimer, Watch!MonitorFails
<1>3. /\ monitor' \in MonitorRecord /\ monitor'.at = at
      /\ monitor'.seen = monitor.seen /\ monitor'.memory = monitor.memory
      /\ monitor'.first = monitor.first
  BY <1>1, <1>2 DEF MonitorRecord
<1>4. ASSUME NEW kind \in Watch!Kinds
      PROVE  MonitorInv(kind)'
  <2>1. /\ Reached(kind)' = Reached(kind) /\ Beyond(kind)' = Beyond(kind)
        /\ Told(kind)' = Told(kind) /\ Watch!Remembered' = Watch!Remembered
    BY <1>2, <1>3 DEF Reached, Beyond, Told, Watch!Remembered
  <2>2. MonitorInv(kind)
    BY DEF LoopsInv
  <2>. QED
    BY <1>2, <1>3, <2>1, <2>2 DEF MonitorInv
<1>. QED
  BY <1>2, <1>3, <1>4, MonitorMoves

\* stopAllHtlcs or its listener moves, and the channels and the monitor do not
LEMMA StopMoves ==
  ASSUME LoopsInv, UNCHANGED <<life, heard, monitor, told, hunt>>,
         stop' \in StopRecord, young' \subseteq Channels,
         passed' \subseteq Channels \cup {Elsewhere}, StopInv'
  PROVE  LoopsInv'
<1>1. Watch!TypeOK'
  BY DEF LoopsInv, Watch!TypeOK, StopRecord
<1>2. \A kind \in Watch!Kinds : MonitorInv(kind)'
  BY DEF LoopsInv, MonitorInv, Watch!Remembered, Reached, Beyond, Told
<1>3. HuntInv'
  BY DEF LoopsInv, HuntInv
<1>. QED
  BY <1>1, <1>2, <1>3 DEF LoopsInv

\* The first list is the caller's: what else is open is young
LEMMA StopStartKeeps ==
  ASSUME LoopsInv, Watch!StopStart
  PROVE  LoopsInv'
<1>. PICK ids \in SUBSET Watch!In({"open"}) :
       /\ stop' = [stop EXCEPT !.at = "polling", !.block = ids, !.listening = TRUE]
       /\ young' = Watch!In({"open"}) \ ids
  BY DEF Watch!StopStart, Watch!StopBecomes
<1>1. /\ UNCHANGED <<life, heard, monitor, told, hunt, passed>>
      /\ stop.at = "idle"
      /\ stop \in StopRecord /\ passed \subseteq Channels \cup {Elsewhere}
  BY WatchFields DEF Watch!StopStart, Watch!StopBecomes
<1>2. Watch!In({"open"}) \subseteq Channels
  BY DEF Watch!In
<1>3. /\ stop' \in StopRecord /\ stop'.at = "polling" /\ stop'.block = ids
      /\ stop'.listening
  BY <1>1, <1>2 DEF StopRecord
<1>4. passed' = {}
  BY <1>1 DEF LoopsInv, StopInv
<1>5. StopInv'
  BY <1>1, <1>3, <1>4 DEF StopInv, Watch!ListenerOutlivesOnlyAFailure,
     Watch!OnlyYoungChannelsPass, Watch!In
<1>. QED
  BY <1>1, <1>2, <1>3, <1>5, StopMoves

\* A poll takes every open channel: what opens from here on is young
LEMMA StopPollKeeps ==
  ASSUME LoopsInv, Watch!StopPoll
  PROVE  LoopsInv'
<1>1. /\ UNCHANGED <<life, heard, monitor, told, hunt, passed>>
      /\ stop.at = "polling" /\ young' = {}
      /\ stop' = [stop EXCEPT !.at = "answered", !.seen = Watch!In({"open"})]
      /\ stop \in StopRecord /\ passed \subseteq Channels \cup {Elsewhere}
  BY WatchFields DEF Watch!StopPoll, Watch!StopBecomes
<1>2. Watch!In({"open"}) \subseteq Channels
  BY DEF Watch!In
<1>3. /\ stop' \in StopRecord /\ stop'.at = "answered" /\ stop'.seen = Watch!In({"open"})
      /\ stop'.block = stop.block /\ (stop'.listening <=> stop.listening)
      /\ stop'.result = stop.result
  BY <1>1, <1>2 DEF StopRecord
<1>4. Watch!In({"open"})' = Watch!In({"open"})
  BY <1>1 DEF Watch!In
<1>5. stop.listening
  BY <1>1 DEF LoopsInv, StopInv, Watch!ListenerOutlivesOnlyAFailure
<1>6. StopInv'
  BY <1>3, <1>4, <1>5 DEF StopInv, Watch!ListenerOutlivesOnlyAFailure,
     Watch!OnlyYoungChannelsPass
<1>. QED
  BY <1>1, <1>3, <1>6, StopMoves

\* What a list names is blocked, until the target is not among it
LEMMA StopHandleKeeps ==
  ASSUME LoopsInv, Watch!StopHandle
  PROVE  LoopsInv'
<1>. PICK gone \in BOOLEAN : gone = (Target \notin stop.seen)
  <2>1. (Target \notin stop.seen) \in BOOLEAN
    OBVIOUS
  <2>. QED
    BY <2>1, Zenon
<1>1. /\ UNCHANGED <<life, heard, monitor, told, hunt, young>>
      /\ stop.at = "answered" /\ passed' = {}
      /\ stop \in StopRecord /\ young \subseteq Channels
  BY WatchFields DEF Watch!StopHandle, Watch!StopBecomes
<1>. DEFINE at == IF gone THEN "done" ELSE "resting"
            result == IF gone THEN "ok" ELSE "none"
            listening == ~gone
<1>2. stop' = [stop EXCEPT !.at = at, !.seen = {}, !.block = stop.block \cup stop.seen,
                           !.listening = listening, !.result = result]
  BY DEF Watch!StopHandle, Watch!StopBecomes
<1>3. /\ at \in {"done", "resting"} /\ result \in {"none", "ok"} /\ listening \in BOOLEAN
      /\ at = "done" => ~listening
      /\ at = "resting" => listening
  OBVIOUS
<1>. HIDE DEF at, result, listening
<1>4. /\ stop' \in StopRecord /\ stop'.at = at /\ stop'.result = result
      /\ stop'.block = stop.block \cup stop.seen
      /\ stop'.listening <=> listening
  BY <1>1, <1>2, <1>3 DEF StopRecord
<1>5. Watch!In({"open"})' = Watch!In({"open"})
  BY <1>1 DEF Watch!In
<1>6. Watch!In({"open"}) \ (stop.block \cup stop.seen) \subseteq young
  BY <1>1 DEF LoopsInv, StopInv
<1>7. StopInv'
  BY <1>1, <1>3, <1>4, <1>5, <1>6 DEF StopInv, Watch!ListenerOutlivesOnlyAFailure,
     Watch!OnlyYoungChannelsPass
<1>. QED
  BY <1>1, <1>4, <1>7, StopMoves

\* The timer of the next poll, and a poll that fails with the listener left on
LEMMA StopTurnsKeeps ==
  ASSUME LoopsInv, Watch!StopTimer \/ Watch!StopFails
  PROVE  LoopsInv'
<1>1. /\ UNCHANGED <<life, heard, monitor, told, hunt, young, passed>>
      /\ stop.at \in {"resting", "polling"}
      /\ stop \in StopRecord /\ young \subseteq Channels
      /\ passed \subseteq Channels \cup {Elsewhere}
  BY WatchFields DEF Watch!StopTimer, Watch!StopFails, Watch!StopBecomes
<1>2. /\ stop' \in StopRecord /\ stop'.at \in {"polling", "done"}
      /\ stop'.at = "done" => stop'.result = "failed"
      /\ stop'.block = stop.block /\ (stop'.listening <=> stop.listening)
  <2>1. CASE Watch!StopTimer
    BY <1>1, <2>1 DEF Watch!StopTimer, Watch!StopBecomes, StopRecord
  <2>2. CASE Watch!StopFails
    BY <1>1, <2>2 DEF Watch!StopFails, Watch!StopBecomes, StopRecord
  <2>. QED
    BY <2>1, <2>2
<1>3. Watch!In({"open"})' = Watch!In({"open"})
  BY <1>1 DEF Watch!In
<1>4. /\ stop.listening /\ Watch!In({"open"}) \ stop.block \subseteq young
      /\ passed \cap Channels \subseteq young
  BY <1>1 DEF LoopsInv, StopInv, Watch!ListenerOutlivesOnlyAFailure,
     Watch!OnlyYoungChannelsPass
<1>5. StopInv'
  BY <1>1, <1>2, <1>3, <1>4 DEF StopInv, Watch!ListenerOutlivesOnlyAFailure,
     Watch!OnlyYoungChannelsPass
<1>. QED
  BY <1>1, <1>2, <1>5, StopMoves

\* A forward is let through between open channels that are not blocked
LEMMA ForwardKeeps ==
  ASSUME LoopsInv, NEW a \in Channels \cup {Elsewhere}, NEW b \in Channels \cup {Elsewhere},
         Watch!Forward(a, b)
  PROVE  LoopsInv'
<1>1. /\ UNCHANGED <<life, heard, monitor, told, stop, young, hunt>>
      /\ stop.listening /\ passed' = passed \cup {a, b}
      /\ {a, b} \cap Channels \subseteq Watch!In({"open"}) \ stop.block
      /\ stop \in StopRecord /\ young \subseteq Channels
      /\ passed \subseteq Channels \cup {Elsewhere}
  BY WatchFields DEF Watch!Forward, Watch!WatchAssumption
<1>2. passed' \subseteq Channels \cup {Elsewhere}
  BY <1>1
<1>3. StopInv
  BY DEF LoopsInv
<1>4. Watch!OnlyYoungChannelsPass'
  BY <1>1, <1>3 DEF StopInv, Watch!OnlyYoungChannelsPass
<1>5. Watch!In({"open"})' = Watch!In({"open"})
  BY <1>1 DEF Watch!In
<1>6. StopInv'
  BY <1>1, <1>3, <1>4, <1>5 DEF StopInv, Watch!ListenerOutlivesOnlyAFailure
<1>. QED
  BY <1>1, <1>2, <1>6, StopMoves

\* The steps of waitForPendingOpen
LEMMA HuntKeeps ==
  ASSUME LoopsInv, Watch!HuntPoll \/ Watch!HuntHandle
  PROVE  LoopsInv'
<1>1. /\ UNCHANGED <<life, heard, monitor, told, stop, young, passed>>
      /\ hunt \in HuntRecord /\ Times \in Nat \ {0}
      /\ hunt.at \in {"polling", "answered"} /\ hunt.tries \in 0..Times
      /\ hunt.tries < Times
  BY WatchFields DEF Watch!HuntPoll, Watch!HuntHandle, Watch!HuntBecomes,
     Watch!WatchAssumption, HuntRecord, LoopsInv, HuntInv
<1>2. hunt' \in HuntRecord /\ (hunt'.at \in {"polling", "answered"} => hunt'.tries < Times)
  <2>1. CASE Watch!HuntPoll
    <3>. PICK found \in BOOLEAN : hunt' = [hunt EXCEPT !.at = "answered", !.seen = found]
      <4>1. \E found \in {FALSE, life[Target] = "opening"} :
              hunt' = [hunt EXCEPT !.at = "answered", !.seen = found]
        BY <2>1 DEF Watch!HuntPoll, Watch!HuntBecomes
      <4>2. {FALSE, life[Target] = "opening"} \subseteq BOOLEAN
        OBVIOUS
      <4>. QED
        BY <4>1, <4>2, Zenon
    <3>. QED
      BY <1>1 DEF HuntRecord
  <2>2. CASE Watch!HuntHandle /\ hunt.seen
    BY <1>1, <2>2 DEF Watch!HuntHandle, Watch!HuntBecomes, HuntRecord
  <2>3. CASE Watch!HuntHandle /\ ~hunt.seen
    <3>. PICK n \in 0..Times : n = hunt.tries + 1
      BY <1>1
    <3>. PICK at \in {"failed", "polling"} : at = IF n = Times THEN "failed" ELSE "polling"
      OBVIOUS
    <3>1. hunt' = [hunt EXCEPT !.at = at, !.tries = n]
      BY <2>3 DEF Watch!HuntHandle, Watch!HuntBecomes
    <3>2. hunt' \in HuntRecord /\ hunt'.at = at /\ hunt'.tries = n
      BY <1>1, <3>1 DEF HuntRecord
    <3>. QED
      BY <1>1, <3>2
  <2>. QED
    BY <2>1, <2>2, <2>3
<1>3. Watch!TypeOK'
  BY <1>1, <1>2 DEF LoopsInv, Watch!TypeOK, HuntRecord
<1>4. \A kind \in Watch!Kinds : MonitorInv(kind)'
  BY <1>1 DEF LoopsInv, MonitorInv, Watch!Remembered, Reached, Beyond, Told
<1>5. StopInv'
  BY <1>1 DEF LoopsInv, StopInv, Watch!ListenerOutlivesOnlyAFailure,
     Watch!OnlyYoungChannelsPass, Watch!In
<1>6. HuntInv'
  BY <1>2 DEF HuntInv
<1>. QED
  BY <1>3, <1>4, <1>5, <1>6 DEF LoopsInv

LEMMA AudienceKeeps ==
  ASSUME LoopsInv, Watch!AudienceTurns \/ UNCHANGED watch
  PROVE  LoopsInv'
<1>1. UNCHANGED <<life, monitor, told, stop, young, passed, hunt>>
  BY DEF Watch!AudienceTurns, watch
<1>2. heard' \in BOOLEAN
  BY WatchFields DEF Watch!AudienceTurns, watch
<1>3. Watch!TypeOK'
  BY <1>1, <1>2 DEF LoopsInv, Watch!TypeOK
<1>4. \A kind \in Watch!Kinds : MonitorInv(kind)'
  BY <1>1 DEF LoopsInv, MonitorInv, Watch!Remembered, Reached, Beyond, Told
<1>5. StopInv'
  BY <1>1 DEF LoopsInv, StopInv, Watch!ListenerOutlivesOnlyAFailure,
     Watch!OnlyYoungChannelsPass, Watch!In
<1>6. HuntInv'
  BY <1>1 DEF LoopsInv, HuntInv
<1>. QED
  BY <1>3, <1>4, <1>5, <1>6 DEF LoopsInv

\* No loop has begun, whatever the channels are
LEMMA LoopsBegin ==
  ASSUME life \in [Channels -> Watch!Lives], heard \in BOOLEAN,
         NEW loop \in {"none", "monitor", "stop", "hunt"}, Watch!Running(loop)
  PROVE  LoopsInv
<1>1. /\ monitor.at \in {"off", "polling"} /\ monitor.seen = Watch!Nothing
      /\ monitor.memory = Watch!NoMemory /\ monitor.first = Watch!Nothing
      /\ monitor \in MonitorRecord
  BY DEF Watch!Running, MonitorRecord, Watch!Nothing
<1>2. /\ stop.at \in {"off", "idle"} /\ ~stop.listening /\ stop \in StopRecord
  BY DEF Watch!Running, StopRecord
<1>3. hunt \in HuntRecord /\ hunt.tries = 0 /\ 0 < Times
  BY DEF Watch!Running, HuntRecord, Watch!WatchAssumption
<1>4. /\ told = [kind \in Watch!Kinds |-> [k \in Channels |-> 0]]
      /\ young = {} /\ passed = {}
  BY DEF Watch!Running
<1>5. Watch!TypeOK
  BY <1>1, <1>2, <1>3, <1>4, WatchTyped
<1>6. \A kind \in Watch!Kinds : MonitorInv(kind)
  BY <1>1, <1>4 DEF MonitorInv, Watch!Remembered, Watch!Nothing, Told
<1>7. StopInv
  BY <1>2, <1>4 DEF StopInv, Watch!ListenerOutlivesOnlyAFailure, Watch!OnlyYoungChannelsPass
<1>8. HuntInv
  BY <1>3 DEF HuntInv
<1>. QED
  BY <1>5, <1>6, <1>7, <1>8 DEF LoopsInv

LEMMA LoopsKeep ==
  ASSUME LoopsInv, Watch!Next \/ UNCHANGED watch
  PROVE  LoopsInv'
<1>1. CASE UNCHANGED watch
  BY <1>1, AudienceKeeps
<1>2. CASE Watch!Next
  BY <1>2, MovesKeeps, AudienceKeeps, MonitorPollKeeps, MonitorTellKeeps,
     MonitorTurnsKeeps, StopStartKeeps, StopPollKeeps, StopHandleKeeps, StopTurnsKeeps,
     ForwardKeeps, HuntKeeps
     DEF Watch!Next, Watch!MonitorStep, Watch!StopStep, Watch!HuntStep
<1>. QED
  BY <1>1, <1>2

\* The inductive invariant implies the one that is checked
LEMMA WatchFollows ==
  ASSUME LoopsInv
  PROVE  WatchInv
<1>1. Watch!ToldOnce
  BY WatchFields DEF LoopsInv, MonitorInv, Told, Watch!ToldOnce
<1>. QED
  BY <1>1 DEF LoopsInv, StopInv, WatchInv, Watch!WatchInv

-----------------------------------------------------------------------------
(* Broadcast *)

CastRecord ==
  [at : {"idle", "asking", "waiting", "pushing", "done"},
   start : 0..height, blocks : Seq(1..height),
   listening : BOOLEAN, told : BOOLEAN, sending : Nat,
   early : BOOLEAN, answers : Seq({"confirmed", "failed"})]

Paid == {deposits[i] : i \in DOMAIN deposits}

FindRecord ==
  [at : {"idle", "waiting", "done"}, inbox : Seq(Paid),
   timer : BOOLEAN, answers : Seq({"found", "timeout", "failed"})]

\* A broadcast that pushes has its lock behind it, hears of a confirmation only
\* when there is one, and has no answer before it is done
IsSound(c) ==
  /\ c.at = "pushing" /\ Casting!Constrained(tx) => tx.lock <= height
  /\ c.at = "waiting" => Casting!Constrained(tx)
  /\ c.told => tx.mined # 0
  /\ c.listening => c.at \in {"waiting", "pushing"}
  /\ ~c.early
  /\ c.at # "done" => c.answers = <<>>
  /\ \A i \in DOMAIN c.answers : c.answers[i] = "confirmed" => i = 1 /\ tx.mined # 0

\* A search has its timer and its listener while it waits, and one answer after
IsOneSearch(f) ==
  /\ f.timer <=> f.at = "waiting"
  /\ f.at # "waiting" => f.inbox = <<>>
  /\ IF f.at = "done" THEN Len(f.answers) = 1 ELSE f.answers = <<>>
  /\ f.answers = <<"found">> => TRUE \in Paid

\* The inductive invariant of the broadcast and the search. The blocks in a
\* stream have been mined, as has the height that was asked for: they are among
\* the heights up to this one
CastingInv ==
  /\ height \in 1..MaxHeight
  /\ tx \in [lock : Locktimes \cup {ByTime}, final : BOOLEAN,
             sent : BOOLEAN, mined : 0..MaxHeight]
  /\ cast \in CastRecord /\ IsSound(cast)
  /\ find \in FindRecord /\ IsOneSearch(find)
  /\ deposits \in Seq(BOOLEAN)

\* Sequences over a set: an element more, the first one, the rest, a larger set
LEMMA StreamFacts ==
  ASSUME NEW S, NEW s \in Seq(S)
  PROVE  /\ \A x \in S : Append(s, x) \in Seq(S)
         /\ s # <<>> => Head(s) \in S /\ Tail(s) \in Seq(S)
         /\ \A T : S \subseteq T => s \in Seq(T)
<1>1. \A x \in S : Append(s, x) \in Seq(S)
  OBVIOUS
<1>2. s # <<>> => Head(s) \in S /\ Tail(s) \in Seq(S)
  OBVIOUS
<1>3. ASSUME NEW T, S \subseteq T
      PROVE  s \in Seq(T)
  BY <1>3
<1>. QED
  BY <1>1, <1>2, <1>3

\* A payment more: what was paid stays paid
LEMMA PaidGrows ==
  ASSUME deposits \in Seq(BOOLEAN), NEW right \in BOOLEAN,
         deposits' = Append(deposits, right)
  PROVE  Paid \subseteq Paid' /\ right \in Paid'
<1>1. /\ deposits' \in Seq(BOOLEAN) /\ Len(deposits') = Len(deposits) + 1
      /\ \A i \in 1..Len(deposits) : deposits'[i] = deposits[i]
      /\ deposits'[Len(deposits) + 1] = right
  OBVIOUS
<1>2. /\ DOMAIN deposits = 1..Len(deposits) /\ DOMAIN deposits' = 1..(Len(deposits) + 1)
      /\ Len(deposits) \in Nat
  BY <1>1
<1>. QED
  BY <1>1, <1>2 DEF Paid

\* The broadcast moves and the chain and the search do not
LEMMA CastMoves ==
  ASSUME CastingInv, NEW c \in CastRecord, IsSound(c),
         cast' = c, UNCHANGED <<height, tx, find, deposits>>
  PROVE  CastingInv'
<1>1. CastRecord' = CastRecord /\ FindRecord' = FindRecord /\ Paid' = Paid
  BY DEF CastRecord, FindRecord, Paid
<1>2. IsSound(cast)'
  BY DEF IsSound, Casting!Constrained
<1>3. IsOneSearch(find)'
  BY <1>1 DEF CastingInv, IsOneSearch
<1>. QED
  BY <1>1, <1>2, <1>3 DEF CastingInv

\* The search moves, and payments may be added
LEMMA FindMoves ==
  ASSUME CastingInv, UNCHANGED <<height, tx, cast>>, deposits' \in Seq(BOOLEAN),
         find' \in FindRecord', IsOneSearch(find)'
  PROVE  CastingInv'
<1>1. CastRecord' = CastRecord
  BY DEF CastRecord
<1>2. IsSound(cast)'
  BY DEF CastingInv, IsSound, Casting!Constrained
<1>. QED
  BY <1>1, <1>2 DEF CastingInv

LEMMA CastFields ==
  ASSUME CastingInv
  PROVE  /\ height \in 1..MaxHeight /\ MaxHeight \in Nat \ {0}
         /\ tx.mined \in 0..MaxHeight /\ tx.final \in BOOLEAN /\ tx.sent \in BOOLEAN
         /\ tx.lock \in Locktimes \cup {ByTime}
         /\ Locktimes \subseteq Nat
         /\ Casting!Constrained(tx) => tx.lock \in Nat
         /\ cast \in CastRecord /\ IsSound(cast)
         /\ cast.blocks \in Seq(1..height) /\ cast.start \in 0..height
         /\ cast.sending \in Nat /\ cast.answers \in Seq({"confirmed", "failed"})
<1>1. cast \in CastRecord
  BY DEF CastingInv
<1>2. /\ cast.blocks \in Seq(1..height) /\ cast.start \in 0..height
      /\ cast.sending \in Nat /\ cast.answers \in Seq({"confirmed", "failed"})
  BY <1>1 DEF CastRecord
<1>. QED
  BY <1>1, <1>2 DEF CastingInv, Casting!BroadcastAssumption, Casting!Constrained

\* A block arrives: every height so far is among those up to the new one
LEMMA MineKeeps ==
  ASSUME CastingInv, NEW included \in BOOLEAN, Casting!Mine(included)
  PROVE  CastingInv'
<1>1. /\ height < MaxHeight /\ height' = height + 1
      /\ included => tx.mined = 0
      /\ tx' = IF included THEN [tx EXCEPT !.mined = height + 1] ELSE tx
      /\ UNCHANGED <<find, deposits>>
  BY DEF Casting!Mine
<1>2. height \in Nat /\ height' \in 1..MaxHeight /\ 1..height \subseteq 1..height'
  BY <1>1, CastFields
<1>3. /\ tx' \in [lock : Locktimes \cup {ByTime}, final : BOOLEAN,
                  sent : BOOLEAN, mined : 0..MaxHeight]
      /\ tx'.lock = tx.lock /\ (tx'.final <=> tx.final)
      /\ tx.mined # 0 => tx'.mined # 0
      /\ included => tx'.mined # 0
  BY <1>1, <1>2 DEF CastingInv
<1>4. PICK b \in BOOLEAN :
        b = (cast.told \/ (included /\ cast.listening /\ cast.at = "pushing"))
  <2>1. (cast.told \/ (included /\ cast.listening /\ cast.at = "pushing")) \in BOOLEAN
    OBVIOUS
  <2>. QED
    BY <2>1, Zenon
<1>5. PICK s \in Seq(1..height') :
        s = IF cast.listening THEN Append(cast.blocks, height + 1) ELSE cast.blocks
  <2>1. cast.blocks \in Seq(1..height')
    BY <1>2, CastFields, StreamFacts
  <2>2. height + 1 \in 1..height'
    BY <1>1, <1>2
  <2>. QED
    BY <2>1, <2>2, StreamFacts
<1>6. cast' = [cast EXCEPT !.blocks = s, !.told = b]
  BY <1>4, <1>5 DEF Casting!Mine
<1>7. cast.start \in 0..height'
  BY <1>1, CastFields
<1>8. /\ cast' \in CastRecord' /\ cast'.at = cast.at /\ (cast'.told <=> b)
      /\ (cast'.listening <=> cast.listening) /\ (cast'.early <=> cast.early)
      /\ cast'.answers = cast.answers
  <2>1. cast \in [at : {"idle", "asking", "waiting", "pushing", "done"},
                  start : 0..height', blocks : Seq(1..height),
                  listening : BOOLEAN, told : BOOLEAN, sending : Nat,
                  early : BOOLEAN, answers : Seq({"confirmed", "failed"})]
    BY <1>7, CastFields DEF CastRecord
  <2>. QED
    BY <1>6, <2>1 DEF CastRecord
<1>9. IsSound(cast)
  BY CastFields
<1>10. Casting!Constrained(tx)' <=> Casting!Constrained(tx)
  BY <1>3 DEF Casting!Constrained
<1>11. IsSound(cast)'
  <2>1. (cast'.at = "pushing" /\ Casting!Constrained(tx)') => tx'.lock <= height'
    BY <1>1, <1>3, <1>8, <1>9, <1>10, CastFields DEF IsSound
  <2>. QED
    BY <1>3, <1>4, <1>8, <1>9, <1>10, <2>1 DEF IsSound
<1>12. find' \in FindRecord' /\ IsOneSearch(find)'
  <2>1. FindRecord' = FindRecord /\ Paid' = Paid
    BY <1>1 DEF FindRecord, Paid
  <2>. QED
    BY <1>1, <2>1 DEF CastingInv, IsOneSearch
<1>. QED
  BY <1>1, <1>2, <1>3, <1>8, <1>11, <1>12 DEF CastingInv

LEMMA CastStartKeeps ==
  ASSUME CastingInv, Casting!Start
  PROVE  CastingInv'
<1>. DEFINE c == [cast EXCEPT !.at = "asking", !.start = height]
<1>1. cast' = c /\ UNCHANGED <<height, tx, find, deposits>> /\ cast.at = "idle"
  BY DEF Casting!Start, Casting!Becomes
<1>2. height \in 0..height
  BY CastFields
<1>3. /\ c \in CastRecord /\ c.at = "asking" /\ (c.told <=> cast.told)
      /\ (c.listening <=> cast.listening) /\ (c.early <=> cast.early)
      /\ c.answers = cast.answers
  BY <1>2, CastFields DEF CastRecord
<1>. HIDE DEF c
<1>4. IsSound(c)
  BY <1>1, <1>3, CastFields DEF IsSound
<1>. QED
  BY <1>1, <1>3, <1>4, CastMoves

\* The pushing begins when there is no lock ahead
LEMMA PushingBegins ==
  ASSUME CastingInv, cast.at # "done",
         Casting!Constrained(tx) => tx.lock <= height,
         cast' = Casting!Pushing(cast), UNCHANGED <<height, tx, find, deposits>>
  PROVE  CastingInv'
<1>. DEFINE mined == (tx.mined # 0 /\ tx.mined >= cast.start - Fuzz)
<1>1. PICK b \in BOOLEAN : b = mined
  <2>1. mined \in BOOLEAN
    OBVIOUS
  <2>. QED
    BY <2>1, Zenon
<1>. DEFINE c == [cast EXCEPT !.at = "pushing", !.blocks = <<height>>, !.listening = TRUE,
                              !.told = b]
<1>2. cast' = c
  BY <1>1 DEF Casting!Pushing
<1>3. b => tx.mined # 0
  BY <1>1
<1>4. <<height>> \in Seq(1..height)
  BY CastFields
<1>5. /\ c \in CastRecord /\ c.at = "pushing" /\ (c.told <=> b)
      /\ c.listening /\ (c.early <=> cast.early)
      /\ c.answers = cast.answers
  BY <1>4, CastFields DEF CastRecord
<1>. HIDE DEF c
<1>6. IsSound(c)
  BY <1>3, <1>5, CastFields DEF IsSound
<1>. QED
  BY <1>2, <1>5, <1>6, CastMoves

LEMMA WaitForLockTimeKeeps ==
  ASSUME CastingInv, Casting!WaitForLockTime
  PROVE  CastingInv'
<1>1. cast.at = "asking" /\ UNCHANGED <<height, tx, find, deposits>>
  BY DEF Casting!WaitForLockTime, Casting!Becomes
<1>2. CASE Casting!Constrained(tx) /\ tx.lock > cast.start
  <2>. DEFINE c == [cast EXCEPT !.at = "waiting", !.blocks = <<height>>, !.listening = TRUE]
  <2>1. cast' = c
    BY <1>2 DEF Casting!WaitForLockTime, Casting!Becomes
  <2>2. <<height>> \in Seq(1..height)
    BY CastFields
  <2>3. /\ c \in CastRecord /\ c.at = "waiting" /\ (c.told <=> cast.told)
        /\ (c.early <=> cast.early) /\ c.answers = cast.answers
    BY <2>2, CastFields DEF CastRecord
  <2>. HIDE DEF c
  <2>4. IsSound(c)
    BY <1>1, <1>2, <2>3, CastFields DEF IsSound
  <2>. QED
    BY <1>1, <2>1, <2>3, <2>4, CastMoves
<1>3. CASE ~(Casting!Constrained(tx) /\ tx.lock > cast.start)
  <2>1. Casting!Constrained(tx) => tx.lock <= height
    BY <1>3, CastFields
  <2>2. cast' = Casting!Pushing(cast)
    BY <1>3 DEF Casting!WaitForLockTime, Casting!Becomes
  <2>. QED
    BY <1>1, <2>1, <2>2, PushingBegins
<1>. QED
  BY <1>2, <1>3

LEMMA LockBlockKeeps ==
  ASSUME CastingInv, Casting!LockBlock
  PROVE  CastingInv'
<1>1. /\ cast.at = "waiting" /\ cast.blocks # <<>>
      /\ UNCHANGED <<height, tx, find, deposits>>
  BY DEF Casting!LockBlock, Casting!Becomes
<1>2. Head(cast.blocks) \in 1..height /\ Tail(cast.blocks) \in Seq(1..height)
  BY <1>1, CastFields, StreamFacts
<1>3. CASE tx.lock <= Head(cast.blocks)
  <2>1. Casting!Constrained(tx) => tx.lock <= height
    BY <1>2, <1>3, CastFields
  <2>2. cast' = Casting!Pushing(cast)
    BY <1>3 DEF Casting!LockBlock, Casting!Becomes
  <2>. QED
    BY <1>1, <2>1, <2>2, PushingBegins
<1>4. CASE ~(tx.lock <= Head(cast.blocks))
  <2>. DEFINE c == [cast EXCEPT !.blocks = Tail(cast.blocks)]
  <2>1. cast' = c
    BY <1>4 DEF Casting!LockBlock, Casting!Becomes
  <2>2. /\ c \in CastRecord /\ c.at = cast.at /\ (c.told <=> cast.told)
        /\ (c.listening <=> cast.listening) /\ (c.early <=> cast.early)
        /\ c.answers = cast.answers
    BY <1>2, CastFields DEF CastRecord
  <2>. HIDE DEF c
  <2>3. IsSound(c)
    BY <2>2, CastFields DEF IsSound
  <2>. QED
    BY <1>1, <2>1, <2>2, <2>3, CastMoves
<1>. QED
  BY <1>3, <1>4

\* A broadcast at a block of the stream: the lock is behind
LEMMA PushBlockKeeps ==
  ASSUME CastingInv, Casting!PushBlock
  PROVE  CastingInv'
<1>1. /\ cast.at = "pushing" /\ cast.blocks # <<>>
      /\ UNCHANGED <<height, tx, find, deposits>>
  BY DEF Casting!PushBlock, Casting!Becomes
<1>2. Tail(cast.blocks) \in Seq(1..height)
  BY <1>1, CastFields, StreamFacts
<1>3. PICK n \in Nat : n = cast.sending + 1
  BY CastFields
<1>4. PICK b \in BOOLEAN :
        b = (cast.early \/ (Casting!Constrained(tx) /\ tx.lock > height))
  <2>1. (cast.early \/ (Casting!Constrained(tx) /\ tx.lock > height)) \in BOOLEAN
    OBVIOUS
  <2>. QED
    BY <2>1, Zenon
<1>5. ~b
  <2>1. ~cast.early
    BY CastFields DEF IsSound
  <2>2. ~(Casting!Constrained(tx) /\ tx.lock > height)
    BY <1>1, CastFields DEF IsSound
  <2>. QED
    BY <1>4, <2>1, <2>2, Zenon
<1>. DEFINE c == [cast EXCEPT !.blocks = Tail(cast.blocks), !.sending = n, !.early = b]
<1>6. cast' = c
  BY <1>3, <1>4 DEF Casting!PushBlock, Casting!Becomes
<1>7. /\ c \in CastRecord /\ c.at = cast.at /\ (c.told <=> cast.told)
      /\ (c.listening <=> cast.listening) /\ (c.early <=> b)
      /\ c.answers = cast.answers
  BY <1>2, CastFields DEF CastRecord
<1>. HIDE DEF c
<1>8. IsSound(c)
  BY <1>5, <1>7, CastFields DEF IsSound
<1>. QED
  BY <1>1, <1>6, <1>7, <1>8, CastMoves

LEMMA SendWorksKeeps ==
  ASSUME CastingInv, Casting!SendWorks
  PROVE  CastingInv'
<1>1. /\ cast.sending > 0 /\ UNCHANGED <<height, find, deposits>>
      /\ tx' = [tx EXCEPT !.sent = TRUE]
  BY DEF Casting!SendWorks
<1>2. PICK n \in Nat : n = cast.sending - 1
  BY <1>1, CastFields
<1>3. cast' = [cast EXCEPT !.sending = n]
  BY <1>2 DEF Casting!SendWorks
<1>4. /\ cast' \in CastRecord /\ cast'.at = cast.at /\ (cast'.told <=> cast.told)
      /\ (cast'.listening <=> cast.listening) /\ (cast'.early <=> cast.early)
      /\ cast'.answers = cast.answers
  BY <1>3, CastFields DEF CastRecord
<1>5. /\ tx' \in [lock : Locktimes \cup {ByTime}, final : BOOLEAN,
                  sent : BOOLEAN, mined : 0..MaxHeight]
      /\ tx'.lock = tx.lock /\ (tx'.final <=> tx.final) /\ tx'.mined = tx.mined
  BY <1>1 DEF CastingInv
<1>6. IsSound(cast)'
  BY <1>1, <1>4, <1>5, CastFields DEF IsSound, Casting!Constrained
<1>7. CastRecord' = CastRecord /\ FindRecord' = FindRecord /\ Paid' = Paid
  BY <1>1 DEF CastRecord, FindRecord, Paid
<1>8. IsOneSearch(find)'
  BY <1>1, <1>7 DEF CastingInv, IsOneSearch
<1>. QED
  BY <1>1, <1>4, <1>5, <1>6, <1>7, <1>8 DEF CastingInv

\* An answer silences the streams and is added to those given
LEMMA AnswerFields ==
  ASSUME CastingInv, NEW result \in {"confirmed", "failed"}
  PROVE  LET c == Casting!Answer(cast, result)
         IN  /\ c \in CastRecord /\ c.at = "done" /\ ~c.told /\ ~c.listening
             /\ (c.early <=> cast.early) /\ c.sending = cast.sending
             /\ c.answers = Append(cast.answers, result)
<1>1. <<>> \in Seq(1..height)
  OBVIOUS
<1>2. Append(cast.answers, result) \in Seq({"confirmed", "failed"})
  BY CastFields, StreamFacts
<1>. DEFINE c == [cast EXCEPT !.listening = FALSE, !.blocks = <<>>, !.told = FALSE]
            r == [c EXCEPT !.at = "done", !.answers = Append(cast.answers, result)]
<1>3. /\ c \in CastRecord /\ ~c.told /\ ~c.listening /\ (c.early <=> cast.early)
      /\ c.sending = cast.sending /\ c.answers = cast.answers
  BY <1>1, CastFields DEF CastRecord
<1>4. Casting!Answer(cast, result) = [c EXCEPT !.at = "done", !.answers = Append(c.answers, result)]
  BY DEF Casting!Answer, Casting!Silent
<1>. HIDE DEF c
<1>5. Casting!Answer(cast, result) = r
  BY <1>3, <1>4
<1>6. /\ r \in CastRecord /\ r.at = "done" /\ ~r.told /\ ~r.listening
      /\ (r.early <=> cast.early) /\ r.sending = cast.sending
      /\ r.answers = Append(cast.answers, result)
  BY <1>2, <1>3 DEF CastRecord
<1>. QED
  BY <1>5, <1>6

\* A failure is added to any answers, a confirmation is the first of them
LEMMA AnswerIsSound ==
  ASSUME CastingInv, NEW result \in {"confirmed", "failed"},
         result = "confirmed" => cast.answers = <<>> /\ tx.mined # 0,
         NEW c \in CastRecord, c.at = "done", ~c.told, ~c.listening, ~c.early,
         c.answers = Append(cast.answers, result)
  PROVE  IsSound(c)
<1>1. \A i \in DOMAIN cast.answers : cast.answers[i] = "confirmed" => i = 1 /\ tx.mined # 0
  BY CastFields DEF IsSound
<1>2. \A i \in DOMAIN c.answers : c.answers[i] = "confirmed" => i = 1 /\ tx.mined # 0
  <2>. SUFFICES ASSUME NEW i \in DOMAIN c.answers, c.answers[i] = "confirmed"
                PROVE  i = 1 /\ tx.mined # 0
    OBVIOUS
  <2>1. cast.answers \in Seq({"confirmed", "failed"})
    BY CastFields
  <2>2. /\ i \in 1..(Len(cast.answers) + 1) /\ Len(cast.answers) \in Nat
        /\ i = Len(cast.answers) + 1 => c.answers[i] = result
        /\ i # Len(cast.answers) + 1 =>
             i \in DOMAIN cast.answers /\ c.answers[i] = cast.answers[i]
    BY <2>1
  <2>. QED
    BY <1>1, <2>1, <2>2
<1>. QED
  BY <1>2 DEF IsSound

LEMMA AnswerKeeps ==
  ASSUME CastingInv,
         Casting!SendFails \/ Casting!Confirmation \/ Casting!StreamBreaks
  PROVE  CastingInv'
<1>1. ~cast.early
  BY CastFields DEF IsSound
<1>2. CASE Casting!SendFails
  <2>. DEFINE a == Casting!Answer(cast, "failed")
  <2>1. /\ a \in CastRecord /\ a.at = "done" /\ ~a.told /\ ~a.listening /\ ~a.early
        /\ a.sending = cast.sending /\ a.answers = Append(cast.answers, "failed")
    BY <1>1, AnswerFields
  <2>2. cast.sending > 0 /\ cast' = [a EXCEPT !.sending = a.sending - 1]
        /\ UNCHANGED <<height, tx, find, deposits>>
    BY <1>2 DEF Casting!SendFails, Casting!Becomes
  <2>. HIDE DEF a
  <2>3. PICK n \in Nat : n = a.sending - 1
    BY <2>1, <2>2, CastFields
  <2>. DEFINE c == [a EXCEPT !.sending = n]
  <2>4. /\ c \in CastRecord /\ c.at = "done" /\ ~c.told /\ ~c.listening /\ ~c.early
        /\ c.answers = Append(cast.answers, "failed")
    BY <2>1 DEF CastRecord
  <2>5. cast' = c
    BY <2>2, <2>3
  <2>. HIDE DEF c
  <2>6. IsSound(c)
    BY <2>4, AnswerIsSound
  <2>. QED
    BY <2>2, <2>4, <2>5, <2>6, CastMoves
<1>3. CASE Casting!Confirmation
  <2>1. cast.answers = <<>> /\ tx.mined # 0
    BY <1>3, CastFields DEF Casting!Confirmation, IsSound
  <2>2. cast' = Casting!Answer(cast, "confirmed") /\ UNCHANGED <<height, tx, find, deposits>>
    BY <1>3 DEF Casting!Confirmation, Casting!Becomes
  <2>. QED
    BY <1>1, <2>1, <2>2, AnswerFields, AnswerIsSound, CastMoves
<1>4. CASE Casting!StreamBreaks
  <2>1. cast' = Casting!Answer(cast, "failed") /\ UNCHANGED <<height, tx, find, deposits>>
    BY <1>4 DEF Casting!StreamBreaks, Casting!Becomes
  <2>. QED
    BY <1>1, <2>1, AnswerFields, AnswerIsSound, CastMoves
<1>. QED
  BY <1>2, <1>3, <1>4

LEMMA FindFields ==
  ASSUME CastingInv
  PROVE  /\ find \in FindRecord /\ IsOneSearch(find)
         /\ find.inbox \in Seq(Paid) /\ find.answers \in Seq({"found", "timeout", "failed"})
         /\ deposits \in Seq(BOOLEAN)
<1>1. find \in FindRecord
  BY DEF CastingInv
<1>. QED
  BY <1>1 DEF CastingInv, FindRecord

LEMMA FindStartKeeps ==
  ASSUME CastingInv, Casting!FindStart
  PROVE  CastingInv'
<1>1. /\ find' = [find EXCEPT !.at = "waiting", !.timer = TRUE] /\ find.at = "idle"
      /\ UNCHANGED <<height, tx, cast, deposits>>
  BY DEF Casting!FindStart, Casting!FindBecomes
<1>2. FindRecord' = FindRecord /\ Paid' = Paid
  BY <1>1 DEF FindRecord, Paid
<1>3. /\ find' \in FindRecord /\ find'.at = "waiting" /\ find'.timer
      /\ find'.inbox = find.inbox /\ find'.answers = find.answers
  BY <1>1, FindFields DEF FindRecord
<1>4. IsOneSearch(find)'
  BY <1>1, <1>2, <1>3, FindFields DEF IsOneSearch
<1>. QED
  BY <1>1, <1>2, <1>3, <1>4, FindMoves, FindFields

LEMMA DepositKeeps ==
  ASSUME CastingInv, NEW right \in BOOLEAN, Casting!Deposit(right)
  PROVE  CastingInv'
<1>1. /\ deposits' = Append(deposits, right) /\ find.at = "waiting"
      /\ find' = [find EXCEPT !.inbox = Append(find.inbox, right)]
      /\ UNCHANGED <<height, tx, cast>>
  BY DEF Casting!Deposit
<1>2. /\ Paid \subseteq Paid' /\ right \in Paid'
      /\ deposits' \in Seq(BOOLEAN)
  BY <1>1, PaidGrows, FindFields
<1>3. Append(find.inbox, right) \in Seq(Paid')
  BY <1>2, FindFields, StreamFacts
<1>4. /\ find' \in FindRecord' /\ find'.at = "waiting" /\ (find'.timer <=> find.timer)
      /\ find'.answers = find.answers
  BY <1>1, <1>3, FindFields DEF FindRecord
<1>5. IsOneSearch(find)'
  BY <1>1, <1>2, <1>4, FindFields DEF IsOneSearch
<1>. QED
  BY <1>1, <1>2, <1>4, <1>5, FindMoves

\* The search ends, by a payment it has found, by its timer or by an error
LEMMA FoundKeeps ==
  ASSUME CastingInv, NEW result \in {"found", "timeout", "failed"},
         find.at = "waiting", result = "found" => TRUE \in Paid,
         Casting!FindBecomes(Casting!Found(result))
  PROVE  CastingInv'
<1>1. /\ find' = [at |-> "done", inbox |-> <<>>, timer |-> FALSE,
                  answers |-> Append(find.answers, result)]
      /\ UNCHANGED <<height, tx, cast, deposits>>
  BY DEF Casting!FindBecomes, Casting!Found
<1>2. FindRecord' = FindRecord /\ Paid' = Paid
  BY <1>1 DEF FindRecord, Paid
<1>3. find.answers = <<>>
  BY FindFields DEF IsOneSearch
<1>4. Append(find.answers, result) = <<result>>
  BY <1>3
<1>5. <<result>> \in Seq({"found", "timeout", "failed"}) /\ <<>> \in Seq(Paid)
  OBVIOUS
<1>6. /\ find' \in FindRecord /\ find'.at = "done" /\ ~find'.timer /\ find'.inbox = <<>>
      /\ find'.answers = <<result>>
  BY <1>1, <1>4, <1>5 DEF FindRecord
<1>7. IsOneSearch(find)'
  <2>1. Len(<<result>>) = 1 /\ (<<result>> = <<"found">> => result = "found")
    OBVIOUS
  <2>. QED
    BY <1>2, <1>6, <2>1 DEF IsOneSearch
<1>. QED
  BY <1>1, <1>2, <1>6, <1>7, FindMoves, FindFields

\* A payment heard of was made; one of another amount is passed over
LEMMA FindSeesKeeps ==
  ASSUME CastingInv, Casting!FindSees
  PROVE  CastingInv'
<1>1. find.inbox # <<>> /\ find.at = "waiting"
  BY FindFields DEF Casting!FindSees, IsOneSearch
<1>2. Head(find.inbox) \in Paid /\ Tail(find.inbox) \in Seq(Paid)
  BY <1>1, FindFields, StreamFacts
<1>3. Head(find.inbox) \in BOOLEAN
  BY <1>2, FindFields DEF Paid
<1>4. CASE Head(find.inbox)
  <2>1. TRUE \in Paid
    <3>1. Head(find.inbox) = TRUE
      BY <1>3, <1>4
    <3>. QED
      BY <1>2, <3>1, Zenon
  <2>2. Casting!FindBecomes(Casting!Found("found"))
    BY <1>4 DEF Casting!FindSees
  <2>. QED
    BY <1>1, <2>1, <2>2, FoundKeeps
<1>5. CASE ~Head(find.inbox)
  <2>1. /\ find' = [find EXCEPT !.inbox = Tail(find.inbox)]
        /\ UNCHANGED <<height, tx, cast, deposits>>
    BY <1>5 DEF Casting!FindSees, Casting!FindBecomes
  <2>2. FindRecord' = FindRecord /\ Paid' = Paid
    BY <2>1 DEF FindRecord, Paid
  <2>3. /\ find' \in FindRecord /\ find'.at = find.at /\ (find'.timer <=> find.timer)
        /\ find'.answers = find.answers
    BY <1>2, <2>1, FindFields DEF FindRecord
  <2>4. IsOneSearch(find)'
    BY <1>1, <2>2, <2>3, FindFields DEF IsOneSearch
  <2>. QED
    BY <2>1, <2>2, <2>3, <2>4, FindMoves, FindFields
<1>. QED
  BY <1>4, <1>5

LEMMA FindEndsKeeps ==
  ASSUME CastingInv, Casting!FindTimesOut \/ Casting!FindBreaks
  PROVE  CastingInv'
<1>1. find.at = "waiting"
  BY FindFields DEF Casting!FindTimesOut, Casting!FindBreaks, IsOneSearch
<1>. QED
  BY <1>1, FoundKeeps DEF Casting!FindTimesOut, Casting!FindBreaks

\* Neither call is made, whatever the transaction is
LEMMA CastingBegins ==
  ASSUME Casting!NotCalled,
         tx \in [lock : Locktimes \cup {ByTime}, final : BOOLEAN, sent : BOOLEAN, mined : {0}]
  PROVE  CastingInv
<1>1. height = 1 /\ MaxHeight \in Nat \ {0} /\ deposits = <<>>
  BY DEF Casting!NotCalled, Casting!BroadcastAssumption
<1>2. /\ cast \in CastRecord /\ cast.at = "idle" /\ ~cast.told /\ ~cast.listening
      /\ ~cast.early /\ cast.answers = <<>>
  BY <1>1 DEF Casting!NotCalled, CastRecord
<1>3. find \in FindRecord /\ find.at = "idle" /\ ~find.timer /\ find.inbox = <<>>
      /\ find.answers = <<>>
  BY DEF Casting!NotCalled, FindRecord
<1>4. tx \in [lock : Locktimes \cup {ByTime}, final : BOOLEAN, sent : BOOLEAN,
              mined : 0..MaxHeight]
  BY <1>1
<1>5. IsSound(cast)
  BY <1>2 DEF IsSound
<1>6. IsOneSearch(find)
  BY <1>3 DEF IsOneSearch
<1>7. height \in 1..MaxHeight /\ deposits \in Seq(BOOLEAN)
  BY <1>1
<1>. QED
  BY <1>2, <1>3, <1>4, <1>5, <1>6, <1>7 DEF CastingInv

LEMMA CastingKeeps ==
  ASSUME CastingInv, Casting!Next \/ UNCHANGED casting
  PROVE  CastingInv'
<1>1. CASE UNCHANGED <<height, tx, cast, find, deposits>>
  <2>1. IsSound(cast)' /\ IsOneSearch(find)'
    BY <1>1 DEF CastingInv, IsSound, Casting!Constrained, IsOneSearch, Paid
  <2>2. CastRecord' = CastRecord /\ FindRecord' = FindRecord
    BY <1>1 DEF CastRecord, FindRecord, Paid
  <2>. QED
    BY <1>1, <2>1, <2>2 DEF CastingInv
<1>2. CASE \E included \in BOOLEAN : Casting!Mine(included)
  BY <1>2, MineKeeps
<1>3. CASE Casting!Start \/ Casting!CastStep \/ Casting!StreamBreaks
  BY <1>3, CastStartKeeps, WaitForLockTimeKeeps, LockBlockKeeps, PushBlockKeeps,
     SendWorksKeeps, AnswerKeeps DEF Casting!CastStep
<1>4. CASE \/ Casting!FindStart \/ Casting!FindStep \/ Casting!FindBreaks
           \/ \E right \in BOOLEAN : Casting!Deposit(right)
  BY <1>4, FindStartKeeps, DepositKeeps, FindSeesKeeps, FindEndsKeeps DEF Casting!FindStep
<1>. QED
  BY <1>1, <1>2, <1>3, <1>4 DEF Casting!Next, casting

\* The inductive invariant implies the one that is checked
LEMMA BroadcastFollows ==
  ASSUME CastingInv
  PROVE  BroadcastInv
<1>1. Casting!TypeOK
  <2>1. cast \in [at : {"idle", "asking", "waiting", "pushing", "done"},
                  start : 0..MaxHeight, blocks : Seq(1..MaxHeight),
                  listening : BOOLEAN, told : BOOLEAN, sending : Nat,
                  early : BOOLEAN, answers : Seq({"confirmed", "failed"})]
    <3>1. cast.start \in 0..MaxHeight
      BY CastFields
    <3>2. 1..height \subseteq 1..MaxHeight
      BY CastFields
    <3>3. cast.blocks \in Seq(1..MaxHeight)
      BY <3>2, CastFields, StreamFacts
    <3>. QED
      BY <3>1, <3>3, CastFields DEF CastRecord
  <2>2. find \in [at : {"idle", "waiting", "done"}, inbox : Seq(BOOLEAN),
                  timer : BOOLEAN, answers : Seq({"found", "timeout", "failed"})]
    <3>1. Paid \subseteq BOOLEAN
      BY FindFields DEF Paid
    <3>2. find.inbox \in Seq(BOOLEAN)
      BY <3>1, FindFields, StreamFacts
    <3>. QED
      BY <3>2, FindFields DEF FindRecord
  <2>. QED
    BY <2>1, <2>2 DEF CastingInv, Casting!TypeOK
<1>2. Casting!NeverSentTooEarly
  BY CastFields DEF IsSound, Casting!NeverSentTooEarly
<1>3. Casting!FirstAnswerStands
  BY CastFields DEF IsSound, Casting!FirstAnswerStands
<1>4. Casting!FoundIsPaid
  <2>1. Len(find.answers) <= 1
    <3>1. CASE Len(find.answers) = 1
      BY <3>1
    <3>2. CASE find.answers = <<>>
      BY <3>2
    <3>. QED
      BY <3>1, <3>2, FindFields DEF IsOneSearch
  <2>2. find.timer = (find.at = "waiting")
    <3>1. find.timer \in BOOLEAN /\ (find.timer <=> find.at = "waiting")
      BY FindFields DEF FindRecord, IsOneSearch
    <3>. QED
      BY <3>1
  <2>3. find.answers = <<"found">> => TRUE \in Paid
    BY FindFields DEF IsOneSearch
  <2>. QED
    BY <2>1, <2>2, <2>3 DEF Casting!FoundIsPaid, Paid
<1>. QED
  BY <1>1, <1>2, <1>3, <1>4 DEF BroadcastInv, Casting!BroadcastInv

-----------------------------------------------------------------------------
(* CurrentRecords *)

AllRows == Current!Kinds \X (Edges \cup Keys \cup Contacts)

SeriesRecord ==
  [at : {"waiting", "syncing", "done", "failed"},
   listed : SUBSET AllRows, left : SUBSET AllRows, tries : 0..(MaxTries - 1)]

PassRecord ==
  [at : {"idle", "running", "answered"},
   graph : {"none", "asked", "known", "failed"},
   peers : {"none", "asked", "known", "failed"},
   answers : {<<>>, <<"ok">>, <<"failed">>}]

\* What a series has left behind is among the rows, until it fails
HasSynced(s, rows) ==
  /\ s.left \subseteq s.listed
  /\ s.at \in {"syncing", "done"} => s.listed \ s.left \subseteq rows
  /\ s.at = "done" => s.left = {}

\* syncCurrentRecords: a success is answered when all series are done, and none
\* begins again after an answer
PassInv ==
  /\ lists \subseteq Edges \cup Keys \cup Contacts
  /\ passes \in PassRecord
  /\ series \in [Current!Kinds -> SeriesRecord]
  /\ \A k \in Current!Kinds : HasSynced(series[k], synced)
  /\ passes.answers # <<>> => passes.at = "answered"
  /\ passes.answers = <<"ok">> => \A k \in Current!Kinds : series[k].at = "done"

\* eventBlockMined: what is told of is stored, and was not before
BlocksInv ==
  /\ blocks \subseteq Blocks
  /\ added \in [Blocks -> Nat]
  /\ miner = [w \in Miners |-> miner[w]]
  /\ \A w \in Miners : miner[w].at \in {"reading", "writing"} => miner[w].block \in Blocks
  /\ \A b \in Blocks : added[b] <= 1 /\ (b \notin blocks => added[b] = 0)

\* The rows of a series, and a series by its fields
LEMMA ListedRows ==
  ASSUME lists \subseteq Edges \cup Keys \cup Contacts, NEW k \in Current!Kinds
  PROVE  Current!Listed(k) \in SUBSET AllRows
  BY DEF Current!Listed, Current!Kinds, AllRows

LEMMA SeriesFields ==
  ASSUME PassInv, NEW k \in Current!Kinds
  PROVE  /\ series[k] \in SeriesRecord
         /\ series[k].listed \in SUBSET AllRows /\ series[k].left \in SUBSET AllRows
         /\ series[k].tries \in 0..(MaxTries - 1)
         /\ HasSynced(series[k], synced)
         /\ passes \in PassRecord
         /\ MaxTries \in Nat \ {0}
<1>1. series[k] \in SeriesRecord
  BY DEF PassInv
<1>. QED
  BY <1>1 DEF PassInv, SeriesRecord, Current!RecordsAssumption

\* What the lookups ask for changes, and the series do not
LEMMA LearnKeeps ==
  ASSUME PassInv, Current!Learn \/ Current!Start
  PROVE  PassInv'
<1>1. UNCHANGED <<series, synced>> /\ lists' \subseteq Edges \cup Keys \cup Contacts
  BY DEF Current!Learn, Current!Start, PassInv
<1>2. \A k \in Current!Kinds : HasSynced(series[k], synced)'
  BY <1>1 DEF PassInv, HasSynced
<1>3. CASE Current!Learn
  BY <1>1, <1>2, <1>3 DEF Current!Learn, PassInv
<1>4. CASE Current!Start
  <2>1. /\ passes.at = "idle" /\ passes \in PassRecord
        /\ passes' = [passes EXCEPT !.at = "running", !.graph = "asked", !.peers = "asked"]
    BY <1>4 DEF Current!Start, PassInv
  <2>2. passes.answers = <<>>
    BY <2>1 DEF PassInv
  <2>3. passes' \in PassRecord /\ passes'.answers = <<>>
    BY <2>1, <2>2 DEF PassRecord
  <2>. QED
    BY <1>1, <1>2, <2>3 DEF PassInv
<1>. QED
  BY <1>3, <1>4

\* A lookup has a result; the call may have been answered before
LEMMA LookupFields ==
  ASSUME PassInv, NEW call \in {"graph", "peers"}, NEW result \in {"known", "failed"}
  PROVE  LET p == [passes EXCEPT ![call] = result]
         IN  p \in PassRecord /\ p.at = passes.at /\ p.answers = passes.answers
<1>1. passes \in PassRecord
  BY DEF PassInv
<1>2. CASE call = "graph"
  BY <1>1, <1>2 DEF PassRecord
<1>3. CASE call = "peers"
  BY <1>1, <1>3 DEF PassRecord
<1>. QED
  BY <1>2, <1>3

\* The call is answered, once
LEMMA EndedFields ==
  ASSUME PassInv, NEW result \in {"ok", "failed"}
  PROVE  LET p == Current!Ended(result)
         IN  /\ p \in PassRecord
             /\ p.answers # <<>> => p.at = "answered"
             /\ p.answers \in {passes.answers, <<result>>}
             /\ p.answers # passes.answers => passes.at = "running"
<1>1. passes \in PassRecord
  BY DEF PassInv
<1>2. CASE passes.at = "running"
  <2>. DEFINE p == [passes EXCEPT !.at = "answered", !.answers = <<result>>]
  <2>1. <<result>> \in {<<>>, <<"ok">>, <<"failed">>}
    OBVIOUS
  <2>2. p \in PassRecord /\ p.at = "answered" /\ p.answers = <<result>>
    BY <1>1, <2>1 DEF PassRecord
  <2>3. Current!Ended(result) = p
    BY <1>2 DEF Current!Ended
  <2>. HIDE DEF p
  <2>. QED
    BY <1>2, <2>2, <2>3
<1>3. CASE passes.at # "running"
  <2>1. Current!Ended(result) = passes
    BY <1>3 DEF Current!Ended
  <2>. QED
    BY <1>1, <2>1 DEF PassInv
<1>. QED
  BY <1>2, <1>3

\* Series begin only while the call has no answer
LEMMA LookupKeeps ==
  ASSUME PassInv, NEW call \in {"graph", "peers"}, NEW S \in SUBSET Current!Kinds,
         Current!Lookup(call, S)
  PROVE  PassInv'
<1>1. /\ passes' = [passes EXCEPT ![call] = "known"]
      /\ series' = IF passes.at = "running" THEN Current!Begin(S) ELSE series
      /\ UNCHANGED <<lists, synced>>
  BY DEF Current!Lookup
<1>2. passes' \in PassRecord /\ passes'.at = passes.at /\ passes'.answers = passes.answers
  BY <1>1, LookupFields
<1>3. CASE passes.at = "running"
  <2>1. series' = Current!Begin(S) /\ passes'.answers = <<>>
    BY <1>1, <1>2, <1>3 DEF PassInv
  <2>2. ASSUME NEW k \in Current!Kinds
        PROVE  series'[k] \in SeriesRecord /\ HasSynced(series'[k], synced)
    <3>1. CASE k \in S
      <4>. PICK at \in {"done", "syncing"} :
             at = IF Current!Listed(k) = {} THEN "done" ELSE "syncing"
        OBVIOUS
      <4>. PICK rows \in SUBSET AllRows : rows = Current!Listed(k)
        BY ListedRows DEF PassInv
      <4>. DEFINE old == Current!Waiting
                  s == [old EXCEPT !.at = at, !.listed = rows, !.left = rows]
      <4>1. old \in SeriesRecord
        BY SeriesFields DEF Current!Waiting, SeriesRecord
      <4>2. series'[k] = [Current!Waiting EXCEPT !.at = at, !.listed = rows, !.left = rows]
        BY <2>1, <3>1 DEF Current!Begin
      <4>. HIDE DEF old
      <4>3. s \in SeriesRecord /\ s.at = at /\ s.listed = rows /\ s.left = rows
        BY <4>1 DEF SeriesRecord
      <4>4. series'[k] = s
        BY <4>2 DEF old
      <4>. HIDE DEF s
      <4>5. at = "done" => rows = {}
        OBVIOUS
      <4>6. HasSynced(s, synced)
        BY <4>3, <4>5 DEF HasSynced
      <4>. QED
        BY <4>3, <4>4, <4>6
    <3>2. CASE k \notin S
      BY <2>1, <3>2, SeriesFields DEF Current!Begin
    <3>. QED
      BY <3>1, <3>2
  <2>3. series' = [k \in Current!Kinds |-> series'[k]]
    BY <2>1 DEF Current!Begin
  <2>4. series' \in [Current!Kinds -> SeriesRecord]
    BY <2>2, <2>3
  <2>5. \A k \in Current!Kinds : HasSynced(series[k], synced)'
    BY <1>1, <2>2 DEF HasSynced
  <2>. QED
    BY <1>1, <1>2, <2>1, <2>4, <2>5 DEF PassInv
<1>4. CASE passes.at # "running"
  <2>1. \A k \in Current!Kinds : HasSynced(series[k], synced)'
    BY <1>1, <1>4 DEF PassInv, HasSynced
  <2>. QED
    BY <1>1, <1>2, <1>4, <2>1 DEF PassInv
<1>. QED
  BY <1>3, <1>4

LEMMA LookupFailsKeeps ==
  ASSUME PassInv, NEW call \in {"graph", "peers"}, Current!LookupFails(call)
  PROVE  PassInv'
<1>1. UNCHANGED <<lists, series, synced>>
  BY DEF Current!LookupFails
<1>. DEFINE p == Current!Ended("failed")
<1>2. /\ p \in PassRecord
      /\ p.answers # <<>> => p.at = "answered"
      /\ p.answers \in {passes.answers, <<"failed">>}
  BY EndedFields
<1>3. passes' = [p EXCEPT ![call] = "failed"]
  BY DEF Current!LookupFails
<1>. HIDE DEF p
<1>4. passes' \in PassRecord /\ passes'.at = p.at /\ passes'.answers = p.answers
  <2>1. CASE call = "graph"
    BY <1>2, <1>3, <2>1 DEF PassRecord
  <2>2. CASE call = "peers"
    BY <1>2, <1>3, <2>2 DEF PassRecord
  <2>. QED
    BY <2>1, <2>2
<1>5. \A k \in Current!Kinds : HasSynced(series[k], synced)'
  BY <1>1 DEF PassInv, HasSynced
<1>6. <<"failed">> # <<"ok">>
  OBVIOUS
<1>. QED
  BY <1>1, <1>2, <1>4, <1>5, <1>6 DEF PassInv

\* One series moves: a done one does not, so that an answer stands
LEMMA SeriesMoves ==
  ASSUME PassInv, NEW k \in Current!Kinds, series[k].at = "syncing",
         NEW s \in SeriesRecord, series' = [series EXCEPT ![k] = s],
         lists' = lists, passes' \in PassRecord, synced \subseteq synced', HasSynced(s, synced'),
         passes'.answers # <<>> => passes'.at = "answered",
         passes'.answers = <<"ok">> => passes.answers = <<"ok">>
  PROVE  PassInv'
<1>1. \A l \in Current!Kinds : series'[l] = IF l = k THEN s ELSE series[l]
  BY DEF PassInv
<1>2. \A l \in Current!Kinds : HasSynced(series[l], synced)'
  BY <1>1 DEF PassInv, HasSynced
<1>3. series' \in [Current!Kinds -> SeriesRecord]
  BY DEF PassInv
<1>. QED
  BY <1>2, <1>3 DEF PassInv

LEMMA SyncOneKeeps ==
  ASSUME PassInv, NEW k \in Current!Kinds, Current!SyncOne(k)
  PROVE  PassInv'
<1>. PICK x \in series[k].left :
       /\ synced' = synced \cup {x}
       /\ series' = [series EXCEPT
            ![k].left = series[k].left \ {x}, ![k].tries = 0,
            ![k].at = IF series[k].left = {x} THEN "done" ELSE "syncing"]
  BY DEF Current!SyncOne
<1>1. series[k].at = "syncing" /\ UNCHANGED <<lists, passes>>
  BY DEF Current!SyncOne
<1>. PICK left \in SUBSET AllRows : left = series[k].left \ {x}
  BY SeriesFields
<1>. PICK at \in {"done", "syncing"} :
       at = IF series[k].left = {x} THEN "done" ELSE "syncing"
  OBVIOUS
<1>2. at = "done" => left = {}
  OBVIOUS
<1>. DEFINE s == [series[k] EXCEPT !.left = left, !.tries = 0, !.at = at]
<1>3. series' = [series EXCEPT ![k] = s]
  BY DEF PassInv
<1>4. /\ s \in SeriesRecord /\ s.at = at /\ s.left = left /\ s.listed = series[k].listed
  <2>1. series[k] \in SeriesRecord /\ 0 \in 0..(MaxTries - 1)
    BY SeriesFields
  <2>. QED
    BY <2>1 DEF SeriesRecord
<1>. HIDE DEF s
<1>5. HasSynced(s, synced')
  BY <1>1, <1>2, <1>4, SeriesFields DEF HasSynced
<1>. QED
  BY <1>1, <1>3, <1>4, <1>5, SeriesMoves DEF PassInv

\* An attempt that fails is made again, or ends the series and the call
LEMMA SyncFailsKeeps ==
  ASSUME PassInv, NEW k \in Current!Kinds, Current!SyncFails(k)
  PROVE  PassInv'
<1>1. series[k].at = "syncing" /\ UNCHANGED <<lists, synced>>
  BY DEF Current!SyncFails
<1>2. CASE series[k].tries + 1 < MaxTries
  <2>. PICK n \in 0..(MaxTries - 1) : n = series[k].tries + 1
    BY <1>2, SeriesFields
  <2>. DEFINE s == [series[k] EXCEPT !.tries = n]
  <2>1. series' = [series EXCEPT ![k] = s] /\ passes' = passes
    BY <1>2 DEF Current!SyncFails, PassInv
  <2>2. /\ s \in SeriesRecord /\ s.at = series[k].at /\ s.left = series[k].left
        /\ s.listed = series[k].listed
    BY SeriesFields DEF SeriesRecord
  <2>. HIDE DEF s
  <2>3. HasSynced(s, synced')
    BY <1>1, <2>2, SeriesFields DEF HasSynced
  <2>. QED
    BY <1>1, <2>1, <2>2, <2>3, SeriesMoves DEF PassInv
<1>3. CASE ~(series[k].tries + 1 < MaxTries)
  <2>. DEFINE s == [series[k] EXCEPT !.at = "failed"]
  <2>1. series' = [series EXCEPT ![k] = s] /\ passes' = Current!Ended("failed")
    BY <1>3 DEF Current!SyncFails, Current!GivesUp, PassInv
  <2>2. /\ s \in SeriesRecord /\ s.at = "failed" /\ s.left = series[k].left
        /\ s.listed = series[k].listed
    BY SeriesFields DEF SeriesRecord
  <2>. HIDE DEF s
  <2>3. HasSynced(s, synced')
    BY <1>1, <2>2, SeriesFields DEF HasSynced
  <2>4. <<"failed">> # <<"ok">>
    OBVIOUS
  <2>. QED
    BY <1>1, <2>1, <2>2, <2>3, <2>4, SeriesMoves, EndedFields
<1>. QED
  BY <1>2, <1>3

LEMMA AllDoneKeeps ==
  ASSUME PassInv, Current!AllDone
  PROVE  PassInv'
<1>1. /\ passes' = Current!Ended("ok") /\ UNCHANGED <<lists, series, synced>>
      /\ \A k \in Current!Kinds : series[k].at = "done"
  BY DEF Current!AllDone
<1>2. /\ passes' \in PassRecord
      /\ passes'.answers # <<>> => passes'.at = "answered"
  BY <1>1, EndedFields
<1>3. \A k \in Current!Kinds : HasSynced(series[k], synced)'
  BY <1>1 DEF PassInv, HasSynced
<1>. QED
  BY <1>1, <1>2, <1>3 DEF PassInv

\* One handler of a block moves
LEMMA MinerMoves ==
  ASSUME BlocksInv, NEW w \in Miners, NEW m, miner' = [miner EXCEPT ![w] = m],
         m.at \in {"reading", "writing"} => m.block \in Blocks,
         blocks' \subseteq Blocks, added' \in [Blocks -> Nat],
         \A b \in Blocks : added'[b] <= 1 /\ (b \notin blocks' => added'[b] = 0)
  PROVE  BlocksInv'
<1>1. \A v \in Miners : miner'[v] = IF v = w THEN m ELSE miner[v]
  BY DEF BlocksInv
<1>2. miner' = [v \in Miners |-> miner'[v]]
  BY DEF BlocksInv
<1>. QED
  BY <1>1, <1>2 DEF BlocksInv

\* The put of a block tells of it when it was not there
LEMMA CreateBlockKeeps ==
  ASSUME BlocksInv, NEW w \in Miners, Current!CreateBlock(w)
  PROVE  BlocksInv'
<1>. DEFINE b == miner[w].block
            m == [at |-> "done", stored |-> TRUE]
<1>1. miner' = [miner EXCEPT ![w] = m] /\ m.at = "done" /\ b \in Blocks
  BY DEF Current!CreateBlock, Current!Miner, BlocksInv
<1>. HIDE DEF m
<1>2. CASE miner[w].stored \/ b \in blocks
  <2>1. UNCHANGED <<blocks, added>>
    BY <1>2 DEF Current!CreateBlock
  <2>. QED
    BY <1>1, <2>1, MinerMoves DEF BlocksInv
<1>3. CASE ~(miner[w].stored \/ b \in blocks)
  <2>1. blocks' = blocks \cup {b} /\ added' = [added EXCEPT ![b] = added[b] + 1]
    BY <1>3 DEF Current!CreateBlock
  <2>. HIDE DEF b
  <2>2. added[b] = 0
    BY <1>1, <1>3 DEF BlocksInv
  <2>3. \A c \in Blocks : added'[c] = IF c = b THEN 1 ELSE added[c]
    BY <1>1, <2>1, <2>2 DEF BlocksInv
  <2>4. added' \in [Blocks -> Nat]
    BY <1>1, <2>1, <2>2 DEF BlocksInv
  <2>5. blocks' \subseteq Blocks
    BY <1>1, <2>1 DEF BlocksInv
  <2>6. \A c \in Blocks : added'[c] <= 1 /\ (c \notin blocks' => added'[c] = 0)
    BY <2>1, <2>3 DEF BlocksInv
  <2>. QED
    BY <1>1, <2>4, <2>5, <2>6, MinerMoves
<1>. QED
  BY <1>2, <1>3

LEMMA BlockKeeps ==
  ASSUME BlocksInv, NEW w \in Miners,
         \/ \E b \in Blocks : Current!BlockMined(w, b)
         \/ Current!GetStoredBlock(w) \/ Current!BlockFails(w)
  PROVE  BlocksInv'
<1>1. added' = added
  BY DEF Current!BlockMined, Current!GetStoredBlock, Current!BlockFails
<1>2. CASE \E b \in Blocks : Current!BlockMined(w, b)
  <2>. PICK b \in Blocks : Current!BlockMined(w, b)
    BY <1>2
  <2>. DEFINE m == [at |-> "reading", block |-> b, stored |-> FALSE]
  <2>1. miner' = [miner EXCEPT ![w] = m] /\ m.block \in Blocks /\ blocks' = blocks
    BY DEF Current!BlockMined, Current!Miner
  <2>. HIDE DEF m
  <2>. QED
    BY <1>1, <2>1, MinerMoves DEF BlocksInv
<1>3. CASE Current!GetStoredBlock(w)
  <2>. DEFINE m == [miner[w] EXCEPT !.at = "writing", !.stored = miner[w].block \in blocks]
  <2>1. miner' = [miner EXCEPT ![w] = m] /\ blocks' = blocks
    BY <1>3 DEF Current!GetStoredBlock, Current!Miner
  <2>2. m.block = miner[w].block /\ miner[w].block \in Blocks
    BY <1>3 DEF Current!GetStoredBlock, BlocksInv
  <2>. HIDE DEF m
  <2>. QED
    BY <1>1, <2>1, <2>2, MinerMoves DEF BlocksInv
<1>4. CASE Current!BlockFails(w)
  <2>. DEFINE m == [at |-> "done", stored |-> FALSE]
  <2>1. /\ miner' = [miner EXCEPT ![w] = m] /\ m.at = "done"
        /\ blocks' \in {blocks, blocks \cup {miner[w].block}}
        /\ miner[w].block \in Blocks
    BY <1>4 DEF Current!BlockFails, Current!Miner, BlocksInv
  <2>. HIDE DEF m
  <2>2. blocks \subseteq blocks' /\ blocks' \subseteq Blocks
    BY <2>1 DEF BlocksInv
  <2>. QED
    BY <1>1, <2>1, <2>2, MinerMoves DEF BlocksInv
<1>. QED
  BY <1>2, <1>3, <1>4

LEMMA CurrentBegins ==
  ASSUME lists \subseteq Edges \cup Keys \cup Contacts, Current!NotCalled
  PROVE  PassInv /\ BlocksInv
<1>1. MaxTries \in Nat \ {0}
  BY DEF Current!RecordsAssumption
<1>2. /\ Current!Waiting \in SeriesRecord
      /\ Current!Waiting.listed = {} /\ Current!Waiting.left = {}
      /\ Current!Waiting.at = "waiting"
  BY <1>1 DEF Current!Waiting, SeriesRecord
<1>3. passes \in PassRecord /\ passes.answers = <<>>
  BY DEF Current!NotCalled, PassRecord
<1>4. series = [k \in Current!Kinds |-> Current!Waiting] /\ synced = {}
  BY DEF Current!NotCalled
<1>5. PassInv
  BY <1>2, <1>3, <1>4 DEF PassInv, HasSynced
<1>6. BlocksInv
  BY DEF Current!NotCalled, BlocksInv
<1>. QED
  BY <1>5, <1>6

LEMMA CurrentKeeps ==
  ASSUME PassInv, BlocksInv, Current!Next \/ UNCHANGED current
  PROVE  PassInv' /\ BlocksInv'
<1>1. ASSUME UNCHANGED Current!pass
      PROVE  PassInv'
  <2>1. UNCHANGED <<lists, passes, series, synced>>
    BY <1>1 DEF Current!pass
  <2>. QED
    BY <2>1 DEF PassInv, HasSynced
<1>2. ASSUME UNCHANGED Current!mining
      PROVE  BlocksInv'
  <2>1. UNCHANGED <<blocks, miner, added>>
    BY <1>2 DEF Current!mining
  <2>. QED
    BY <2>1 DEF BlocksInv
<1>3. CASE UNCHANGED current
  <2>1. UNCHANGED Current!pass /\ UNCHANGED Current!mining
    BY <1>3 DEF current, Current!pass, Current!mining
  <2>. QED
    BY <1>1, <1>2, <2>1
<1>4. CASE \/ Current!Learn \/ Current!Start \/ Current!PassStep
           \/ \E call \in {"graph", "peers"} : Current!LookupFails(call)
  <2>1. UNCHANGED Current!mining
    BY <1>4 DEF Current!Learn, Current!Start, Current!PassStep, Current!GetGraph,
       Current!GetPeers, Current!Lookup, Current!AllDone, Current!SyncOne,
       Current!SyncFails, Current!LookupFails
  <2>2. Current!OfGraph \subseteq Current!Kinds /\ {"peers"} \subseteq Current!Kinds
    BY DEF Current!OfGraph, Current!Kinds
  <2>3. PassInv'
    BY <1>4, <2>2, LearnKeeps, LookupKeeps, LookupFailsKeeps, SyncOneKeeps, SyncFailsKeeps,
       AllDoneKeeps DEF Current!PassStep, Current!GetGraph, Current!GetPeers
  <2>. QED
    BY <1>2, <2>1, <2>3
<1>5. ASSUME NEW w \in Miners,
             \/ \E b \in Blocks : Current!BlockMined(w, b)
             \/ Current!GetStoredBlock(w) \/ Current!CreateBlock(w) \/ Current!BlockFails(w)
      PROVE  PassInv' /\ BlocksInv'
  <2>1. UNCHANGED Current!pass
    BY <1>5 DEF Current!BlockMined, Current!GetStoredBlock, Current!CreateBlock,
       Current!BlockFails
  <2>. QED
    BY <1>1, <1>5, <2>1, BlockKeeps, CreateBlockKeeps
<1>. QED
  BY <1>3, <1>4, <1>5 DEF Current!Next

LEMMA CurrentFollows ==
  ASSUME PassInv, BlocksInv
  PROVE  Current!CurrentInv
<1>1. Current!TypeOK
  BY SeriesFields DEF PassInv, BlocksInv, PassRecord, HasSynced, Current!TypeOK
<1>2. Current!PassIsWhole
  BY DEF PassInv, HasSynced, Current!PassIsWhole
<1>3. Current!BlocksAreToldOnce
  BY DEF BlocksInv, Current!BlocksAreToldOnce
<1>. QED
  BY <1>1, <1>2, <1>3 DEF Current!CurrentInv

-----------------------------------------------------------------------------
(* Paging *)

Invoice == [at : 1..MaxTime, paid : 0..MaxTime]
Payment == [at : 1..MaxTime, id : Pages!Ids, done : BOOLEAN]

\* Rows are added with the time of a clock that was not set back
InOrder(rows, now) ==
  \A i \in DOMAIN rows :
    /\ rows[i].at <= now
    /\ \A j \in DOMAIN rows : i <= j => rows[i].at <= rows[j].at

\* LND's rows
LedgerInv ==
  /\ clock \in 1..MaxTime
  /\ slipped \in BOOLEAN
  /\ invoices \in [Lnds -> Seq(Invoice)]
  /\ payments \in [Lnds -> Seq(Payment)]
  /\ ~slipped => \A l \in Lnds : InOrder(invoices[l], clock) /\ InOrder(payments[l], clock)

QueryRecord ==
  [at : {"idle", "reading", "looking", "done", "failed"}, news : Nat,
   kind : {"payments", "invoices", "rebalances"}, after : Nat, confirmed : Nat,
   by : SUBSET Lnds, before : {query.before}, looked : {query.looked},
   found : {query.found}]

ReaderRecord == [at : {"idle", "paging", "read"}, offset : Nat, got : Seq(Nat)]

\* The call is under way or answered
Asked == query.at \in {"reading", "looking", "done"}

\* No row can have been passed over
IsInOrder == query.after = 0 \/ ~slipped

\* The rows that were there and wanted when the call began
Sought ==
  IF query.kind = "rebalances" THEN {look[2] : look \in query.before} ELSE query.before

\* A node's rows as far as they are read: those got are wanted, come from the
\* newest to the oldest and not below the offset, and of those that were sought
\* none is missing but for those that are still ahead
IsReadSoFar(l, r) ==
  LET rows == Pages!RowsOf(query.kind, l)
  IN  /\ r.at \in {"paging", "read"}
      /\ query.at # "reading" => r.at = "read"
      /\ \A k \in DOMAIN r.got :
           r.got[k] \in DOMAIN rows /\ Pages!IsWanted(query, rows[r.got[k]])
      /\ \A i, j \in DOMAIN r.got : i < j => r.got[i] > r.got[j]
      /\ r.at = "paging" =>
           /\ r.offset \in 0..Len(rows)
           /\ r.offset = 0 => r.got = <<>>
           /\ \A k \in DOMAIN r.got : r.offset <= r.got[k]
      /\ IsInOrder => \A i \in DOMAIN rows : <<l, i>> \in Sought =>
           \/ \E k \in DOMAIN r.got : r.got[k] = i
           \/ r.at = "paging" /\ (r.offset = 0 \/ i < r.offset)

\* What is found is wanted; of what was wanted at first nothing is lost once it
\* was looked up, and nothing at all in an answer
IsFoundSoFar ==
  /\ query.before \subseteq Pages!Wanted(query)
  /\ query.found \subseteq Pages!Wanted(query)
  /\ query.at = "reading" => query.looked = {} /\ query.found = {}
  /\ query.at = "looking" =>
       /\ query.kind = "rebalances"
       /\ query.looked \subseteq query.by \X Pages!Got
       /\ query.before \cap query.looked \subseteq query.found
  /\ query.at = "done" => (IsInOrder => query.before \subseteq query.found)

\* The inductive invariant of the paging
ReadInv ==
  /\ LedgerInv
  /\ query \in QueryRecord
  /\ reader \in [Lnds -> ReaderRecord]
  /\ query.kind # "invoices" => query.confirmed = 0
  /\ Asked => IsFoundSoFar /\ \A l \in query.by : IsReadSoFar(l, reader[l])

\* A finite set of numbers can be put in order, by the number of those that are
\* not smaller
LEMMA OrderExists ==
  ASSUME NEW S \in SUBSET Nat, IsFiniteSet(S)
  PROVE  \E s \in [1..Cardinality(S) -> S] :
           \A i, j \in 1..Cardinality(S) : i < j => s[i] > s[j]
<1>. DEFINE n == Cardinality(S)
            Above(x) == {y \in S : y >= x}
            rank == [x \in S |-> Cardinality(Above(x))]
<1>1. n \in Nat
  BY FS_CardinalityType
<1>2. ASSUME NEW x \in S
      PROVE  IsFiniteSet(Above(x)) /\ Cardinality(Above(x)) \in 1..n
  <2>1. Above(x) \in SUBSET S /\ x \in Above(x)
    OBVIOUS
  <2>2. IsFiniteSet(Above(x)) /\ Cardinality(Above(x)) <= n
    BY <2>1, FS_Subset
  <2>3. Cardinality(Above(x)) \in Nat
    BY <2>2, FS_CardinalityType
  <2>4. Cardinality(Above(x)) # 0
    BY <2>1, <2>2, FS_EmptySet
  <2>. QED
    BY <1>1, <2>2, <2>3, <2>4
<1>3. ASSUME NEW x \in S, NEW y \in S, x < y
      PROVE  Cardinality(Above(y)) < Cardinality(Above(x))
  <2>1. \A z \in S : z >= y => z >= x
    BY <1>3
  <2>2. Above(y) \in SUBSET Above(x)
    BY <2>1
  <2>3. x \in Above(x) /\ x \notin Above(y)
    BY <1>3
  <2>4. IsFiniteSet(Above(x)) /\ Cardinality(Above(x)) \in 1..n /\ Cardinality(Above(y)) \in 1..n
    BY <1>2
  <2>. HIDE DEF Above, n
  <2>5. Cardinality(Above(y)) <= Cardinality(Above(x))
    BY <2>2, <2>4, FS_Subset
  <2>6. Cardinality(Above(y)) # Cardinality(Above(x))
    BY <2>2, <2>3, <2>4, FS_Subset
  <2>. QED
    BY <1>1, <2>4, <2>5, <2>6
<1>. HIDE DEF n, Above
<1>4. rank \in [S -> 1..n] /\ \A x \in S : rank[x] = Cardinality(Above(x))
  BY <1>2
<1>. HIDE DEF rank
<1>5. \A x, y \in S : rank[x] = rank[y] => x = y
  BY <1>1, <1>3, <1>4
<1>6. rank \in Injection(S, 1..n)
  BY <1>4, <1>5 DEF Injection, IsInjective
<1>7. IsFiniteSet(1..n) /\ Cardinality(1..n) = n
  BY <1>1, FS_Interval
<1>8. rank \in Surjection(S, 1..n)
  BY <1>6, <1>7, FS_Injection DEF n
<1>. DEFINE s == [i \in 1..n |-> CHOOSE x \in S : rank[x] = i]
<1>9. s \in [1..n -> S] /\ \A i \in 1..n : rank[s[i]] = i
  BY <1>8 DEF Surjection
<1>. HIDE DEF s
<1>10. \A i, j \in 1..n : i < j => s[i] > s[j]
  <2>. SUFFICES ASSUME NEW i \in 1..n, NEW j \in 1..n, i < j
                PROVE  s[i] > s[j]
    OBVIOUS
  <2>1. s[i] \in S /\ s[j] \in S /\ rank[s[i]] = i /\ rank[s[j]] = j
    BY <1>9
  <2>2. s[i] \in Nat /\ s[j] \in Nat /\ s[i] # s[j]
    <3>1. i # j
      BY <1>1
    <3>. QED
      BY <2>1, <3>1
  <2>3. ~(s[i] < s[j])
    <3>. SUFFICES ASSUME s[i] < s[j]
                  PROVE  FALSE
      OBVIOUS
    <3>1. rank[s[j]] < rank[s[i]]
      BY <1>3, <1>4, <2>1
    <3>2. j < i
      BY <2>1, <3>1
    <3>3. i \in Nat /\ j \in Nat
      BY <1>1
    <3>. QED
      BY <3>2, <3>3
  <2>4. \A a, b \in Nat : a # b => a < b \/ a > b
    OBVIOUS
  <2>5. s[i] < s[j] \/ s[i] > s[j]
    BY <2>2, <2>4
  <2>. QED
    BY <2>3, <2>5
<1>. QED
  BY <1>9, <1>10 DEF n

\* The rows of a page, newest first: each once
LEMMA NewestFirstFacts ==
  ASSUME NEW S \in SUBSET Nat, IsFiniteSet(S)
  PROVE  LET s == Pages!NewestFirst(S)
         IN  /\ s \in Seq(S)
             /\ \A i, j \in DOMAIN s : i < j => s[i] > s[j]
             /\ \A x \in S : \E k \in DOMAIN s : s[k] = x
<1>. DEFINE n == Cardinality(S)
            s == Pages!NewestFirst(S)
<1>1. n \in Nat /\ IsFiniteSet(1..n) /\ Cardinality(1..n) = n
  BY FS_CardinalityType, FS_Interval
<1>2. Pages!Cardinality(S) = n
  BY DEF Pages!Cardinality, Cardinality
<1>3. s \in [1..n -> S] /\ \A i, j \in 1..n : i < j => s[i] > s[j]
  <2>. HIDE DEF n
  <2>1. s = CHOOSE t \in [1..n -> S] : \A i, j \in 1..n : i < j => t[i] > t[j]
    BY <1>2 DEF Pages!NewestFirst
  <2>2. \E t \in [1..n -> S] : \A i, j \in 1..n : i < j => t[i] > t[j]
    BY OrderExists DEF n
  <2>. HIDE DEF s
  <2>. QED
    BY <2>1, <2>2
<1>. HIDE DEF s
<1>4. \A i, j \in 1..n : s[i] = s[j] => i = j
  <2>. SUFFICES ASSUME NEW i \in 1..n, NEW j \in 1..n, s[i] = s[j], i # j
                PROVE  FALSE
    OBVIOUS
  <2>1. s[i] \in Nat /\ s[j] \in Nat
    BY <1>3
  <2>2. i < j \/ j < i
    BY <1>1
  <2>. QED
    BY <1>3, <2>1, <2>2
<1>5. s \in Injection(1..n, S)
  BY <1>3, <1>4 DEF Injection, IsInjective
<1>6. s \in Surjection(1..n, S)
  BY <1>1, <1>5, FS_Injection
<1>7. s \in Seq(S) /\ DOMAIN s = 1..n
  BY <1>1, <1>3
<1>8. \A x \in S : \E k \in DOMAIN s : s[k] = x
  BY <1>6, <1>7 DEF Surjection
<1>. QED
  BY <1>3, <1>7, <1>8 DEF s

\* What may happen to the rows meanwhile: they are added to, an invoice is paid
\* once, and what a payment has come to stays so
Grows ==
  /\ slipped => slipped'
  /\ \A l \in Lnds :
       /\ DOMAIN invoices[l] \subseteq DOMAIN invoices'[l]
       /\ DOMAIN payments[l] \subseteq DOMAIN payments'[l]
       /\ \A i \in DOMAIN invoices[l] :
            /\ invoices'[l][i].at = invoices[l][i].at
            /\ invoices[l][i].paid # 0 => invoices'[l][i].paid = invoices[l][i].paid
       /\ \A j \in DOMAIN payments[l] :
            /\ payments'[l][j].at = payments[l][j].at
            /\ payments'[l][j].id = payments[l][j].id
            /\ payments[l][j].done => payments'[l][j].done

\* The call is still the same one
SameCall ==
  /\ query'.at = query.at /\ query'.kind = query.kind /\ query'.by = query.by
  /\ query'.after = query.after /\ query'.confirmed = query.confirmed
  /\ query'.before = query.before /\ query'.looked = query.looked
  /\ query'.found = query.found

\* What is wanted, row by row and lookup by lookup
WantedByRow ==
  query.kind # "rebalances" =>
    \A w : w \in Pages!Wanted(query) <=>
      \E l \in query.by : \E i \in DOMAIN Pages!RowsOf(query.kind, l) :
        /\ w = <<l, i>>
        /\ Pages!IsWanted(query, Pages!RowsOf(query.kind, l)[i])

IsRebalance(w) ==
  \E l, m \in query.by : \E i \in DOMAIN invoices[m] : \E j \in DOMAIN payments[l] :
    /\ w = <<l, <<m, i>>>>
    /\ Pages!IsWanted(query, invoices[m][i])
    /\ payments[l][j].id = <<m, i>>
    /\ payments[l][j].done

WantedByLook ==
  query.kind = "rebalances" => \A w : w \in Pages!Wanted(query) <=> IsRebalance(w)

LEMMA WantedRows == WantedByRow
<1>. SUFFICES ASSUME query.kind # "rebalances"
              PROVE  \A w : w \in Pages!Wanted(query) <=>
                       \E l \in query.by : \E i \in DOMAIN Pages!RowsOf(query.kind, l) :
                         /\ w = <<l, i>>
                         /\ Pages!IsWanted(query, Pages!RowsOf(query.kind, l)[i])
  BY DEF WantedByRow
<1>1. Pages!Wanted(query) = UNION {Pages!Rows(query, l) : l \in query.by}
  BY DEF Pages!Wanted
<1>2. \A l : \A w : w \in Pages!Rows(query, l) <=>
        \E i \in DOMAIN Pages!RowsOf(query.kind, l) :
          /\ w = <<l, i>>
          /\ Pages!IsWanted(query, Pages!RowsOf(query.kind, l)[i])
  BY DEF Pages!Rows
<1>. QED
  BY <1>1, <1>2

LEMMA WantedLooks == WantedByLook
<1>. SUFFICES ASSUME query.kind = "rebalances"
              PROVE  \A w : w \in Pages!Wanted(query) <=> IsRebalance(w)
  BY DEF WantedByLook
<1>1. Pages!Wanted(query) = Pages!Rebalances(query)
  BY DEF Pages!Wanted
<1>2. \A m : Pages!RowsOf(query.kind, m) = invoices[m]
  BY DEF Pages!RowsOf
<1>3. \A m : \A w : w \in Pages!Rows(query, m) <=>
        \E i \in DOMAIN invoices[m] : w = <<m, i>> /\ Pages!IsWanted(query, invoices[m][i])
  BY <1>2 DEF Pages!Rows
<1>4. \A w : w \in Pages!Rebalances(query) <=>
        \E l \in query.by : \E id \in UNION {Pages!Rows(query, m) : m \in query.by} :
          /\ w = <<l, id>>
          /\ \E j \in DOMAIN payments[l] : payments[l][j].id = id /\ payments[l][j].done
  BY DEF Pages!Rebalances
<1>. QED
  BY <1>1, <1>3, <1>4 DEF IsRebalance

\* What was wanted stays so: a payment has no time of its being paid, and none
\* is asked for
LEMMA WantedGrows ==
  ASSUME Grows, SameCall, query \in QueryRecord,
         invoices \in [Lnds -> Seq(Invoice)],
         query.kind = "payments" => query.confirmed = 0
  PROVE  Pages!Wanted(query) \subseteq Pages!Wanted(query)'
<1>1. WantedByRow' /\ WantedByLook'
  BY WantedRows, WantedLooks, PTL
<1>2. query.by \subseteq Lnds /\ query.confirmed \in Nat /\ query.after \in Nat
  BY DEF QueryRecord
<1>3. ASSUME NEW l \in query.by, NEW i \in DOMAIN invoices[l], query.kind # "payments",
             Pages!IsWanted(query, invoices[l][i])
      PROVE  i \in DOMAIN invoices'[l] /\ Pages!IsWanted(query, invoices[l][i])'
  <2>1. /\ i \in DOMAIN invoices'[l]
        /\ invoices'[l][i].at = invoices[l][i].at
        /\ invoices[l][i].paid # 0 => invoices'[l][i].paid = invoices[l][i].paid
    BY <1>2 DEF Grows
  <2>. QED
    BY <1>3, <2>1 DEF SameCall, Pages!IsWanted
<1>4. CASE query.kind = "rebalances"
  <2>. SUFFICES ASSUME NEW w \in Pages!Wanted(query)
                PROVE  w \in Pages!Wanted(query)'
    OBVIOUS
  <2>1. IsRebalance(w)
    BY <1>4, WantedLooks DEF WantedByLook
  <2>. PICK l \in query.by, m \in query.by :
          \E i \in DOMAIN invoices[m] : \E j \in DOMAIN payments[l] :
             /\ w = <<l, <<m, i>>>>
             /\ Pages!IsWanted(query, invoices[m][i])
             /\ payments[l][j].id = <<m, i>>
             /\ payments[l][j].done
    BY <2>1 DEF IsRebalance
  <2>2. PICK i \in DOMAIN invoices[m], j \in DOMAIN payments[l] :
               /\ w = <<l, <<m, i>>>>
               /\ Pages!IsWanted(query, invoices[m][i])
               /\ payments[l][j].id = <<m, i>>
               /\ payments[l][j].done
    OBVIOUS
  <2>3. /\ j \in DOMAIN payments'[l]
        /\ payments'[l][j].id = <<m, i>>
        /\ payments'[l][j].done
    BY <1>2, <2>2 DEF Grows
  <2>4. i \in DOMAIN invoices'[m] /\ Pages!IsWanted(query, invoices[m][i])'
    BY <1>3, <1>4, <2>2
  <2>5. l \in query'.by /\ m \in query'.by /\ query'.kind = "rebalances"
    BY <1>4 DEF SameCall
  <2>. QED
    BY <1>1, <2>2, <2>3, <2>4, <2>5 DEF WantedByLook, IsRebalance
<1>5. CASE query.kind # "rebalances"
  <2>. SUFFICES ASSUME NEW w \in Pages!Wanted(query)
                PROVE  w \in Pages!Wanted(query)'
    OBVIOUS
  <2>. PICK l \in query.by : \E i \in DOMAIN Pages!RowsOf(query.kind, l) :
            /\ w = <<l, i>>
            /\ Pages!IsWanted(query, Pages!RowsOf(query.kind, l)[i])
    BY <1>5, WantedRows DEF WantedByRow
  <2>1. PICK i \in DOMAIN Pages!RowsOf(query.kind, l) :
             /\ w = <<l, i>>
             /\ Pages!IsWanted(query, Pages!RowsOf(query.kind, l)[i])
    OBVIOUS
  <2>2. /\ i \in DOMAIN Pages!RowsOf(query.kind, l)'
        /\ Pages!IsWanted(query, Pages!RowsOf(query.kind, l)[i])'
    <3>1. CASE query.kind = "payments"
      <4>1. Pages!RowsOf(query.kind, l) = payments[l] /\ Pages!RowsOf(query.kind, l)' = payments'[l]
        BY <3>1 DEF Pages!RowsOf, SameCall
      <4>2. i \in DOMAIN payments'[l] /\ payments'[l][i].at = payments[l][i].at
        BY <1>2, <2>1, <4>1 DEF Grows
      <4>. QED
        BY <2>1, <3>1, <4>1, <4>2 DEF SameCall, Pages!IsWanted
    <3>2. CASE query.kind # "payments"
      <4>1. Pages!RowsOf(query.kind, l) = invoices[l] /\ Pages!RowsOf(query.kind, l)' = invoices'[l]
        BY <3>2 DEF Pages!RowsOf, SameCall
      <4>. QED
        BY <1>3, <2>1, <3>2, <4>1
    <3>. QED
      BY <3>1, <3>2
  <2>3. l \in query'.by /\ query'.kind # "rebalances"
    BY <1>5 DEF SameCall
  <2>. QED
    BY <1>1, <2>1, <2>2, <2>3 DEF WantedByRow
<1>. QED
  BY <1>4, <1>5

\* What was sought is a row that is wanted, of a node that is asked
LEMMA SoughtIsWanted ==
  ASSUME query.before \subseteq Pages!Wanted(query), NEW l, NEW i, <<l, i>> \in Sought
  PROVE  /\ l \in query.by
         /\ i \in DOMAIN Pages!RowsOf(query.kind, l)
         /\ Pages!IsWanted(query, Pages!RowsOf(query.kind, l)[i])
<1>1. CASE query.kind = "rebalances"
  <2>1. PICK look \in query.before : <<l, i>> = look[2]
    BY <1>1 DEF Sought
  <2>2. IsRebalance(look)
    BY <1>1, WantedLooks DEF WantedByLook
  <2>3. PICK p \in query.by, m \in query.by : \E k \in DOMAIN invoices[m] :
          look = <<p, <<m, k>>>> /\ Pages!IsWanted(query, invoices[m][k])
    BY <2>2 DEF IsRebalance
  <2>4. PICK k \in DOMAIN invoices[m] :
          look = <<p, <<m, k>>>> /\ Pages!IsWanted(query, invoices[m][k])
    BY <2>3
  <2>5. l = m /\ i = k
    BY <2>1, <2>4
  <2>6. Pages!RowsOf(query.kind, l) = invoices[l]
    BY <1>1 DEF Pages!RowsOf
  <2>. QED
    BY <2>4, <2>5, <2>6
<1>2. CASE query.kind # "rebalances"
  <2>1. <<l, i>> \in Pages!Wanted(query)
    BY <1>2 DEF Sought
  <2>2. PICK m \in query.by : \E k \in DOMAIN Pages!RowsOf(query.kind, m) :
          /\ <<l, i>> = <<m, k>>
          /\ Pages!IsWanted(query, Pages!RowsOf(query.kind, m)[k])
    BY <1>2, <2>1, WantedRows DEF WantedByRow
  <2>. QED
    BY <2>2
<1>. QED
  BY <1>1, <1>2

\* While LND's rows change, a call goes on as it was
LEMMA MeanwhileIsSame ==
  ASSUME query \in QueryRecord, Pages!Meanwhile
  PROVE  SameCall /\ query' \in QueryRecord' /\ reader' = reader
<1>1. reader' = reader
  BY DEF Pages!Meanwhile
<1>2. CASE query' = query
  BY <1>1, <1>2 DEF SameCall, QueryRecord
<1>3. CASE query' = [query EXCEPT !.news = query.news + 1]
  <2>1. query.news + 1 \in Nat
    BY DEF QueryRecord
  <2>2. SameCall
    BY <1>3 DEF SameCall, QueryRecord
  <2>3. query' \in QueryRecord
    BY <1>3, <2>1 DEF QueryRecord
  <2>. QED
    BY <1>1, <2>2, <2>3 DEF QueryRecord, SameCall
<1>. QED
  BY <1>2, <1>3 DEF Pages!Meanwhile

LEMMA MeanwhileKeeps ==
  ASSUME ReadInv, LedgerInv', Grows, Pages!Meanwhile
  PROVE  ReadInv'
<1>1. SameCall /\ query' \in QueryRecord' /\ reader' = reader
  BY MeanwhileIsSame DEF ReadInv
<1>2. query \in QueryRecord /\ invoices \in [Lnds -> Seq(Invoice)]
      /\ (query.kind # "invoices" => query.confirmed = 0)
      /\ reader \in [Lnds -> ReaderRecord]
  BY DEF ReadInv, LedgerInv
<1>3. Pages!Wanted(query) \subseteq Pages!Wanted(query)'
  BY <1>1, <1>2, WantedGrows
<1>4. Asked' = Asked /\ Sought' = Sought /\ (IsInOrder' => IsInOrder)
      /\ Pages!Got' = Pages!Got
  <2>1. \A l : Pages!GotOf(l)' = Pages!GotOf(l)
    BY <1>1 DEF Pages!GotOf, Pages!ToSet
  <2>. QED
    BY <1>1, <2>1 DEF SameCall, Asked, Sought, IsInOrder, Grows, Pages!Got
<1>5. ASSUME Asked PROVE IsFoundSoFar'
  <2>1. IsFoundSoFar
    BY <1>5 DEF ReadInv
  <2>. QED
    BY <1>1, <1>3, <1>4, <2>1 DEF IsFoundSoFar, SameCall
<1>6. ASSUME Asked, NEW l \in query.by
      PROVE  IsReadSoFar(l, reader[l])'
  <2>. DEFINE r == reader[l]
              rows == Pages!RowsOf(query.kind, l)
              rows2 == Pages!RowsOf(query.kind, l)'
  <2>1. IsReadSoFar(l, r) /\ query.before \subseteq Pages!Wanted(query)
    BY <1>6 DEF ReadInv, IsFoundSoFar
  <2>2. l \in Lnds /\ r \in ReaderRecord
    BY <1>2, <1>6 DEF QueryRecord
  <2>3. /\ rows \in Seq(Invoice) \cup Seq(Payment) 
        /\ rows2 \in Seq(Invoice)' \cup Seq(Payment)'
        /\ \A i \in DOMAIN rows :
             /\ i \in DOMAIN rows2
             /\ Pages!IsWanted(query, rows[i]) => Pages!IsWanted(query', rows2[i])
    <3>1. CASE query.kind = "payments"
      <4>1. rows = payments[l] /\ rows2 = payments'[l]
        BY <1>1, <3>1 DEF Pages!RowsOf, SameCall
      <4>2. \A i \in DOMAIN rows : i \in DOMAIN rows2 /\ rows2[i].at = rows[i].at
        BY <2>2, <4>1 DEF Grows
      <4>3. rows \in Seq(Payment) /\ rows2 \in Seq(Payment)'
        BY <2>2, <4>1 DEF ReadInv, LedgerInv
      <4>. QED
        BY <1>1, <1>2, <3>1, <4>2, <4>3 DEF Pages!IsWanted, SameCall
    <3>2. CASE query.kind # "payments"
      <4>1. rows = invoices[l] /\ rows2 = invoices'[l]
        BY <1>1, <3>2 DEF Pages!RowsOf, SameCall
      <4>2. \A i \in DOMAIN rows :
              /\ i \in DOMAIN rows2 /\ rows2[i].at = rows[i].at
              /\ rows[i].paid # 0 => rows2[i].paid = rows[i].paid
        BY <2>2, <4>1 DEF Grows
      <4>3. rows \in Seq(Invoice) /\ rows2 \in Seq(Invoice)'
        BY <2>2, <4>1 DEF ReadInv, LedgerInv
      <4>. QED
        BY <1>1, <4>2, <4>3 DEF Pages!IsWanted, SameCall
    <3>. QED
      BY <3>1, <3>2
  <2>4. \A i \in DOMAIN rows : <<l, i>> \in Sought =>
          \/ \E k \in DOMAIN r.got : r.got[k] = i
          \/ r.at = "paging" /\ (r.offset = 0 \/ i < r.offset)
          \/ ~IsInOrder
    BY <2>1 DEF IsReadSoFar
  <2>5. \A i : <<l, i>> \in Sought => i \in DOMAIN rows
    BY <2>1, SoughtIsWanted
  <2>6. /\ r.at \in {"paging", "read"}
        /\ query.at # "reading" => r.at = "read"
        /\ \A k \in DOMAIN r.got : r.got[k] \in DOMAIN rows /\ Pages!IsWanted(query, rows[r.got[k]])
        /\ \A i, j \in DOMAIN r.got : i < j => r.got[i] > r.got[j]
        /\ r.at = "paging" =>
             /\ r.offset \in 0..Len(rows)
             /\ r.offset = 0 => r.got = <<>>
             /\ \A k \in DOMAIN r.got : r.offset <= r.got[k]
    BY <2>1 DEF IsReadSoFar
  <2>7. reader'[l] = r /\ query'.at = query.at
    BY <1>1 DEF SameCall
  <2>. SUFFICES /\ \A k \in DOMAIN r.got :
                     r.got[k] \in DOMAIN rows2 /\ Pages!IsWanted(query', rows2[r.got[k]])
                /\ r.at = "paging" => r.offset \in 0..Len(rows2)
                /\ IsInOrder' => \A i \in DOMAIN rows2 : <<l, i>> \in Sought' =>
                     \/ \E k \in DOMAIN r.got : r.got[k] = i
                     \/ r.at = "paging" /\ (r.offset = 0 \/ i < r.offset)
    BY <2>6, <2>7 DEF IsReadSoFar
  <2>. HIDE DEF rows2, rows, r
  <2>8. Len(rows) \in Nat /\ Len(rows2) \in Nat /\ Len(rows) <= Len(rows2)
    <3>1. /\ Len(rows) \in Nat /\ DOMAIN rows = 1..Len(rows)
          /\ Len(rows2) \in Nat /\ DOMAIN rows2 = 1..Len(rows2)
      BY <2>3
    <3>. QED
      BY <2>3, <3>1
  <2>. QED
    BY <1>4, <2>3, <2>4, <2>5, <2>6, <2>8
<1>. QED
  BY <1>1, <1>2, <1>4, <1>5, <1>6 DEF ReadInv, SameCall

\* Appending a row of now, and another time
LEMMA OrderIsKept ==
  ASSUME NEW R, NEW rows \in Seq(R), NEW now \in Nat, InOrder(rows, now),
         \A row \in R : row.at \in Nat
  PROVE  /\ \A row \in R : row.at = now => InOrder(Append(rows, row), now)
         /\ InOrder(rows, now + 1)
<1>1. \A i \in DOMAIN rows : rows[i].at \in Nat /\ rows[i].at <= now
  BY DEF InOrder
<1>2. ASSUME NEW row \in R, row.at = now
      PROVE  InOrder(Append(rows, row), now)
  <2>. DEFINE more == Append(rows, row)
  <2>1. /\ Len(rows) \in Nat /\ DOMAIN rows = 1..Len(rows)
        /\ DOMAIN more = 1..(Len(rows) + 1)
        /\ \A i \in DOMAIN rows : more[i] = rows[i]
        /\ more[Len(rows) + 1] = row
    OBVIOUS
  <2>. HIDE DEF more
  <2>2. \A i \in DOMAIN more : i \in DOMAIN rows \/ i = Len(rows) + 1
    BY <2>1
  <2>. QED
    BY <1>1, <1>2, <2>1, <2>2 DEF InOrder
<1>3. InOrder(rows, now + 1)
  BY <1>1 DEF InOrder
<1>. QED
  BY <1>2, <1>3

\* Rows of the same times are as much in order
LEMMA OrderOfTimes ==
  ASSUME NEW rows, NEW rows2, NEW now, InOrder(rows, now),
         DOMAIN rows2 = DOMAIN rows, \A i \in DOMAIN rows : rows2[i].at = rows[i].at
  PROVE  InOrder(rows2, now)
BY DEF InOrder

\* The payments stay as they are while invoices are added
LEMMA PaymentsAreTyped ==
  ASSUME Pages!Ids \subseteq Pages!Ids',
         payments \in [Lnds -> Seq(Payment)], payments' = payments
  PROVE  payments' \in [Lnds -> Seq(Payment)']
<1>1. Payment \subseteq Payment'
  BY DEF Payment
<1>2. \A S, T : S \subseteq T => \A s \in Seq(S) : s \in Seq(T)
  OBVIOUS
<1>3. \A s \in Seq(Payment) : s \in Seq(Payment)'
  BY <1>1, <1>2
<1>. QED
  BY <1>3

LEMMA ClockMovesKeeps ==
  ASSUME LedgerInv, Pages!ClockMoves
  PROVE  LedgerInv' /\ Grows
<1>1. /\ clock \in 1..MaxTime /\ MaxTime \in Nat
      /\ invoices \in [Lnds -> Seq(Invoice)] /\ payments \in [Lnds -> Seq(Payment)]
      /\ invoices' = invoices /\ payments' = payments
      /\ \/ clock < MaxTime /\ clock' = clock + 1 /\ slipped' = slipped
         \/ clock > 1 /\ clock' = clock - 1 /\ slipped' = TRUE
  BY DEF LedgerInv, Pages!ClockMoves, Pages!PagingAssumption
<1>2. clock' \in 1..MaxTime /\ slipped' \in BOOLEAN /\ (slipped => slipped')
  <2>1. clock' \in 1..MaxTime
    BY <1>1
  <2>2. slipped \in BOOLEAN /\ (slipped' = slipped \/ slipped' = TRUE)
    BY <1>1 DEF LedgerInv
  <2>. QED
    BY <2>1, <2>2
<1>3. Grows
  BY <1>1, <1>2 DEF Grows
<1>4. Pages!Ids' = Pages!Ids
  BY <1>1 DEF Pages!Ids
<1>5. invoices' \in [Lnds -> Seq(Invoice)] /\ payments' \in [Lnds -> Seq(Payment)']
  BY <1>1, <1>4 DEF Payment
<1>6. ASSUME ~slipped', NEW l \in Lnds
      PROVE  InOrder(invoices'[l], clock') /\ InOrder(payments'[l], clock')
  <2>1. ~slipped /\ clock' = clock + 1 /\ clock \in Nat
    BY <1>1, <1>6
  <2>2. invoices[l] \in Seq(Invoice) /\ payments[l] \in Seq(Payment)
    BY <1>1
  <2>3. InOrder(invoices[l], clock) /\ InOrder(payments[l], clock)
    BY <2>1 DEF LedgerInv
  <2>4. (\A row \in Invoice : row.at \in Nat) /\ \A row \in Payment : row.at \in Nat
    BY DEF Invoice, Payment
  <2>. QED
    BY <1>1, <2>1, <2>2, <2>3, <2>4, OrderIsKept
<1>. QED
  BY <1>2, <1>3, <1>5, <1>6 DEF LedgerInv

LEMMA AddInvoiceKeeps ==
  ASSUME LedgerInv, NEW l \in Lnds, Pages!AddInvoice(l)
  PROVE  LedgerInv' /\ Grows
<1>. DEFINE row == [at |-> clock, paid |-> 0]
<1>1. /\ clock \in 1..MaxTime /\ MaxTime \in Nat /\ slipped \in BOOLEAN
      /\ invoices \in [Lnds -> Seq(Invoice)] /\ payments \in [Lnds -> Seq(Payment)]
      /\ payments' = payments /\ clock' = clock /\ slipped' = slipped
      /\ invoices' = [invoices EXCEPT ![l] = Append(invoices[l], row)]
  BY DEF LedgerInv, Pages!AddInvoice, Pages!PagingAssumption
<1>2. row \in Invoice /\ row.at = clock
  BY <1>1 DEF Invoice
<1>. HIDE DEF row
<1>3. /\ \A m \in Lnds : m # l => invoices'[m] = invoices[m]
      /\ invoices'[l] = Append(invoices[l], row)
      /\ invoices[l] \in Seq(Invoice)
      /\ invoices' \in [Lnds -> Seq(Invoice)]
  BY <1>1, <1>2
<1>4. /\ DOMAIN invoices[l] \subseteq DOMAIN invoices'[l]
      /\ \A i \in DOMAIN invoices[l] : invoices'[l][i] = invoices[l][i]
  BY <1>2, <1>3
<1>5. Grows
  <2>1. \A m \in Lnds :
          /\ DOMAIN invoices[m] \subseteq DOMAIN invoices'[m]
          /\ \A i \in DOMAIN invoices[m] : invoices'[m][i] = invoices[m][i]
    BY <1>3, <1>4
  <2>. QED
    BY <1>1, <2>1 DEF Grows
<1>6. Pages!Ids \subseteq Pages!Ids'
  BY <1>5 DEF Pages!Ids, Grows
<1>7. payments' \in [Lnds -> Seq(Payment)']
  BY <1>1, <1>6, PaymentsAreTyped
<1>8. ASSUME ~slipped', NEW m \in Lnds
      PROVE  InOrder(invoices'[m], clock') /\ InOrder(payments'[m], clock')
  <2>1. InOrder(invoices[m], clock) /\ InOrder(payments[m], clock)
    BY <1>1, <1>8 DEF LedgerInv
  <2>2. \A r \in Invoice : r.at \in Nat
    BY DEF Invoice
  <2>3. clock \in Nat
    BY <1>1
  <2>. QED
    BY <1>1, <1>2, <1>3, <2>1, <2>2, <2>3, OrderIsKept
<1>. QED
  BY <1>1, <1>3, <1>5, <1>7, <1>8 DEF LedgerInv

LEMMA SendPaymentKeeps ==
  ASSUME LedgerInv, NEW l \in Lnds, Pages!SendPayment(l)
  PROVE  LedgerInv' /\ Grows
<1>1. PICK id \in Pages!Ids :
        payments' = [payments EXCEPT ![l] =
                       Append(payments[l], [at |-> clock, id |-> id, done |-> FALSE])]
  BY DEF Pages!SendPayment
<1>. DEFINE row == [at |-> clock, id |-> id, done |-> FALSE]
<1>2. /\ clock \in 1..MaxTime /\ MaxTime \in Nat /\ slipped \in BOOLEAN
      /\ invoices \in [Lnds -> Seq(Invoice)] /\ payments \in [Lnds -> Seq(Payment)]
      /\ invoices' = invoices /\ clock' = clock /\ slipped' = slipped
  BY DEF LedgerInv, Pages!SendPayment, Pages!PagingAssumption
<1>3. payments' = [payments EXCEPT ![l] = Append(payments[l], row)]
  BY <1>1
<1>4. row \in Payment /\ row.at = clock
  BY <1>2 DEF Payment
<1>. HIDE DEF row
<1>5. /\ \A m \in Lnds : m # l => payments'[m] = payments[m]
      /\ payments'[l] = Append(payments[l], row)
      /\ payments[l] \in Seq(Payment)
      /\ payments' \in [Lnds -> Seq(Payment)]
  BY <1>2, <1>3, <1>4
<1>6. /\ DOMAIN payments[l] \subseteq DOMAIN payments'[l]
      /\ \A i \in DOMAIN payments[l] : payments'[l][i] = payments[l][i]
  BY <1>4, <1>5
<1>7. Grows
  <2>1. \A m \in Lnds :
          /\ DOMAIN payments[m] \subseteq DOMAIN payments'[m]
          /\ \A i \in DOMAIN payments[m] : payments'[m][i] = payments[m][i]
    BY <1>5, <1>6
  <2>. QED
    BY <1>2, <2>1 DEF Grows
<1>8. Payment' = Payment
  BY <1>2 DEF Payment, Pages!Ids
<1>9. ASSUME ~slipped', NEW m \in Lnds
      PROVE  InOrder(invoices'[m], clock') /\ InOrder(payments'[m], clock')
  <2>1. InOrder(invoices[m], clock) /\ InOrder(payments[m], clock)
    BY <1>2, <1>9 DEF LedgerInv
  <2>2. \A r \in Payment : r.at \in Nat
    BY DEF Payment
  <2>3. clock \in Nat
    BY <1>2
  <2>4. CASE m = l
    <3>1. InOrder(payments[l], clock)
      BY <2>1, <2>4
    <3>2. InOrder(Append(payments[l], row), clock)
      BY <1>4, <1>5, <2>2, <2>3, <3>1, OrderIsKept
    <3>. QED
      BY <1>2, <1>5, <2>1, <2>4, <3>2
  <2>5. CASE m # l
    BY <1>2, <1>5, <2>1, <2>5
  <2>. QED
    BY <2>4, <2>5
<1>. QED
  BY <1>2, <1>5, <1>7, <1>8, <1>9 DEF LedgerInv

LEMMA SettleKeeps ==
  ASSUME LedgerInv, Pages!Settle
  PROVE  LedgerInv' /\ Grows
<1>1. PICK id \in Pages!Ids :
        /\ Pages!InvoiceOf(id).paid = 0
        /\ invoices' = [invoices EXCEPT ![id[1]][id[2]].paid = clock]
  BY DEF Pages!Settle
<1>2. PICK m \in Lnds : id \in {<<m, i>> : i \in DOMAIN invoices[m]}
  BY DEF Pages!Ids
<1>3. PICK k \in DOMAIN invoices[m] : id = <<m, k>>
  BY <1>2
<1>. DEFINE row == [invoices[m][k] EXCEPT !.paid = clock]
            rows == [invoices[m] EXCEPT ![k] = row]
<1>4. invoices' = [invoices EXCEPT ![m] = rows] /\ invoices[m][k].paid = 0
  BY <1>1, <1>3 DEF Pages!InvoiceOf
<1>5. /\ clock \in 1..MaxTime /\ MaxTime \in Nat /\ slipped \in BOOLEAN
      /\ invoices \in [Lnds -> Seq(Invoice)] /\ payments \in [Lnds -> Seq(Payment)]
      /\ payments' = payments /\ clock' = clock /\ slipped' = slipped
  BY DEF LedgerInv, Pages!Settle, Pages!PagingAssumption
<1>6. row \in Invoice /\ row.at = invoices[m][k].at
  <2>1. invoices[m][k] \in Invoice /\ clock \in 0..MaxTime
    BY <1>5
  <2>. QED
    BY <2>1 DEF Invoice
<1>. HIDE DEF row
<1>7. /\ rows \in Seq(Invoice) /\ DOMAIN rows = DOMAIN invoices[m]
      /\ rows[k] = row /\ \A i \in DOMAIN rows : i # k => rows[i] = invoices[m][i]
  BY <1>5, <1>6
<1>. HIDE DEF rows
<1>8. /\ invoices' \in [Lnds -> Seq(Invoice)] /\ invoices'[m] = rows
      /\ \A l \in Lnds : l # m => invoices'[l] = invoices[l]
  BY <1>4, <1>5, <1>7
<1>9. \A l \in Lnds :
        /\ DOMAIN invoices'[l] = DOMAIN invoices[l]
        /\ \A i \in DOMAIN invoices[l] :
             /\ invoices'[l][i].at = invoices[l][i].at
             /\ invoices[l][i].paid # 0 => invoices'[l][i].paid = invoices[l][i].paid
  BY <1>4, <1>6, <1>7, <1>8
<1>10. Grows
  BY <1>5, <1>9 DEF Grows
<1>11. payments' \in [Lnds -> Seq(Payment)']
  <2>1. Pages!Ids \subseteq Pages!Ids'
    BY <1>9 DEF Pages!Ids
  <2>. QED
    BY <1>5, <2>1, PaymentsAreTyped
<1>12. ASSUME ~slipped', NEW l \in Lnds
       PROVE  InOrder(invoices'[l], clock') /\ InOrder(payments'[l], clock')
  <2>1. InOrder(invoices[l], clock) /\ InOrder(payments[l], clock)
    BY <1>5, <1>12 DEF LedgerInv
  <2>. QED
    BY <1>5, <1>9, <2>1, OrderOfTimes
<1>. QED
  BY <1>5, <1>8, <1>10, <1>11, <1>12 DEF LedgerInv

LEMMA ConfirmKeeps ==
  ASSUME LedgerInv, Pages!Confirm
  PROVE  LedgerInv' /\ Grows
<1>. PICK m \in Lnds : \E j \in DOMAIN payments[m] :
       payments' = [payments EXCEPT ![m][j].done = TRUE]
  BY DEF Pages!Confirm
<1>. PICK k \in DOMAIN payments[m] : payments' = [payments EXCEPT ![m][k].done = TRUE]
  OBVIOUS
<1>. DEFINE row == [payments[m][k] EXCEPT !.done = TRUE]
            rows == [payments[m] EXCEPT ![k] = row]
<1>1. payments' = [payments EXCEPT ![m] = rows]
  OBVIOUS
<1>2. /\ clock \in 1..MaxTime /\ MaxTime \in Nat /\ slipped \in BOOLEAN
      /\ invoices \in [Lnds -> Seq(Invoice)] /\ payments \in [Lnds -> Seq(Payment)]
      /\ invoices' = invoices /\ clock' = clock /\ slipped' = slipped
  BY DEF LedgerInv, Pages!Confirm, Pages!PagingAssumption
<1>3. /\ row \in Payment /\ row.done
      /\ row.at = payments[m][k].at /\ row.id = payments[m][k].id
  <2>1. payments[m][k] \in Payment
    BY <1>2
  <2>. QED
    BY <2>1 DEF Payment
<1>. HIDE DEF row
<1>4. /\ rows \in Seq(Payment) /\ DOMAIN rows = DOMAIN payments[m]
      /\ rows[k] = row /\ \A i \in DOMAIN rows : i # k => rows[i] = payments[m][i]
  BY <1>2, <1>3
<1>. HIDE DEF rows
<1>5. /\ payments' \in [Lnds -> Seq(Payment)] /\ payments'[m] = rows
      /\ \A l \in Lnds : l # m => payments'[l] = payments[l]
  BY <1>1, <1>2, <1>4
<1>6. \A l \in Lnds :
        /\ DOMAIN payments'[l] = DOMAIN payments[l]
        /\ \A i \in DOMAIN payments[l] :
             /\ payments'[l][i].at = payments[l][i].at
             /\ payments'[l][i].id = payments[l][i].id
             /\ payments[l][i].done => payments'[l][i].done
  BY <1>3, <1>4, <1>5
<1>7. Grows
  BY <1>2, <1>6 DEF Grows
<1>8. Payment' = Payment
  BY <1>2 DEF Payment, Pages!Ids
<1>9. ASSUME ~slipped', NEW l \in Lnds
      PROVE  InOrder(invoices'[l], clock') /\ InOrder(payments'[l], clock')
  <2>1. InOrder(invoices[l], clock) /\ InOrder(payments[l], clock)
    BY <1>2, <1>9 DEF LedgerInv
  <2>2. /\ DOMAIN payments'[l] = DOMAIN payments[l]
        /\ \A i \in DOMAIN payments[l] : payments'[l][i].at = payments[l][i].at
    BY <1>6
  <2>3. InOrder(payments'[l], clock)
    BY <2>1, <2>2, OrderOfTimes
  <2>. QED
    BY <1>2, <2>1, <2>3
<1>. QED
  BY <1>2, <1>5, <1>7, <1>8, <1>9 DEF LedgerInv

\* A call that begins
BegunRecord ==
  [at : {"reading"}, news : Nat, kind : {"payments", "invoices", "rebalances"},
   after : Nat, confirmed : Nat, by : SUBSET Lnds, before : {{}}, looked : {{}}, found : {{}}]

LEMMA CallKeeps ==
  ASSUME ReadInv, NEW q \in BegunRecord, q.kind # "invoices" => q.confirmed = 0,
         Pages!Call(q)
  PROVE  ReadInv'
<1>1. /\ query' = [q EXCEPT !.before = Pages!Wanted(q)]
      /\ reader' = [l \in Lnds |->
           [Pages!Unread EXCEPT !.at = IF l \in q.by THEN "paging" ELSE "idle"]]
      /\ UNCHANGED <<clock, slipped, invoices, payments>>
  BY DEF Pages!Call, Pages!ledger
<1>2. /\ query'.at = "reading" /\ query'.news = q.news /\ query'.kind = q.kind
      /\ query'.after = q.after /\ query'.confirmed = q.confirmed /\ query'.by = q.by
      /\ query'.before = Pages!Wanted(q) /\ query'.looked = {} /\ query'.found = {}
      /\ query' \in QueryRecord'
  BY <1>1 DEF BegunRecord, QueryRecord
<1>3. \A m : Pages!Rows(query, m)' = Pages!Rows(q, m)
  BY <1>1, <1>2 DEF Pages!Rows, Pages!RowsOf, Pages!IsWanted
<1>4. Pages!Rebalances(query)' = Pages!Rebalances(q)
  BY <1>1, <1>2, <1>3 DEF Pages!Rebalances
<1>5. Pages!Wanted(query)' = Pages!Wanted(q)
  BY <1>2, <1>3, <1>4 DEF Pages!Wanted
<1>6. LedgerInv'
  BY <1>1 DEF ReadInv, LedgerInv, Payment, Pages!Ids
<1>7. IsFoundSoFar'
  BY <1>2, <1>5 DEF IsFoundSoFar
<1>8. ASSUME NEW l \in Lnds
      PROVE  /\ reader'[l] \in ReaderRecord
             /\ reader'[l].got = <<>> /\ reader'[l].offset = 0
             /\ l \in q.by => reader'[l].at = "paging"
  <2>. DEFINE r == [at |-> IF l \in q.by THEN "paging" ELSE "idle", offset |-> 0, got |-> <<>>]
  <2>1. reader'[l] = r
    BY <1>1 DEF Pages!Unread
  <2>2. <<>> \in Seq(Nat)
    OBVIOUS
  <2>3. r \in ReaderRecord
    BY <2>2 DEF ReaderRecord
  <2>. QED
    BY <2>1, <2>3
<1>9. reader' \in [Lnds -> ReaderRecord]
  BY <1>1, <1>8
<1>10. ASSUME NEW l \in q.by
       PROVE  IsReadSoFar(l, reader[l])'
  <2>1. /\ l \in Lnds
        /\ reader'[l].at = "paging" /\ reader'[l].got = <<>> /\ reader'[l].offset = 0
    BY <1>8 DEF BegunRecord
  <2>2. Pages!RowsOf(query.kind, l)' \in Seq(Invoice) \cup Seq(Payment)
    BY <1>1, <2>1 DEF ReadInv, LedgerInv, Pages!RowsOf
  <2>3. 0 \in 0..Len(Pages!RowsOf(query.kind, l)')
    BY <2>2
  <2>4. DOMAIN reader'[l].got = {}
    BY <2>1
  <2>. QED
    BY <1>2, <2>1, <2>3, <2>4 DEF IsReadSoFar
<1>. QED
  BY <1>2, <1>6, <1>7, <1>9, <1>10 DEF ReadInv

LEMMA CallsKeep ==
  ASSUME ReadInv, Pages!GetPayments \/ Pages!GetAllInvoices \/ Pages!GetRebalances
  PROVE  ReadInv'
<1>1. Pages!Starts \subseteq Nat
  BY DEF Pages!Starts, Pages!PagingAssumption
<1>2. Pages!AskedNode \in Lnds
  BY DEF Pages!AskedNode, Pages!PagingAssumption
<1>3. CASE Pages!GetPayments
  <2>1. PICK after \in Pages!Starts :
          Pages!Call([Pages!NoQuery EXCEPT !.at = "reading", !.after = after,
                                           !.by = {Pages!AskedNode}])
    BY <1>3, Zenon DEF Pages!GetPayments
  <2>. DEFINE q == [Pages!NoQuery EXCEPT !.at = "reading", !.after = after,
                                         !.by = {Pages!AskedNode}]
  <2>2. q \in BegunRecord /\ (q.kind # "invoices" => q.confirmed = 0)
    BY <1>1, <1>2 DEF Pages!NoQuery, BegunRecord
  <2>. HIDE DEF q
  <2>. QED
    BY <2>1, <2>2, CallKeeps DEF q
<1>4. CASE Pages!GetAllInvoices
  <2>1. PICK after \in Pages!Starts, confirmed \in Pages!Starts :
          Pages!Call([Pages!NoQuery EXCEPT !.at = "reading", !.kind = "invoices",
                                           !.after = after, !.confirmed = confirmed,
                                           !.by = {Pages!AskedNode}])
    BY <1>4, Zenon DEF Pages!GetAllInvoices
  <2>. DEFINE q == [Pages!NoQuery EXCEPT !.at = "reading", !.kind = "invoices",
                                         !.after = after, !.confirmed = confirmed,
                                         !.by = {Pages!AskedNode}]
  <2>2. q \in BegunRecord /\ q.kind = "invoices"
    BY <1>1, <1>2 DEF Pages!NoQuery, BegunRecord
  <2>. QED
    BY <2>1, <2>2, CallKeeps
<1>5. CASE Pages!GetRebalances
  <2>1. PICK after \in Pages!Starts :
          Pages!Call([Pages!NoQuery EXCEPT !.at = "reading", !.kind = "rebalances",
                                           !.after = after, !.by = Lnds])
    BY <1>5, Zenon DEF Pages!GetRebalances
  <2>. DEFINE q == [Pages!NoQuery EXCEPT !.at = "reading", !.kind = "rebalances",
                                         !.after = after, !.by = Lnds]
  <2>2. q \in BegunRecord /\ (q.kind # "invoices" => q.confirmed = 0)
    BY <1>1 DEF Pages!NoQuery, BegunRecord
  <2>. QED
    BY <2>1, <2>2, CallKeeps
<1>. QED
  BY <1>3, <1>4, <1>5

LEMMA RowsAreTyped ==
  ASSUME LedgerInv, NEW l \in Lnds
  PROVE  LET rows == Pages!RowsOf(query.kind, l)
         IN  /\ rows \in Seq(Invoice) \cup Seq(Payment)
             /\ Len(rows) \in Nat
             /\ DOMAIN rows = 1..Len(rows)
             /\ \A i \in DOMAIN rows : rows[i].at \in Nat
             /\ ~slipped => \A i, j \in DOMAIN rows : i <= j => rows[i].at <= rows[j].at
<1>1. CASE query.kind = "payments"
  <2>1. payments[l] \in Seq(Payment) /\ Pages!RowsOf(query.kind, l) = payments[l]
    BY <1>1 DEF LedgerInv, Pages!RowsOf
  <2>2. \A i \in DOMAIN payments[l] : payments[l][i].at \in Nat
    <3>1. \A row \in Payment : row.at \in Nat
      BY DEF Payment
    <3>. QED
      BY <2>1, <3>1
  <2>3. ~slipped => InOrder(payments[l], clock)
    BY DEF LedgerInv
  <2>. QED
    BY <2>1, <2>2, <2>3 DEF InOrder
<1>2. CASE query.kind # "payments"
  <2>1. invoices[l] \in Seq(Invoice) /\ Pages!RowsOf(query.kind, l) = invoices[l]
    BY <1>2 DEF LedgerInv, Pages!RowsOf
  <2>2. \A i \in DOMAIN invoices[l] : invoices[l][i].at \in Nat
    <3>1. \A row \in Invoice : row.at \in Nat
      BY DEF Invoice
    <3>. QED
      BY <2>1, <3>1
  <2>3. ~slipped => InOrder(invoices[l], clock)
    BY DEF LedgerInv
  <2>. QED
    BY <2>1, <2>2, <2>3 DEF InOrder
<1>. QED
  BY <1>1, <1>2

\* Where a page ends: behind the last row, or before the last one that is read
Top(l) == IF reader[l].offset = 0 THEN Len(Pages!RowsOf(query.kind, l)) + 1 ELSE reader[l].offset

\* The rows of a page, of which there is a first one
LEMMA PageFacts ==
  ASSUME LedgerInv, reader \in [Lnds -> ReaderRecord], NEW l \in Lnds
  PROVE  /\ Top(l) \in Nat
         /\ \A i : i \in Pages!Page(l) <=>
              /\ i \in DOMAIN Pages!RowsOf(query.kind, l)
              /\ Top(l) - Limit <= i /\ i < Top(l)
         /\ IsFiniteSet(Pages!Page(l))
         /\ Pages!Page(l) # {} =>
              /\ Pages!Min(Pages!Page(l)) \in Pages!Page(l)
              /\ \A i \in Pages!Page(l) : Pages!Min(Pages!Page(l)) <= i
<1>. DEFINE rows == Pages!RowsOf(query.kind, l)
            page == Pages!Page(l)
            top == Top(l)
<1>1. Len(rows) \in Nat /\ DOMAIN rows = 1..Len(rows) /\ Limit \in Nat
  BY RowsAreTyped DEF Pages!PagingAssumption
<1>2. top \in Nat
  BY <1>1 DEF Top, ReaderRecord
<1>3. \A i : i \in page <=> i \in DOMAIN rows /\ top - Limit <= i /\ i < top
  BY DEF Pages!Page, Top
<1>. HIDE DEF rows, page, top
<1>4. IsFiniteSet(page)
  <2>1. page \in SUBSET (1..Len(rows))
    BY <1>1, <1>3
  <2>2. IsFiniteSet(1..Len(rows))
    BY <1>1, FS_Interval
  <2>. QED
    BY <2>1, <2>2, FS_Subset
<1>5. ASSUME page # {}
      PROVE  \E x \in page : \A y \in page : x <= y
  <2>1. PICK j : j \in page
    BY <1>5
  <2>. DEFINE x == IF top - Limit >= 1 THEN top - Limit ELSE 1
  <2>2. j \in 1..Len(rows) /\ top - Limit <= j /\ j < top
    BY <1>1, <1>3, <2>1
  <2>3. x \in 1..Len(rows) /\ top - Limit <= x /\ x < top
    BY <1>1, <1>2, <2>2
  <2>4. x \in page
    BY <1>1, <1>3, <2>3
  <2>5. ASSUME NEW y \in page
        PROVE  x <= y
    <3>1. y \in 1..Len(rows) /\ top - Limit <= y
      BY <1>1, <1>3
    <3>. QED
      BY <1>1, <1>2, <3>1
  <2>. HIDE DEF x
  <2>. QED
    BY <2>4, <2>5
<1>6. page # {} => Pages!Min(page) \in page /\ \A y \in page : Pages!Min(page) <= y
  BY <1>5 DEF Pages!Min
<1>. QED
  BY <1>2, <1>3, <1>4, <1>6 DEF rows, page, top

\* A page read of a node that is asked: what was sought and is not on it is
\* ahead, or there would be an older row that is in its way
LEMMA PageIsRead ==
  ASSUME LedgerInv, query \in QueryRecord, reader \in [Lnds -> ReaderRecord],
         query.before \subseteq Pages!Wanted(query), query.at = "reading",
         NEW l \in query.by, IsReadSoFar(l, reader[l]), reader[l].at = "paging",
         NEW news \in Seq(Nat), NEW r \in ReaderRecord, NEW ends \in BOOLEAN,
         \A k \in DOMAIN news :
           /\ news[k] \in Pages!Page(l)
           /\ Pages!IsWanted(query, Pages!RowsOf(query.kind, l)[news[k]]),
         \A i, j \in DOMAIN news : i < j => news[i] > news[j],
         \A i \in Pages!Page(l) :
           Pages!IsWanted(query, Pages!RowsOf(query.kind, l)[i])
             => \E k \in DOMAIN news : news[k] = i,
         ends <=> \/ Pages!Page(l) = {}
                  \/ \E i \in Pages!Page(l) :
                       Pages!IsOld(query, Pages!RowsOf(query.kind, l)[i]),
         ends => r.at = "read",
         ~ends => r.at = "paging" /\ r.offset = Pages!Min(Pages!Page(l)),
         r.got = reader[l].got \o news
  PROVE  IsReadSoFar(l, r)
<1>. DEFINE rows == Pages!RowsOf(query.kind, l)
            page == Pages!Page(l)
            top == Top(l)
            old == reader[l]
            got == r.got
<1>1. l \in Lnds /\ Limit \in Nat \ {0} /\ query.after \in Nat
  BY DEF QueryRecord, Pages!PagingAssumption
<1>2. /\ Len(rows) \in Nat /\ DOMAIN rows = 1..Len(rows)
      /\ \A i \in DOMAIN rows : rows[i].at \in Nat
      /\ ~slipped => \A i, j \in DOMAIN rows : i <= j => rows[i].at <= rows[j].at
  BY <1>1, RowsAreTyped
<1>3. /\ top \in Nat
      /\ \A i : i \in page <=> i \in DOMAIN rows /\ top - Limit <= i /\ i < top
      /\ page # {} => /\ Pages!Min(page) \in page
                      /\ \A i \in page : Pages!Min(page) <= i
  BY <1>1, PageFacts
<1>4. old \in ReaderRecord /\ old.got \in Seq(Nat) /\ old.offset \in Nat
  BY <1>1 DEF ReaderRecord
<1>5. /\ old.offset = 0 => old.got = <<>> /\ top = Len(rows) + 1
      /\ old.offset # 0 => top = old.offset
      /\ \A k \in DOMAIN old.got :
           /\ old.got[k] \in DOMAIN rows /\ Pages!IsWanted(query, rows[old.got[k]])
           /\ old.got[k] >= top
      /\ \A i, j \in DOMAIN old.got : i < j => old.got[i] > old.got[j]
      /\ IsInOrder => \A i \in DOMAIN rows : <<l, i>> \in Sought =>
           (\E k \in DOMAIN old.got : old.got[k] = i) \/ i < top
      /\ top <= Len(rows) + 1
  <2>1. old.offset = 0 => old.got = <<>> /\ top = Len(rows) + 1
    BY DEF IsReadSoFar, Top
  <2>2. old.offset # 0 => top = old.offset
    BY DEF Top
  <2>3. \A k \in DOMAIN old.got :
          old.got[k] \in DOMAIN rows /\ Pages!IsWanted(query, rows[old.got[k]])
    BY DEF IsReadSoFar
  <2>4. \A k \in DOMAIN old.got : old.got[k] >= top
    <3>1. old.offset = 0 => DOMAIN old.got = {}
      BY <2>1
    <3>2. \A k \in DOMAIN old.got : old.offset <= old.got[k] /\ old.got[k] \in Nat
      BY <1>4 DEF IsReadSoFar
    <3>. QED
      BY <1>4, <2>2, <3>1, <3>2
  <2>5. \A i, j \in DOMAIN old.got : i < j => old.got[i] > old.got[j]
    BY DEF IsReadSoFar
  <2>6. IsInOrder => \A i \in DOMAIN rows : <<l, i>> \in Sought =>
           (\E k \in DOMAIN old.got : old.got[k] = i) \/ i < top
    <3>1. IsInOrder => \A i \in DOMAIN rows : <<l, i>> \in Sought =>
            \/ \E k \in DOMAIN old.got : old.got[k] = i
            \/ old.offset = 0 \/ i < old.offset
      BY DEF IsReadSoFar
    <3>. QED
      BY <1>2, <2>1, <2>2, <3>1
  <2>7. top <= Len(rows) + 1
    <3>1. old.offset \in 0..Len(rows)
      BY DEF IsReadSoFar
    <3>. QED
      BY <1>2, <2>1, <2>2, <3>1
  <2>. QED
    BY <2>1, <2>2, <2>3, <2>4, <2>5, <2>6, <2>7
<1>6. \A i \in DOMAIN rows : <<l, i>> \in Sought => Pages!IsWanted(query, rows[i])
  BY SoughtIsWanted
<1>7. \A i \in page : Pages!IsWanted(query, rows[i]) => \E k \in DOMAIN news : news[k] = i
  OBVIOUS
<1>8. \A k \in DOMAIN news : news[k] \in page /\ Pages!IsWanted(query, rows[news[k]])
  OBVIOUS
<1>9. ends <=> page = {} \/ \E i \in page : Pages!IsOld(query, rows[i])
  OBVIOUS
<1>10. /\ DOMAIN got = 1..(Len(old.got) + Len(news))
       /\ Len(old.got) \in Nat /\ Len(news) \in Nat
       /\ DOMAIN old.got = 1..Len(old.got) /\ DOMAIN news = 1..Len(news)
       /\ \A k \in 1..Len(old.got) : got[k] = old.got[k]
       /\ \A k \in 1..Len(news) : got[Len(old.got) + k] = news[k]
  BY <1>4
<1>11. ~ends => r.at = "paging" /\ r.offset = Pages!Min(page)
  OBVIOUS
<1>. HIDE DEF rows, page, top, old, got
<1>12. \A k \in DOMAIN got : (k \in DOMAIN old.got /\ got[k] = old.got[k])
                          \/ \E m \in DOMAIN news : k = Len(old.got) + m /\ got[k] = news[m]
  <2>. SUFFICES ASSUME NEW k \in DOMAIN got, k \notin DOMAIN old.got
                PROVE  \E m \in DOMAIN news : k = Len(old.got) + m /\ got[k] = news[m]
    BY <1>10
  <2>1. k - Len(old.got) \in 1..Len(news) /\ k = Len(old.got) + (k - Len(old.got))
    BY <1>10
  <2>. QED
    BY <1>10, <2>1
<1>20. \A m \in DOMAIN news : Len(old.got) + m \in DOMAIN got /\ got[Len(old.got) + m] = news[m]
  <2>. SUFFICES ASSUME NEW m \in DOMAIN news
                PROVE  Len(old.got) + m \in DOMAIN got /\ got[Len(old.got) + m] = news[m]
    OBVIOUS
  <2>1. m \in 1..Len(news)
    BY <1>10
  <2>2. \A a, b \in Nat : \A c \in 1..b : a + c \in 1..(a + b)
    OBVIOUS
  <2>3. Len(old.got) + m \in 1..(Len(old.got) + Len(news))
    <3>1. Len(old.got) \in Nat /\ Len(news) \in Nat
      BY <1>10
    <3>. QED
      BY <2>1, <2>2, <3>1
  <2>4. got[Len(old.got) + m] = news[m]
    <3>1. \A k \in 1..Len(news) : got[Len(old.got) + k] = news[k]
      BY <1>10
    <3>. QED
      BY <2>1, <3>1
  <2>. QED
    <3>1. DOMAIN got = 1..(Len(old.got) + Len(news))
      BY <1>10
    <3>. QED
      BY <2>3, <2>4, <3>1
<1>13. \A k \in DOMAIN got : got[k] \in DOMAIN rows /\ Pages!IsWanted(query, rows[got[k]])
  BY <1>3, <1>5, <1>8, <1>12
<1>14. \A i, j \in DOMAIN got : i < j => got[i] > got[j]
  <2>. SUFFICES ASSUME NEW i \in DOMAIN got, NEW j \in DOMAIN got, i < j
                PROVE  got[i] > got[j]
    OBVIOUS
  <2>1. CASE j \in DOMAIN old.got
    <3>1. i \in DOMAIN old.got
      BY <1>10, <2>1
    <3>2. got[i] = old.got[i] /\ got[j] = old.got[j]
      BY <1>10, <2>1, <3>1
    <3>3. old.got[i] > old.got[j]
      BY <1>5, <2>1, <3>1
    <3>. QED
      BY <3>2, <3>3
  <2>2. CASE i \in DOMAIN old.got /\ j \notin DOMAIN old.got
    <3>1. got[i] >= top /\ got[i] \in DOMAIN rows
      BY <1>5, <1>10, <2>2
    <3>2. got[j] < top /\ got[j] \in DOMAIN rows
      BY <1>3, <1>8, <1>12, <2>2
    <3>. QED
      BY <1>2, <1>3, <3>1, <3>2
  <2>3. CASE i \notin DOMAIN old.got /\ j \notin DOMAIN old.got
    <3>1. PICK m \in DOMAIN news : i = Len(old.got) + m /\ got[i] = news[m]
      BY <1>12, <2>3
    <3>2. PICK n \in DOMAIN news : j = Len(old.got) + n /\ got[j] = news[n]
      BY <1>12, <2>3
    <3>3. m < n
      <4>1. \A a, b, c \in Nat : a + b < a + c => b < c
        OBVIOUS
      <4>2. Len(old.got) + m < Len(old.got) + n
        BY <3>1, <3>2
      <4>3. m \in 1..Len(news) /\ n \in 1..Len(news)
        <5>1. DOMAIN news = 1..Len(news)
          BY <1>10
        <5>. QED
          BY <3>1, <3>2, <5>1
      <4>4. m \in Nat /\ n \in Nat /\ Len(old.got) \in Nat
        <5>1. Len(news) \in Nat /\ Len(old.got) \in Nat
          BY <1>10
        <5>2. \A b \in Nat : \A c \in 1..b : c \in Nat
          OBVIOUS
        <5>. QED
          BY <4>3, <5>1, <5>2
      <4>. QED
        BY <4>1, <4>2, <4>4
    <3>. QED
      BY <3>1, <3>2, <3>3
  <2>. QED
    BY <1>10, <2>1, <2>2, <2>3
<1>15. ASSUME ~ends
       PROVE  /\ r.offset \in 0..Len(rows) /\ r.offset # 0
              /\ \A k \in DOMAIN got : r.offset <= got[k]
  <2>1. r.offset \in page /\ \A i \in page : r.offset <= i
    BY <1>3, <1>9, <1>11, <1>15
  <2>2. r.offset \in 1..Len(rows) /\ r.offset < top
    BY <1>2, <1>3, <2>1
  <2>3. \A k \in DOMAIN got : got[k] \in DOMAIN rows /\ (got[k] >= top \/ got[k] \in page)
    BY <1>5, <1>8, <1>12, <1>13
  <2>4. \A k \in DOMAIN got : r.offset <= got[k]
    BY <1>2, <1>3, <2>1, <2>2, <2>3
  <2>. QED
    BY <1>2, <2>2, <2>4
<1>16. ASSUME IsInOrder, NEW i \in DOMAIN rows, <<l, i>> \in Sought
       PROVE  (\E k \in DOMAIN got : got[k] = i) \/ (~ends /\ i < r.offset)
  <2>1. Pages!IsWanted(query, rows[i])
    BY <1>6, <1>16
  <2>2. CASE \E k \in DOMAIN old.got : old.got[k] = i
    BY <1>10, <2>2
  <2>3. CASE i \in page
    <3>1. PICK k \in DOMAIN news : news[k] = i
      BY <1>7, <2>1, <2>3
    <3>2. Len(old.got) + k \in DOMAIN got /\ got[Len(old.got) + k] = i
      BY <1>20, <3>1
    <3>. QED
      BY <3>2
  <2>4. CASE i < top /\ i \notin page
    <3>1. i < top - Limit /\ i \in 1..Len(rows)
      BY <1>1, <1>2, <1>3, <2>4
    <3>2. \A j \in page : i < j
      BY <1>1, <1>2, <1>3, <3>1
    <3>3. page # {}
      <4>1. top <= Len(rows) + 1
        BY <1>5
      <4>2. top - 1 \in 1..Len(rows) /\ top - Limit <= top - 1 /\ top - 1 < top
        <5>1. \A x, n, k, t \in Nat :
                k # 0 /\ x >= 1 /\ x < t - k /\ t <= n + 1
                  => t - 1 >= 1 /\ t - 1 <= n /\ t - k <= t - 1 /\ t - 1 < t /\ t - 1 \in Nat
          OBVIOUS
        <5>2. i \in Nat /\ i >= 1 /\ Limit # 0 /\ Limit \in Nat
          BY <1>1, <3>1
        <5>. QED
          BY <1>2, <1>3, <3>1, <4>1, <5>1, <5>2
      <4>3. top - 1 \in page
        BY <1>2, <1>3, <4>2
      <4>. QED
        BY <4>3
    <3>4. ASSUME NEW j \in page, Pages!IsOld(query, rows[j])
          PROVE  FALSE
      <4>1. query.after # 0 /\ rows[j].at < query.after
        BY <3>4 DEF Pages!IsOld
      <4>2. ~slipped
        BY <1>16, <4>1 DEF IsInOrder
      <4>3. rows[i].at <= rows[j].at /\ rows[i].at \in Nat /\ rows[j].at \in Nat
        BY <1>2, <1>3, <3>2, <4>2
      <4>4. rows[i].at >= query.after
        BY <2>1 DEF Pages!IsWanted
      <4>. QED
        BY <1>1, <4>1, <4>3, <4>4
    <3>5. ~ends
      BY <1>9, <3>3, <3>4
    <3>6. r.offset \in page
      BY <1>3, <1>11, <3>3, <3>5
    <3>. QED
      BY <3>2, <3>5, <3>6
  <2>. QED
    BY <1>5, <1>16, <2>2, <2>3, <2>4
<1>. QED
  BY <1>11, <1>13, <1>14, <1>15, <1>16 DEF IsReadSoFar, rows, got

LEMMA ReadPageKeeps ==
  ASSUME ReadInv, NEW l \in Lnds, Pages!ReadPage(l)
  PROVE  ReadInv'
<1>. DEFINE rows == Pages!RowsOf(query.kind, l)
            page == Pages!Page(l)
            kept == {i \in page : Pages!IsWanted(query, rows[i])}
            news == Pages!NewestFirst(kept)
<1>1. /\ LedgerInv /\ query \in QueryRecord /\ reader \in [Lnds -> ReaderRecord]
      /\ query.at = "reading" /\ reader[l].at = "paging"
      /\ UNCHANGED <<clock, slipped, invoices, payments, query>>
  BY DEF ReadInv, Pages!ReadPage, Pages!ledger
<1>2. PICK ends \in BOOLEAN :
        ends <=> page = {} \/ \E i \in page : Pages!IsOld(query, rows[i])
  <2>1. (page = {} \/ \E i \in page : Pages!IsOld(query, rows[i])) \in BOOLEAN
    OBVIOUS
  <2>. QED
    BY <2>1, Zenon
<1>. DEFINE r == [at |-> IF ends THEN "read" ELSE "paging",
                  offset |-> IF ends THEN 0 ELSE Pages!Min(page),
                  got |-> reader[l].got \o news]
<1>3. reader' = [reader EXCEPT ![l] = r]
  BY <1>2 DEF Pages!ReadPage
<1>4. /\ IsFiniteSet(page) /\ page \subseteq Nat
      /\ \A i \in page : i \in DOMAIN rows
      /\ ~ends => Pages!Min(page) \in Nat
  <2>1. \A i : i \in page => i \in 1..Len(rows)
    BY <1>1, PageFacts, RowsAreTyped
  <2>2. Len(rows) \in Nat /\ DOMAIN rows = 1..Len(rows)
    BY <1>1, RowsAreTyped
  <2>3. page \subseteq Nat
    BY <2>1
  <2>4. IsFiniteSet(page) /\ (~ends => Pages!Min(page) \in page)
    BY <1>1, <1>2, PageFacts
  <2>. HIDE DEF page, rows
  <2>. QED
    BY <2>1, <2>2, <2>3, <2>4
<1>5. kept \in SUBSET Nat /\ IsFiniteSet(kept) /\ kept \subseteq page
  <2>1. kept \in SUBSET page
    OBVIOUS
  <2>2. IsFiniteSet(kept)
    BY <1>4, <2>1, FS_Subset
  <2>. QED
    BY <1>4, <2>1, <2>2
<1>. HIDE DEF news
<1>6. /\ news \in Seq(kept)
      /\ \A i, j \in DOMAIN news : i < j => news[i] > news[j]
      /\ \A x \in kept : \E k \in DOMAIN news : news[k] = x
  <2>. HIDE DEF kept
  <2>. QED
    BY <1>5, NewestFirstFacts DEF news
<1>7. news \in Seq(Nat) /\ \A k \in DOMAIN news : news[k] \in kept
  <2>1. \A S, T : S \subseteq T => \A s \in Seq(S) : s \in Seq(T)
    OBVIOUS
  <2>2. ASSUME NEW S, NEW s \in Seq(S)
        PROVE  \A k \in DOMAIN s : s[k] \in S
    OBVIOUS
  <2>. HIDE DEF kept
  <2>. QED
    BY <1>5, <1>6, <2>1, <2>2
<1>8. /\ r \in ReaderRecord
      /\ ends => r.at = "read"
      /\ ~ends => r.at = "paging" /\ r.offset = Pages!Min(page)
      /\ r.got = reader[l].got \o news
  <2>1. reader[l].got \in Seq(Nat)
    BY <1>1 DEF ReaderRecord
  <2>2. reader[l].got \o news \in Seq(Nat)
    BY <1>7, <2>1
  <2>. HIDE DEF page
  <2>. QED
    BY <1>4, <2>2 DEF ReaderRecord
<1>. HIDE DEF r
<1>9. ASSUME l \in query.by
      PROVE  IsReadSoFar(l, r)
  <2>1. IsReadSoFar(l, reader[l]) /\ query.before \subseteq Pages!Wanted(query)
    BY <1>1, <1>9 DEF ReadInv, Asked, IsFoundSoFar
  <2>2. \A k \in DOMAIN news : news[k] \in page /\ Pages!IsWanted(query, rows[news[k]])
    BY <1>7
  <2>3. \A i \in page : Pages!IsWanted(query, rows[i]) => \E k \in DOMAIN news : news[k] = i
    BY <1>6
  <2>. QED
    BY <1>1, <1>2, <1>6, <1>7, <1>8, <1>9, <2>1, <2>2, <2>3, PageIsRead
<1>10. reader' \in [Lnds -> ReaderRecord] /\ reader'[l] = r
       /\ \A m \in Lnds : m # l => reader'[m] = reader[m]
  BY <1>1, <1>3, <1>8
<1>11. \A m \in Lnds : Pages!RowsOf(query.kind, m)' = Pages!RowsOf(query.kind, m)
  BY <1>1 DEF Pages!RowsOf
<1>12. ASSUME NEW m \in query.by
       PROVE  IsReadSoFar(m, reader[m])'
  <2>1. m \in Lnds
    BY <1>1 DEF QueryRecord
  <2>2. IsReadSoFar(m, reader'[m])
    <3>1. CASE m = l
      BY <1>9, <1>10, <3>1
    <3>2. CASE m # l
      BY <1>1, <1>10, <2>1, <3>2 DEF ReadInv, Asked
    <3>. QED
      BY <3>1, <3>2
  <2>. QED
    BY <1>1, <1>11, <2>1, <2>2 DEF IsReadSoFar, Sought, IsInOrder
<1>13. IsFoundSoFar'
  <2>1. Pages!Wanted(query)' = Pages!Wanted(query)
    BY <1>1 DEF Pages!Wanted, Pages!Rebalances, Pages!Rows, Pages!RowsOf
  <2>2. IsFoundSoFar
    BY <1>1 DEF ReadInv, Asked
  <2>. QED
    BY <1>1, <2>1, <2>2 DEF IsFoundSoFar
<1>14. LedgerInv' /\ query' \in QueryRecord'
  BY <1>1 DEF LedgerInv, QueryRecord, Payment, Pages!Ids
<1>. QED
  BY <1>1, <1>10, <1>12, <1>13, <1>14 DEF ReadInv

\* What the rows of all nodes make together
LEMMA GotIs ==
  ASSUME NEW w
  PROVE  w \in Pages!Got <=>
           \E l \in query.by : \E k \in DOMAIN reader[l].got : w = <<l, reader[l].got[k]>>
BY DEF Pages!Got, Pages!GotOf, Pages!ToSet

\* All that is got is wanted; once everything is read, nothing that was sought
\* is missing
LEMMA GotIsWhole ==
  ASSUME ReadInv, Asked
  PROVE  /\ query.kind # "rebalances" => Pages!Got \subseteq Pages!Wanted(query)
         /\ \A m, i : <<m, i>> \in Pages!Got =>
              /\ m \in query.by /\ i \in DOMAIN Pages!RowsOf(query.kind, m)
              /\ Pages!IsWanted(query, Pages!RowsOf(query.kind, m)[i])
         /\ \A w \in Pages!Got : \E m, i : w = <<m, i>>
         /\ (IsInOrder /\ \A l \in query.by : reader[l].at = "read")
              => \A m, i : <<m, i>> \in Sought => <<m, i>> \in Pages!Got
<1>1. \A l \in query.by : IsReadSoFar(l, reader[l])
  BY DEF ReadInv
<1>2. query.before \subseteq Pages!Wanted(query)
  BY DEF ReadInv, IsFoundSoFar
<1>3. ASSUME NEW l \in query.by, NEW k \in DOMAIN reader[l].got
      PROVE  /\ reader[l].got[k] \in DOMAIN Pages!RowsOf(query.kind, l)
             /\ Pages!IsWanted(query, Pages!RowsOf(query.kind, l)[reader[l].got[k]])
  BY <1>1 DEF IsReadSoFar
<1>4. ASSUME query.kind # "rebalances", NEW w \in Pages!Got
      PROVE  w \in Pages!Wanted(query)
  <2>1. PICK l \in query.by : \E k \in DOMAIN reader[l].got : w = <<l, reader[l].got[k]>>
    BY GotIs
  <2>2. PICK k \in DOMAIN reader[l].got : w = <<l, reader[l].got[k]>>
    BY <2>1
  <2>. QED
    BY <1>3, <1>4, <2>2, WantedRows DEF WantedByRow
<1>5. ASSUME NEW m, NEW i, <<m, i>> \in Pages!Got
      PROVE  /\ m \in query.by /\ i \in DOMAIN Pages!RowsOf(query.kind, m)
             /\ Pages!IsWanted(query, Pages!RowsOf(query.kind, m)[i])
  <2>1. PICK l \in query.by :
          \E k \in DOMAIN reader[l].got : <<m, i>> = <<l, reader[l].got[k]>>
    BY <1>5, GotIs
  <2>2. PICK k \in DOMAIN reader[l].got : <<m, i>> = <<l, reader[l].got[k]>>
    BY <2>1
  <2>3. m = l /\ i = reader[l].got[k]
    BY <2>2
  <2>. QED
    BY <1>3, <2>3
<1>6. \A w \in Pages!Got : \E m, i : w = <<m, i>>
  BY GotIs
<1>7. ASSUME IsInOrder, \A l \in query.by : reader[l].at = "read",
             NEW m, NEW i, <<m, i>> \in Sought
      PROVE  <<m, i>> \in Pages!Got
  <2>1. m \in query.by /\ i \in DOMAIN Pages!RowsOf(query.kind, m)
    BY <1>2, <1>7, SoughtIsWanted
  <2>2. \E k \in DOMAIN reader[m].got : reader[m].got[k] = i
    BY <1>1, <1>7, <2>1 DEF IsReadSoFar
  <2>. QED
    BY <2>1, <2>2, GotIs
<1>. QED
  BY <1>4, <1>5, <1>6, <1>7

\* The steps that leave LND's rows and the readers alone
LEMMA OnlyTheQueryMoves ==
  ASSUME ReadInv, UNCHANGED <<clock, slipped, invoices, payments, reader>>,
         query' \in QueryRecord', query'.kind = query.kind, query'.by = query.by,
         query'.after = query.after, query'.confirmed = query.confirmed,
         query'.before = query.before, Asked, Asked', query'.at # "reading",
         \A l \in query.by : reader[l].at = "read",
         IsFoundSoFar'
  PROVE  ReadInv'
<1>1. LedgerInv' /\ reader' \in [Lnds -> ReaderRecord]
  BY DEF ReadInv, LedgerInv, Payment, Pages!Ids
<1>2. \A m : Pages!RowsOf(query.kind, m)' = Pages!RowsOf(query.kind, m)
  BY DEF Pages!RowsOf
<1>3. Sought' = Sought /\ (IsInOrder' <=> IsInOrder)
  BY DEF Sought, IsInOrder
<1>4. \A row : Pages!IsWanted(query', row) <=> Pages!IsWanted(query, row)
  BY DEF Pages!IsWanted
<1>5. ASSUME NEW l \in query'.by
      PROVE  IsReadSoFar(l, reader[l])'
  <2>1. IsReadSoFar(l, reader[l]) /\ reader[l].at = "read"
    BY DEF ReadInv
  <2>. QED
    BY <1>2, <1>3, <1>4, <2>1 DEF IsReadSoFar
<1>. QED
  BY <1>1, <1>5 DEF ReadInv

LEMMA WantedIsSame ==
  ASSUME UNCHANGED <<invoices, payments>>, query'.kind = query.kind, query'.by = query.by,
         query'.after = query.after, query'.confirmed = query.confirmed
  PROVE  Pages!Wanted(query)' = Pages!Wanted(query)
<1>1. \A m : Pages!Rows(query, m)' = Pages!Rows(query, m)
  BY DEF Pages!Rows, Pages!RowsOf, Pages!IsWanted
<1>2. Pages!Rebalances(query)' = Pages!Rebalances(query)
  BY <1>1 DEF Pages!Rebalances
<1>. QED
  BY <1>1, <1>2 DEF Pages!Wanted

LEMMA AllReadKeeps ==
  ASSUME ReadInv, Pages!AllRead
  PROVE  ReadInv'
<1>1. /\ query.at = "reading" /\ query \in QueryRecord /\ Asked
      /\ \A l \in query.by : reader[l].at = "read"
      /\ UNCHANGED <<clock, slipped, invoices, payments, reader>>
  BY DEF Pages!AllRead, Pages!ledger, ReadInv, Asked
<1>2. IsFoundSoFar /\ query.looked = {} /\ query.found = {}
  BY <1>1 DEF ReadInv, IsFoundSoFar
<1>3. CASE query.kind = "rebalances"
  <2>1. query' = [query EXCEPT !.at = "looking"]
    BY <1>3 DEF Pages!AllRead
  <2>2. /\ query'.at = "looking" /\ query'.kind = query.kind /\ query'.by = query.by
        /\ query'.after = query.after /\ query'.confirmed = query.confirmed
        /\ query'.before = query.before /\ query'.looked = {} /\ query'.found = {}
        /\ query' \in QueryRecord'
    BY <1>1, <1>2, <2>1 DEF QueryRecord
  <2>3. Pages!Wanted(query)' = Pages!Wanted(query)
    BY <1>1, <2>2, WantedIsSame
  <2>4. IsFoundSoFar'
    BY <1>2, <1>3, <2>2, <2>3 DEF IsFoundSoFar
  <2>. QED
    BY <1>1, <2>2, <2>4, OnlyTheQueryMoves DEF Asked
<1>4. CASE query.kind # "rebalances"
  <2>1. query' = [[query EXCEPT !.at = "done", !.looked = {}] EXCEPT !.found = Pages!Got]
    BY <1>4 DEF Pages!AllRead, Pages!Answered
  <2>2. /\ query'.at = "done" /\ query'.kind = query.kind /\ query'.by = query.by
        /\ query'.after = query.after /\ query'.confirmed = query.confirmed
        /\ query'.before = query.before /\ query'.looked = {} /\ query'.found = Pages!Got
        /\ query' \in QueryRecord'
    BY <1>1, <2>1 DEF QueryRecord
  <2>3. Pages!Wanted(query)' = Pages!Wanted(query)
    BY <1>1, <2>2, WantedIsSame
  <2>4. Pages!Got \subseteq Pages!Wanted(query)
    BY <1>1, <1>4, GotIsWhole
  <2>5. IsInOrder => query.before \subseteq Pages!Got
    <3>. SUFFICES ASSUME IsInOrder, NEW w \in query.before
                  PROVE  w \in Pages!Got
      OBVIOUS
    <3>1. PICK l \in query.by : \E i \in DOMAIN Pages!RowsOf(query.kind, l) : w = <<l, i>>
      BY <1>2, <1>4, WantedRows DEF IsFoundSoFar, WantedByRow
    <3>2. PICK i : w = <<l, i>>
      BY <3>1
    <3>3. <<l, i>> \in Sought
      BY <1>4, <3>2 DEF Sought
    <3>. QED
      BY <1>1, <3>2, <3>3, GotIsWhole
  <2>6. IsInOrder' <=> IsInOrder
    BY <1>1, <2>2 DEF IsInOrder
  <2>7. IsFoundSoFar'
    BY <1>2, <2>2, <2>3, <2>4, <2>5, <2>6 DEF IsFoundSoFar
  <2>. QED
    BY <1>1, <2>2, <2>7, OnlyTheQueryMoves DEF Asked
<1>. QED
  BY <1>3, <1>4

\* Under way to be looked up: everything is read, and what was sought is got
LEMMA LookingIs ==
  ASSUME ReadInv, query.at = "looking"
  PROVE  /\ Asked /\ query \in QueryRecord /\ IsFoundSoFar
         /\ query.kind = "rebalances"
         /\ \A l \in query.by : reader[l].at = "read"
         /\ IsInOrder => query.before \subseteq query.by \X Pages!Got
<1>1. Asked /\ query \in QueryRecord /\ IsFoundSoFar
  BY DEF ReadInv, Asked
<1>2. query.kind = "rebalances"
  BY <1>1 DEF IsFoundSoFar
<1>3. \A l \in query.by : reader[l].at = "read"
  BY <1>1 DEF ReadInv, IsReadSoFar
<1>4. ASSUME IsInOrder, NEW w \in query.before
      PROVE  w \in query.by \X Pages!Got
  <2>1. IsRebalance(w)
    BY <1>1, <1>2, WantedLooks DEF IsFoundSoFar, WantedByLook
  <2>2. PICK l, m \in query.by : \E i \in DOMAIN invoices[m] : w = <<l, <<m, i>>>>
    BY <2>1 DEF IsRebalance
  <2>3. PICK i : w = <<l, <<m, i>>>>
    BY <2>2
  <2>4. w[2] \in Sought /\ w[2] = <<m, i>>
    BY <1>2, <2>3 DEF Sought
  <2>5. <<m, i>> \in Pages!Got
    BY <1>1, <1>3, <1>4, <2>4, GotIsWhole
  <2>. QED
    BY <2>2, <2>3, <2>5
<1>. QED
  BY <1>1, <1>2, <1>3, <1>4

IsPaid(look) ==
  \E j \in DOMAIN payments[look[1]] :
    payments[look[1]][j].id = look[2] /\ payments[look[1]][j].done

LEMMA LookUpKeeps ==
  ASSUME ReadInv, Pages!LookUp
  PROVE  ReadInv'
<1>1. PICK look \in (query.by \X Pages!Got) \ query.looked :
        query' = [query EXCEPT !.looked = query.looked \cup {look},
                               !.found = IF IsPaid(look) THEN query.found \cup {look}
                                         ELSE query.found]
  BY Zenon DEF Pages!LookUp, IsPaid
<1>2. /\ query.at = "looking" /\ UNCHANGED <<clock, slipped, invoices, payments, reader>>
      /\ Asked /\ query \in QueryRecord /\ IsFoundSoFar
      /\ query.kind = "rebalances"
      /\ \A l \in query.by : reader[l].at = "read"
  BY LookingIs DEF Pages!LookUp, Pages!ledger
<1>3. PICK found \in {query.found, query.found \cup {look}} :
        /\ query' = [query EXCEPT !.looked = query.looked \cup {look}, !.found = found]
        /\ IsPaid(look) => look \in found
        /\ ~IsPaid(look) => found = query.found
  <2>1. CASE IsPaid(look)
    BY <1>1, <2>1
  <2>2. CASE ~IsPaid(look)
    BY <1>1, <2>2
  <2>. QED
    BY <2>1, <2>2
<1>4. /\ query'.at = "looking" /\ query'.kind = query.kind /\ query'.by = query.by
      /\ query'.after = query.after /\ query'.confirmed = query.confirmed
      /\ query'.before = query.before /\ query'.looked = query.looked \cup {look}
      /\ query'.found = found
      /\ query' \in QueryRecord'
  BY <1>2, <1>3 DEF QueryRecord
<1>5. Pages!Wanted(query)' = Pages!Wanted(query) /\ Pages!Got' = Pages!Got
  BY <1>2, <1>4, WantedIsSame DEF Pages!Got, Pages!GotOf
<1>6. look \in Pages!Wanted(query) <=> IsPaid(look)
  <2>1. PICK l \in query.by, id \in Pages!Got : look = <<l, id>>
    BY <1>1
  <2>2. PICK m, i : id = <<m, i>>
    BY <1>2, <2>1, GotIsWhole
  <2>3. /\ m \in query.by /\ i \in DOMAIN invoices[m]
        /\ Pages!IsWanted(query, invoices[m][i])
    BY <1>2, <2>1, <2>2, GotIsWhole DEF Pages!RowsOf
  <2>4. look[1] = l /\ look[2] = <<m, i>>
    BY <2>1, <2>2
  <2>5. IsPaid(look) => IsRebalance(look)
    BY <2>1, <2>2, <2>3, <2>4 DEF IsRebalance, IsPaid
  <2>6. IsRebalance(look) => IsPaid(look)
    BY <2>1, <2>2, <2>4 DEF IsRebalance, IsPaid
  <2>. QED
    BY <1>2, <2>5, <2>6, WantedLooks DEF WantedByLook
<1>7. IsFoundSoFar'
  <2>1. found \subseteq Pages!Wanted(query)
    BY <1>2, <1>3, <1>6 DEF IsFoundSoFar
  <2>2. query.before \cap (query.looked \cup {look}) \subseteq found
    BY <1>2, <1>3, <1>6 DEF IsFoundSoFar
  <2>3. query.looked \cup {look} \subseteq query.by \X Pages!Got
    BY <1>1, <1>2 DEF IsFoundSoFar
  <2>. QED
    BY <1>2, <1>4, <1>5, <2>1, <2>2, <2>3 DEF IsFoundSoFar
<1>. QED
  BY <1>2, <1>4, <1>7, OnlyTheQueryMoves DEF Asked

LEMMA AllLookedUpKeeps ==
  ASSUME ReadInv, Pages!AllLookedUp
  PROVE  ReadInv'
<1>1. /\ query.at = "looking" /\ query.looked = query.by \X Pages!Got
      /\ query' = [query EXCEPT !.at = "done", !.looked = {}]
      /\ UNCHANGED <<clock, slipped, invoices, payments, reader>>
  BY DEF Pages!AllLookedUp, Pages!Answered, Pages!ledger
<1>2. /\ Asked /\ query \in QueryRecord /\ IsFoundSoFar
      /\ \A l \in query.by : reader[l].at = "read"
      /\ IsInOrder => query.before \subseteq query.by \X Pages!Got
  BY <1>1, LookingIs
<1>3. /\ query'.at = "done" /\ query'.kind = query.kind /\ query'.by = query.by
      /\ query'.after = query.after /\ query'.confirmed = query.confirmed
      /\ query'.before = query.before /\ query'.looked = {} /\ query'.found = query.found
      /\ query' \in QueryRecord'
  BY <1>1, <1>2 DEF QueryRecord
<1>4. Pages!Wanted(query)' = Pages!Wanted(query) /\ (IsInOrder' <=> IsInOrder)
  BY <1>1, <1>3, WantedIsSame DEF IsInOrder
<1>5. IsInOrder => query.before \subseteq query.found
  BY <1>1, <1>2 DEF IsFoundSoFar
<1>6. IsFoundSoFar'
  BY <1>2, <1>3, <1>4, <1>5 DEF IsFoundSoFar
<1>. QED
  BY <1>1, <1>2, <1>3, <1>6, OnlyTheQueryMoves DEF Asked

LEMMA CallFailsKeeps ==
  ASSUME ReadInv, Pages!CallFails
  PROVE  ReadInv'
<1>1. /\ query' = [Pages!NoQuery EXCEPT !.at = "failed"]
      /\ reader' = [l \in Lnds |-> Pages!Unread]
      /\ UNCHANGED <<clock, slipped, invoices, payments>>
  BY DEF Pages!CallFails, Pages!ledger
<1>2. query'.at = "failed" /\ query'.confirmed = 0 /\ query' \in QueryRecord'
  BY <1>1 DEF Pages!NoQuery, QueryRecord
<1>3. reader' \in [Lnds -> ReaderRecord]
  <2>1. <<>> \in Seq(Nat)
    OBVIOUS
  <2>2. Pages!Unread \in ReaderRecord
    BY <2>1 DEF Pages!Unread, ReaderRecord
  <2>. QED
    BY <1>1, <2>2
<1>4. LedgerInv'
  BY <1>1 DEF ReadInv, LedgerInv, Payment, Pages!Ids
<1>5. ~Asked'
  BY <1>2 DEF Asked
<1>. QED
  BY <1>2, <1>3, <1>4, <1>5 DEF ReadInv

LEMMA PagingBegins ==
  ASSUME Pages!Init
  PROVE  ReadInv
<1>1. /\ clock = 1 /\ slipped = FALSE
      /\ invoices = [l \in Lnds |-> <<>>] /\ payments = [l \in Lnds |-> <<>>]
      /\ query = Pages!NoQuery /\ reader = [l \in Lnds |-> Pages!Unread]
  BY DEF Pages!Init, Pages!NotCalled
<1>2. query \in QueryRecord /\ query.at = "idle" /\ query.confirmed = 0
  BY <1>1 DEF Pages!NoQuery, QueryRecord
<1>3. reader \in [Lnds -> ReaderRecord]
  <2>1. <<>> \in Seq(Nat)
    OBVIOUS
  <2>2. Pages!Unread \in ReaderRecord
    BY <2>1 DEF Pages!Unread, ReaderRecord
  <2>. QED
    BY <1>1, <2>2
<1>4. LedgerInv
  <2>1. 1 \in 1..MaxTime
    BY DEF Pages!PagingAssumption
  <2>2. \A S : <<>> \in Seq(S)
    OBVIOUS
  <2>3. /\ invoices \in [Lnds -> Seq(Invoice)] /\ payments \in [Lnds -> Seq(Payment)]
        /\ \A l \in Lnds : invoices[l] = <<>> /\ payments[l] = <<>>
    BY <1>1, <2>2
  <2>4. InOrder(<<>>, clock)
    BY DEF InOrder
  <2>. QED
    BY <1>1, <2>1, <2>3, <2>4 DEF LedgerInv
<1>5. ~Asked
  BY <1>2 DEF Asked
<1>. QED
  BY <1>2, <1>3, <1>4, <1>5 DEF ReadInv

LEMMA PagingKeeps ==
  ASSUME ReadInv, Pages!Next \/ UNCHANGED paging
  PROVE  ReadInv'
<1>1. CASE UNCHANGED paging
  <2>1. UNCHANGED <<clock, slipped, invoices, payments, query, reader>>
    BY <1>1 DEF paging
  <2>2. /\ query' \in QueryRecord' /\ LedgerInv'
        /\ Asked' = Asked /\ Sought' = Sought /\ IsInOrder' = IsInOrder
    BY <2>1 DEF ReadInv, QueryRecord, LedgerInv, Payment, Pages!Ids, Asked, Sought, IsInOrder
  <2>3. Pages!Wanted(query)' = Pages!Wanted(query) /\ Pages!Got' = Pages!Got
    BY <2>1, WantedIsSame DEF Pages!Got, Pages!GotOf
  <2>4. ASSUME Asked PROVE IsFoundSoFar'
    BY <2>1, <2>2, <2>3, <2>4 DEF ReadInv, IsFoundSoFar
  <2>5. ASSUME Asked, NEW l \in query.by PROVE IsReadSoFar(l, reader[l])'
    <3>1. IsReadSoFar(l, reader[l])
      BY <2>5 DEF ReadInv
    <3>2. Pages!RowsOf(query.kind, l)' = Pages!RowsOf(query.kind, l)
      BY <2>1 DEF Pages!RowsOf
    <3>. QED
      BY <2>1, <2>2, <3>1, <3>2 DEF IsReadSoFar
  <2>. QED
    BY <2>1, <2>2, <2>4, <2>5 DEF ReadInv
<1>2. CASE \/ Pages!ClockMoves \/ Pages!Settle \/ Pages!Confirm
           \/ \E l \in Lnds : Pages!AddInvoice(l) \/ Pages!SendPayment(l)
  <2>1. LedgerInv
    BY DEF ReadInv
  <2>2. Pages!Meanwhile
    BY <1>2 DEF Pages!ClockMoves, Pages!Settle, Pages!Confirm, Pages!AddInvoice,
       Pages!SendPayment
  <2>3. LedgerInv' /\ Grows
    BY <1>2, <2>1, ClockMovesKeeps, AddInvoiceKeeps, SendPaymentKeeps, SettleKeeps, ConfirmKeeps
  <2>. QED
    BY <2>2, <2>3, MeanwhileKeeps
<1>3. CASE Pages!GetPayments \/ Pages!GetAllInvoices \/ Pages!GetRebalances
  BY <1>3, CallsKeep
<1>4. CASE Pages!QueryStep \/ Pages!CallFails
  BY <1>4, ReadPageKeeps, AllReadKeeps, LookUpKeeps, AllLookedUpKeeps, CallFailsKeeps
     DEF Pages!QueryStep
<1>. QED
  BY <1>1, <1>2, <1>3, <1>4 DEF Pages!Next

LEMMA PagingFollows ==
  ASSUME ReadInv
  PROVE  Pages!PagingInv
<1>1. Pages!TypeOK
  BY DEF ReadInv, LedgerInv, Invoice, Payment, QueryRecord, ReaderRecord, Pages!TypeOK
<1>2. ASSUME query.at = "done"
      PROVE  /\ query.found \subseteq Pages!Wanted(query)
             /\ (query.after = 0 \/ ~slipped) => query.before \subseteq query.found
             /\ \A l \in query.by : \A i, j \in DOMAIN reader[l].got :
                  i < j => reader[l].got[i] > reader[l].got[j]
  <2>1. IsFoundSoFar /\ \A l \in query.by : IsReadSoFar(l, reader[l])
    BY <1>2 DEF ReadInv, Asked
  <2>. QED
    BY <1>2, <2>1 DEF IsFoundSoFar, IsReadSoFar, IsInOrder
<1>3. Pages!PagesAreWhole
  BY <1>2 DEF Pages!PagesAreWhole
<1>. QED
  BY <1>1, <1>3 DEF Pages!PagingInv

-----------------------------------------------------------------------------
(* The modules beside one another *)

\* The waits, dials and probes of a connection, in every interleaving with the
\* peer's comings and goings: waitForConnectedPeer is answered once, by
\* whichever of event, error and time limit comes first, says that its peer is
\* missing only for a reason, and acceptsChannelOpen leaves no proposal.
THEOREM ConnectionHolds == MCSpec => []ConnectionInv
<1>1. MCInit => LinkedInv
  BY ConnectionBegins DEF MCInit, NoConnection, Connection!Init
<1>2. LinkedInv /\ [MCNext]_mcvars => LinkedInv'
  <2>. SUFFICES ASSUME LinkedInv, [MCNext]_mcvars
                PROVE  LinkedInv'
    OBVIOUS
  <2>1. Connection!Next \/ UNCHANGED connection
    BY DEF MCNext, mcvars
  <2>. QED
    BY <2>1, ConnectionKeeps
<1>. QED
  BY <1>1, <1>2, ConnectionFollows, PTL DEF MCSpec

\* An update of a channel's fees, whatever other updates and the channel do at
\* the same time: one that ran alone and is answered with success has written
\* what was asked, a fee rate within the buffer of one, and kept every other field
\* (updateChannelFee writes the whole policy, of which the fields not asked for are
\* those it has read).
THEOREM FeeChangeKept == MCSpec => FeeChangeIsKept
<1>1. MCInit => FeeInv
  BY FeesBegin DEF MCInit, NoFees
<1>2. FeeInv /\ [MCNext]_mcvars => FeeInv'
  <2>. SUFFICES ASSUME FeeInv, [MCNext]_mcvars
                PROVE  FeeInv'
    OBVIOUS
  <2>1. Fees!Next \/ UNCHANGED fees
    BY DEF MCNext, mcvars
  <2>. QED
    BY <2>1, FeesKeep
<1>3. FeeInv /\ [MCNext]_mcvars =>
        [\A u \in Updates :
           LET asked == update[u].change  before == update[u].before
           IN  (update[u].result = "none" /\ update'[u].result = "ok" /\ update[u].alone)
                 => \A f \in Fields :
                      \/ f \in DOMAIN asked /\ Fees!IsNear(f, policy'[f], asked[f])
                      \/ f \notin DOMAIN asked \cap Checked /\ policy'[f] = before[f]]_(Fees!vars)
  <2>. SUFFICES ASSUME FeeInv, [MCNext]_mcvars,
                       NEW u \in Updates, update[u].result = "none",
                       update'[u].result = "ok", update[u].alone,
                       NEW f \in Fields
                PROVE  \/ /\ f \in DOMAIN update[u].change
                          /\ Fees!IsNear(f, policy'[f], update[u].change[f])
                       \/ /\ f \notin DOMAIN update[u].change \cap Checked
                          /\ policy'[f] = update[u].before[f]
    OBVIOUS
  <2>1. Fees!Next \/ UNCHANGED fees
    BY DEF MCNext, mcvars
  <2>2. Fees!CheckUpdated(u)
    BY <2>1, OnlyTheCheckSucceeds
  <2>3. policy' = policy /\ update[u].at = "checking"
    BY <2>2 DEF Fees!CheckUpdated, Fees!Ends, Fees!Becomes
  <2>4. \/ policy = update[u].before
        \/ policy \in Fees!Applied(Fees!Merged(update[u].change, update[u].before))
    BY <2>3 DEF FeeInv, KnowsThePolicy
  <2>5. \/ policy[f] = update[u].before[f]
        \/ f \in DOMAIN update[u].change /\ Fees!IsNear(f, policy[f], update[u].change[f])
        \/ /\ f \notin DOMAIN update[u].change
           /\ Fees!IsNear(f, policy[f], update[u].before[f])
    BY <2>4 DEF Fees!Applied, Fees!Merged
  <2>6. f \in DOMAIN update[u].change \cap Checked =>
          Fees!IsNear(f, policy[f], update[u].change[f])
    <3>. DEFINE result == IF \E g \in DOMAIN update[u].change \cap Checked :
                               ~Fees!IsNear(g, policy[g], update[u].change[g])
                          THEN "unapplied"
                          ELSE "ok"
    <3>1. update'[u].result = result
      <4>1. update'[u] = [Fees!Idle EXCEPT !.at = "done", !.result = result]
        BY <2>2 DEF Fees!CheckUpdated, Fees!Ends, Fees!Becomes, FeeInv
      <4>. HIDE DEF result
      <4>. QED
        BY <4>1, IdleFields DEF IsUpdate
    <3>. QED
      BY <3>1
  <2>7. f = FeeRate => f \in DOMAIN update[u].change
    BY <2>2 DEF FeeInv, Fees!CheckUpdated, NamesTheRate, Fees!Running
  <2>8. f # FeeRate /\ Fees!IsNear(f, policy[f], update[u].before[f]) =>
          policy[f] = update[u].before[f]
    BY DEF Fees!IsNear
  <2>. QED
    BY <2>3, <2>5, <2>6, <2>7, <2>8
<1>. QED
  BY <1>1, <1>2, <1>3, PTL DEF MCSpec, FeeChangeIsKept, Fees!FeeChangeIsKept

\* The three loops that poll for channels, whatever happens to the channels
\* between two polls: subscribeToPendingChannels tells of a channel at most once
\* of each kind and never of those of its first poll; the listener of
\* stopAllHtlcs outlives its loop only when a poll has failed, and between two
\* lists lets forwards through no channel but those that opened since.
THEOREM WatchHolds == MCSpec => []WatchInv
<1>1. MCInit => LoopsInv
  <2>. SUFFICES ASSUME MCInit
                PROVE  LoopsInv
    OBVIOUS
  <2>1. CASE NoWatch
    <3>1. life \in [Channels -> Watch!Lives] /\ heard \in BOOLEAN
      BY <2>1 DEF NoWatch, Watch!Lives
    <3>. QED
      BY <2>1, <3>1, LoopsBegin DEF NoWatch
  <2>2. CASE Watch!Init
    <3>1. life \in [Channels -> Watch!Lives] /\ heard \in BOOLEAN
      BY <2>2 DEF Watch!Init, Watch!Lives
    <3>. QED
      BY <2>2, <3>1, LoopsBegin DEF Watch!Init
  <2>. QED
    BY <2>1, <2>2 DEF MCInit
<1>2. LoopsInv /\ [MCNext]_mcvars => LoopsInv'
  <2>. SUFFICES ASSUME LoopsInv, [MCNext]_mcvars
                PROVE  LoopsInv'
    OBVIOUS
  <2>1. Watch!Next \/ UNCHANGED watch
    BY DEF MCNext, mcvars
  <2>. QED
    BY <2>1, LoopsKeep
<1>. QED
  BY <1>1, <1>2, WatchFollows, PTL DEF MCSpec

\* broadcastTransaction and findConfirmedOutput, in any order of blocks, answers
\* and errors and for any lock time: nothing is sent before the lock time has
\* passed, after the first answer of a broadcast no block is listened to (those
\* under way may still fail, and call back), and 'confirmed' is said first and of
\* a confirmed transaction only; the search answers once at most and finds only
\* what was paid.
THEOREM BroadcastHolds == MCSpec => []BroadcastInv
<1>1. MCInit => CastingInv
  <2>. SUFFICES ASSUME MCInit
                PROVE  CastingInv
    OBVIOUS
  <2>1. CASE NoCasting
    <3>1. Casting!NotCalled /\ tx = [lock |-> ByTime, final |-> TRUE, sent |-> FALSE, mined |-> 0]
      BY <2>1 DEF NoCasting
    <3>. QED
      BY <3>1, CastingBegins
  <2>2. CASE Casting!Init
    BY <2>2, CastingBegins DEF Casting!Init, Casting!Transactions
  <2>. QED
    BY <2>1, <2>2 DEF MCInit
<1>2. CastingInv /\ [MCNext]_mcvars => CastingInv'
  <2>. SUFFICES ASSUME CastingInv, [MCNext]_mcvars
                PROVE  CastingInv'
    OBVIOUS
  <2>1. Casting!Next \/ UNCHANGED casting
    BY DEF MCNext, mcvars
  <2>. QED
    BY <2>1, CastingKeeps
<1>. QED
  BY <1>1, <1>2, BroadcastFollows, PTL DEF MCSpec

\* syncCurrentRecords and eventBlockMined: a call that succeeds has synced every
\* row that LND listed for it and leaves no series running, in whatever order
\* lookups, syncs and failed attempts come; of any number of handlers of a block
\* one at most tells of it, and only of a stored one.
THEOREM CurrentHolds == MCSpec => []Current!CurrentInv
<1>1. MCInit => PassInv /\ BlocksInv
  BY CurrentBegins DEF MCInit, NoCurrent, Current!Init
<1>2. PassInv /\ BlocksInv /\ [MCNext]_mcvars => PassInv' /\ BlocksInv'
  <2>. SUFFICES ASSUME PassInv, BlocksInv, [MCNext]_mcvars
                PROVE  PassInv' /\ BlocksInv'
    OBVIOUS
  <2>1. Current!Next \/ UNCHANGED current
    BY DEF MCNext, mcvars
  <2>. QED
    BY <2>1, CurrentKeeps
<1>3. PassInv /\ BlocksInv => Current!CurrentInv
  BY CurrentFollows
<1>. QED
  BY <1>1, <1>2, <1>3, PTL DEF MCSpec

\* The two readers of all LND has: however many pages getPayments, getAllInvoices
\* and getRebalancePayments read while rows are added, paid and confirmed, an
\* answer has every row that was wanted when it was asked for and none that is
\* not, each once, the newest first; and what CurrentHolds says of a pass.
THEOREM AnswersHold == MCSpec => []AnswersAreWhole
<1>1. MCInit => ReadInv
  BY PagingBegins DEF MCInit, NoPaging
<1>2. ReadInv /\ [MCNext]_mcvars => ReadInv'
  <2>. SUFFICES ASSUME ReadInv, [MCNext]_mcvars
                PROVE  ReadInv'
    OBVIOUS
  <2>1. Pages!Next \/ UNCHANGED paging
    BY DEF MCNext, mcvars
  <2>. QED
    BY <2>1, PagingKeeps
<1>3. MCSpec => []Pages!PagingInv
  BY <1>1, <1>2, PagingFollows, PTL DEF MCSpec
<1>. QED
  BY <1>3, CurrentHolds, PTL DEF AnswersAreWhole
=============================================================================
