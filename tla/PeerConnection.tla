---------------------------- MODULE PeerConnection ----------------------------
(***************************************************************************)
(* The calls that look at, wait for and make the connection to one peer:   *)
(* waitForConnectedPeer, connectPeer and acceptsChannelOpen, several at a  *)
(* time over LND's list of peers. A call to LND takes two steps where      *)
(* something may happen between LND's answer and its use.                  *)
(***************************************************************************)
EXTENDS Naturals

CONSTANTS
  Peers,     \* public keys
  Peer,      \* the one the calls are about
  Waits,     \* calls of waitForConnectedPeer
  Dials,     \* calls of connectPeer
  Probes,    \* calls of acceptsChannelOpen
  MaxSockets,
  MaxMoves   \* bound: connections made and lost by themselves, broken streams

ConnectionAssumption ==
  /\ Peer \in Peers
  /\ MaxSockets \in Nat
  /\ MaxMoves \in Nat

VARIABLES linked, moves, wait, dial, probe, proposals

vars == <<linked, moves, wait, dial, probe, proposals>>

Waiting == [at |-> "idle", seen |-> FALSE, listening |-> FALSE,
            timer |-> FALSE, inbox |-> {}, answers |-> 0, excused |-> FALSE,
            result |-> "none"]

Dialing == [at |-> "idle", left |-> 0, result |-> "none"]

NotCalled ==
  /\ moves = 0
  /\ wait = [w \in Waits |-> Waiting]
  /\ dial = [d \in Dials |-> Dialing]
  /\ probe = [b \in Probes |-> "idle"]
  /\ proposals = {}

Init == linked \in SUBSET Peers /\ NotCalled

Running(w) == wait[w].at \notin {"idle", "done"}

\* LND connects to p: every stream of peer events tells it
Connected(p) ==
  /\ linked' = linked \cup {p}
  /\ wait' = [w \in Waits |->
                IF wait[w].listening
                THEN [wait[w] EXCEPT !.inbox = wait[w].inbox \cup {p}]
                ELSE wait[w]]

\* A peer connects, or goes away, by itself
LinkUp(p) ==
  /\ moves < MaxMoves
  /\ p \notin linked
  /\ moves' = moves + 1
  /\ Connected(p)
  /\ UNCHANGED <<dial, probe, proposals>>

LinkDown(p) ==
  /\ moves < MaxMoves
  /\ p \in linked
  /\ moves' = moves + 1
  /\ linked' = linked \ {p}
  /\ wait' = [w \in Waits |->
                [wait[w] EXCEPT !.excused = @ \/ (Running(w) /\ p = Peer)]]
  /\ UNCHANGED <<dial, probe, proposals>>

(***************************************************************************)
(* waitForConnectedPeer                                                    *)
(***************************************************************************)
Becomes(w, r) ==
  /\ wait' = [wait EXCEPT ![w] = r]
  /\ UNCHANGED <<linked, moves, dial, probe, proposals>>

\* `excused' remembers that the time limit was reached or that the peer went
\* away during the call
WaitStart(w) ==
  /\ wait[w].at = "idle"
  /\ Becomes(w, [Waiting EXCEPT !.at = "listing"])

\* LND's answer to getPeers leaves LND
WaitList(w) ==
  /\ wait[w].at = "listing"
  /\ Becomes(w, [wait[w] EXCEPT !.at = "subscribing", !.seen = Peer \in linked])

\* ... and arrives: a connection made in between has no listener yet
WaitSubscribe(w) ==
  /\ wait[w].at = "subscribing"
  /\ IF wait[w].seen
     THEN Becomes(w, [wait[w] EXCEPT !.at = "checking"])
     ELSE Becomes(w, [wait[w] EXCEPT !.at = "waiting", !.listening = TRUE,
                                     !.timer = TRUE])

\* The callback of the subscription, by whichever of its three callers
Answered(r, stage, result) ==
  [r EXCEPT !.at = stage, !.answers = r.answers + 1, !.result = result]

\* A mistake: the timer runs on
ClearedButTimer(r) == [r EXCEPT !.listening = FALSE, !.inbox = {}]

\* done(): the timer is cleared with the listeners
Cleared(r) == [r EXCEPT !.timer = FALSE, !.listening = FALSE, !.inbox = {}]

WaitConnected(w, p) ==
  /\ wait[w].listening
  /\ p \in wait[w].inbox
  /\ Becomes(w, IF p = Peer
                THEN Answered(Cleared(wait[w]), "checking", "none")
                ELSE [wait[w] EXCEPT !.inbox = wait[w].inbox \ {p}])

WaitBreaks(w) ==
  /\ wait[w].listening
  /\ moves < MaxMoves
  /\ moves' = moves + 1
  /\ wait' = [wait EXCEPT ![w] = Answered(Cleared(wait[w]), "done", "failed")]
  /\ UNCHANGED <<linked, dial, probe, proposals>>

WaitTimesOut(w) ==
  /\ wait[w].timer
  /\ Becomes(w, [Answered(Cleared(wait[w]), "checking", "none")
                  EXCEPT !.excused = TRUE])

WaitCheck(w) ==
  /\ wait[w].at = "checking"
  /\ Becomes(w, [wait[w] EXCEPT !.at = "done",
                                !.result = IF Peer \in linked THEN "ok" ELSE "missing"])

WaitCallFails(w) ==
  /\ wait[w].at \in {"listing", "checking"}
  /\ moves < MaxMoves
  /\ moves' = moves + 1
  /\ wait' = [wait EXCEPT ![w].at = "done", ![w].result = "failed"]
  /\ UNCHANGED <<linked, dial, probe, proposals>>

(***************************************************************************)
(* connectPeer                                                             *)
(***************************************************************************)
DialBecomes(d, r) ==
  /\ dial' = [dial EXCEPT ![d] = r]
  /\ UNCHANGED <<moves, probe, proposals>>

DialStart(d) ==
  /\ dial[d].at = "idle"
  /\ DialBecomes(d, [Dialing EXCEPT !.at = "listing"])
  /\ UNCHANGED <<linked, wait>>

DialList(d) ==
  /\ dial[d].at = "listing"
  /\ DialBecomes(d, IF Peer \in linked
                    THEN [dial[d] EXCEPT !.at = "done", !.result = "ok"]
                    ELSE [dial[d] EXCEPT !.at = "sockets"])
  /\ UNCHANGED <<linked, wait>>

\* The sockets given by the caller, or those of the node in the graph
DialSockets(d) ==
  /\ dial[d].at = "sockets"
  /\ \E n \in 0..MaxSockets :
       DialBecomes(d, IF n = 0
                      THEN [dial[d] EXCEPT !.at = "done", !.result = "unknown"]
                      ELSE [dial[d] EXCEPT !.at = "dialing", !.left = n])
  /\ UNCHANGED <<linked, wait>>

\* asyncDetectSeries: the first socket at which LND adds the peer ends it
DialWorks(d) ==
  /\ dial[d].at = "dialing"
  /\ DialBecomes(d, [dial[d] EXCEPT !.at = "done", !.result = "ok"])
  /\ Connected(Peer)

DialFails(d) ==
  /\ dial[d].at = "dialing"
  /\ DialBecomes(d, IF dial[d].left = 1
                    THEN [dial[d] EXCEPT !.at = "done", !.left = 0, !.result = "failed"]
                    ELSE [dial[d] EXCEPT !.left = dial[d].left - 1])
  /\ UNCHANGED <<linked, wait>>

\* A failed getPeers or getNode ends the call
DialCallFails(d) ==
  /\ dial[d].at \in {"listing", "sockets"}
  /\ DialBecomes(d, [dial[d] EXCEPT !.at = "done", !.result = "failed"])
  /\ UNCHANGED <<linked, wait>>

(***************************************************************************)
(* acceptsChannelOpen                                                      *)
(***************************************************************************)
Propose(b) ==
  /\ probe[b] = "idle"
  /\ \/ /\ Peer \in linked
        /\ probe' = [probe EXCEPT ![b] = "proposed"]
        /\ proposals' = proposals \cup {b}
     \/ /\ probe' = [probe EXCEPT ![b] = "refused"]
        /\ UNCHANGED proposals
  /\ UNCHANGED <<linked, moves, wait, dial>>

\* A proposal whose cancellation fails stays with LND and the peer
Cancel(b) ==
  /\ probe[b] = "proposed"
  /\ \/ /\ probe' = [probe EXCEPT ![b] = "accepted"]
        /\ proposals' = proposals \ {b}
     \/ /\ probe' = [probe EXCEPT ![b] = "failed"]
        /\ UNCHANGED proposals
  /\ UNCHANGED <<linked, moves, wait, dial>>

WaitStep(w) ==
  \/ WaitList(w)
  \/ WaitSubscribe(w)
  \/ \E p \in Peers : WaitConnected(w, p)
  \/ WaitTimesOut(w)
  \/ WaitCheck(w)

DialStep(d) ==
  DialList(d) \/ DialSockets(d) \/ DialWorks(d) \/ DialFails(d)

Next ==
  \/ \E p \in Peers : LinkUp(p) \/ LinkDown(p)
  \/ \E w \in Waits :
       WaitStart(w) \/ WaitStep(w) \/ WaitBreaks(w) \/ WaitCallFails(w)
  \/ \E d \in Dials : DialStart(d) \/ DialStep(d) \/ DialCallFails(d)
  \/ \E b \in Probes : Propose(b) \/ Cancel(b)

-----------------------------------------------------------------------------
TypeOK ==
  /\ linked \subseteq Peers
  /\ moves \in 0..MaxMoves
  /\ wait \in [Waits ->
       [at : {"idle", "listing", "subscribing", "waiting", "checking", "done"},
        seen : BOOLEAN, listening : BOOLEAN, timer : BOOLEAN,
        inbox : SUBSET Peers, answers : Nat, excused : BOOLEAN,
        result : {"none", "ok", "missing", "failed"}]]
  /\ dial \in [Dials ->
       [at : {"idle", "listing", "sockets", "dialing", "done"},
        left : 0..MaxSockets,
        result : {"none", "ok", "unknown", "failed"}]]
  /\ probe \in [Probes ->
       {"idle", "proposed", "refused", "accepted", "failed"}]
  /\ proposals \subseteq Probes

\* The connection, the error and the time limit race to one callback, and
\* whichever comes first leaves neither timer nor listener to the others
OneOfThreeAnswers ==
  \A w \in Waits :
    /\ wait[w].answers <= 1
    /\ wait[w].timer = wait[w].listening
    /\ wait[w].listening = (wait[w].at = "waiting")

\* A proposal is with the peer while the probe runs and after a failed
\* cancellation, never after the answer that the peer accepts channels
ProbesLeaveNothing ==
  proposals = {b \in Probes : probe[b] \in {"proposed", "failed"}}

\* A wait says that its peer was not found only after its time limit or after
\* the peer went away during it: a connection made before or during the wait
\* and then held is found, and no other peer's connection ends the wait
MissingOnlyWithReason ==
  \A w \in Waits : wait[w].result = "missing" => wait[w].excused

\* The waits and the probes of a connection, in every interleaving with the
\* peer's comings and goings: TypeOK and the three facts above
ConnectionInv ==
  TypeOK /\ OneOfThreeAnswers /\ ProbesLeaveNothing /\ MissingOnlyWithReason

\* Every wait and every dial ends: the time limit ends the one, the last
\* socket the other
ConnectionCallsEnd ==
  /\ \A w \in Waits : wait[w].at = "listing" ~> wait[w].at = "done"
  /\ \A d \in Dials : dial[d].at = "listing" ~> dial[d].at = "done"

Fairness ==
  /\ \A w \in Waits : WF_vars(WaitStep(w))
  /\ \A d \in Dials : WF_vars(DialStep(d))

Spec == Init /\ [][Next]_vars /\ Fairness
=============================================================================
