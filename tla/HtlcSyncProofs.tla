--------------------------- MODULE HtlcSyncProofs ---------------------------
(***************************************************************************)
(* Theorems about HtlcSync, for any HTLCs, handlers, retries, failures and *)
(* repeated reports.  The invariant is stated HTLC by HTLC: a step of a    *)
(* handler concerns one of them and leaves the others as they are.         *)
(***************************************************************************)
EXTENDS HtlcSync, TLAPS

-----------------------------------------------------------------------------
(* The inductive invariant *)

Handles(t, h) == task[t] # Idle /\ task[t].htlc = h

Announcing(t, h) == Handles(t, h) /\ task[t].pc = "announce"

\* t has created the record of h and is about to say so
Creates(t, h) == Announcing(t, h) /\ task[t].stored = NoRecord

\* What is handled and what is recorded of h are reports that LND has sent; only
\* the revision of a forward gets lost.
FromReports(h) ==
  /\ \A t \in Tasks : Handles(t, h) =>
       /\ task[t].report.at \in 1..sent[h]
       /\ task[t].report = Report(h, task[t].report.at)
  /\ record[h] # NoRecord =>
       /\ record[h].at \in 1..sent[h]
       /\ record[h].state = Reports(h)[record[h].at]
       /\ Kind(h) # "forward" => record[h].rev \in Nat

\* e follows from creating the record of h
OfCreation(h, e) == e = "attempting" \/ Kind(h) = "receive"

\* One handler creates the record, and until it has announced that nobody has.
CreatedOnce(h) ==
  /\ \A t \in Tasks : Creates(t, h) =>
       /\ record[h] # NoRecord
       /\ \A e \in Events : OfCreation(h, e) => emitted[h][e] = 0
  /\ \A t, u \in Tasks : (Creates(t, h) /\ Creates(u, h)) => t = u
  /\ record[h] = NoRecord => \A e \in Events : OfCreation(h, e) => emitted[h][e] = 0
  /\ \A e \in Events : OfCreation(h, e) => emitted[h][e] <= 1

\* Unless a report came again, every report has one handler; once the outcome
\* is out, its handler is done.
ResolvedOnce(h) ==
  repeats = 0 =>
    /\ \A t, u \in Tasks :
         (Handles(t, h) /\ Handles(u, h) /\ task[t].report.at = task[u].report.at) => t = u
    /\ \A e \in Events \ {"attempting"} :
         /\ emitted[h][e] <= 1
         /\ emitted[h][e] = 1 =>
              /\ sent[h] = Len(Reports(h))
              /\ \A t \in Tasks : Handles(t, h) => task[t].report.at # sent[h]

\* Nobody has said that h is recorded
Unannounced(h) == record[h] = NoRecord \/ \E t \in Tasks : Creates(t, h)

\* While the handlers of h have not overlapped there is one at most, it has the
\* last report, and what it read is there still; what it leaves is recorded.
Serial(h) ==
  ~overlap[h] =>
    /\ \A t, u \in Tasks : (Handles(t, h) /\ Handles(u, h)) => t = u
    /\ \A t \in Tasks : Handles(t, h) =>
         /\ task[t].report.at = sent[h]
         /\ task[t].pc = "execute" => task[t].stored = record[h]
         /\ task[t].pc = "announce" => /\ record[h] # NoRecord
                                       /\ record[h].state = task[t].report.state
    /\ faults = 0 => ~lost[h]
    /\ ~lost[h] =>
         /\ (sent[h] > 0 /\ ~Busy(h)) => /\ record[h] # NoRecord
                                         /\ record[h].state = Reports(h)[sent[h]]
         /\ Unannounced(h) => sent[h] <= 1
         /\ (record[h] # NoRecord /\ Kind(h) # "receive") => record[h].mtokens

InFlightFirst(h) == Reports(h)[1] = "inflight"

\* ... and, when no call failed, announced.
Announced(h) ==
  (~overlap[h] /\ faults = 0) =>
    /\ InFlightFirst(h) =>
         emitted[h]["attempting"] = IF Unannounced(h) THEN 0 ELSE 1
    /\ (InFlightFirst(h) \/ Kind(h) = "receive") =>
         emitted[h][Outcome(h)] =
           IF /\ record[h] # NoRecord
              /\ record[h].state = Outcome(h)
              /\ ~\E t \in Tasks : Announcing(t, h) /\ Outcome(h) \in Emits(task[t])
           THEN 1 ELSE 0

Sound(h) ==
  /\ FromReports(h)
  /\ CreatedOnce(h)
  /\ ResolvedOnce(h)
  /\ Serial(h)
  /\ Announced(h)

HtlcIInv == TypeOK /\ \A h \in Htlcs : Sound(h)

-----------------------------------------------------------------------------
(* Types *)

ReportSet == [state : States, at : Nat, mtokens : BOOLEAN]

LEMMA ScriptType ==
  ASSUME TypeOK, NEW h \in Htlcs
  PROVE  /\ Kind(h) \in Kinds
         /\ Reports(h) \in Seq(States)
         /\ Len(Reports(h)) \in Nat
         /\ Len(Reports(h)) > 0
         /\ \A i \in 1..Len(Reports(h)) : Reports(h)[i] = "inflight" <=> i < Len(Reports(h))
         /\ Kind(h) = "receive" => Len(Reports(h)) = 1
<1>1. script[h] \in Scripts /\ script[h] \in [kind : Kinds, reports : Seq(States)]
  BY HtlcSyncAssumption DEF HtlcSyncAssumption, TypeOK
<1>2. ResolvedLast(script[h])
  BY <1>1, HtlcSyncAssumption DEF HtlcSyncAssumption
<1>3. Kind(h) \in Kinds /\ Reports(h) \in Seq(States)
  BY <1>1 DEF Kind, Reports
<1>4. Len(Reports(h)) \in Nat
  BY <1>3
<1>. QED
  BY <1>2, <1>3, <1>4 DEF ResolvedLast, Kind, Reports

LEMMA ReportType ==
  ASSUME TypeOK, NEW h \in Htlcs, NEW i \in 1..Len(Reports(h))
  PROVE  /\ Report(h, i) \in ReportSet
         /\ Report(h, i).at = i
         /\ Report(h, i).state = Reports(h)[i]
         /\ Report(h, i).mtokens <=> i = 1
<1>1. i \in Nat /\ Reports(h)[i] \in States /\ (i = 1) \in BOOLEAN
  BY ScriptType
<1>2. Report(h, i) \in ReportSet
  BY <1>1, Zenon DEF Report, ReportSet
<1>. QED
  BY <1>2 DEF Report

\* The last report is the outcome, and no other one is.
LEMMA OutcomeLast ==
  ASSUME TypeOK, NEW h \in Htlcs, NEW i \in 1..Len(Reports(h))
  PROVE  /\ Outcome(h) \in {"settled", "failed"}
         /\ Reports(h)[i] \in States
         /\ Reports(h)[i] \in {"settled", "failed"} <=> i = Len(Reports(h))
         /\ Reports(h)[i] = Outcome(h) <=> i = Len(Reports(h))
<1>1. Reports(h)[i] \in States /\ Outcome(h) \in States /\ Len(Reports(h)) \in 1..Len(Reports(h))
  BY ScriptType DEF Outcome
<1>2. Outcome(h) # "inflight"
  BY <1>1, ScriptType DEF Outcome
<1>3. Reports(h)[i] = "inflight" <=> i # Len(Reports(h))
  BY ScriptType
<1>. QED
  BY <1>1, <1>2, <1>3 DEF States, Outcome

LEMMA RunningFields ==
  ASSUME TypeOK, NEW t \in Tasks, task[t] # Idle
  PROVE  /\ task[t] \in Running
         /\ task[t].htlc \in Htlcs
         /\ task[t].report \in ReportSet
         /\ task[t].tries \in 1..MaxTries
         /\ task[t].stored \in Record \cup {NoRecord}
BY DEF TypeOK, Running, ReportSet

LEMMA BusyPc ==
  ASSUME TypeOK, NEW t \in Tasks
  PROVE  task[t].pc \in {"getStored", "execute", "announce"} <=> task[t] # Idle
BY DEF TypeOK, Running, Idle

LEMMA AttemptType ==
  ASSUME NEW h \in Htlcs, NEW r \in ReportSet, NEW k \in 1..MaxTries
  PROVE  /\ Attempt(h, r, k) \in Running
         /\ Attempt(h, r, k).htlc = h
         /\ Attempt(h, r, k).report = r
         /\ Attempt(h, r, k).pc = "getStored"
         /\ Attempt(h, r, k) # Idle
BY DEF Attempt, Running, ReportSet, Idle

LEMMA NewRecordType ==
  ASSUME NEW r \in ReportSet
  PROVE  /\ NewRecord(r) \in Record
         /\ NewRecord(r).state = r.state
         /\ NewRecord(r).at = r.at
         /\ NewRecord(r).rev = 0
         /\ NewRecord(r).mtokens = r.mtokens
BY DEF NewRecord, ReportSet, Record

LEMMA NewReceiveType ==
  ASSUME NEW r \in ReportSet
  PROVE  /\ NewReceive(r) \in Record
         /\ NewReceive(r).state = r.state
         /\ NewReceive(r).at = r.at
         /\ NewReceive(r).rev = 1
BY DEF NewReceive, ReportSet, Record

\* The record an update writes: the state and the time of the report, an amount
\* that was there or that the report has.
LEMMA RevisedType ==
  ASSUME NEW r \in Record, NEW st \in States, NEW i \in Nat
  PROVE  [r EXCEPT !.state = st, !.at = i] \in Record
BY DEF Record

LEMMA RevisionType ==
  ASSUME NEW r \in Record, NEW rev \in Nat \cup {Unset}
  PROVE  /\ [r EXCEPT !.rev = rev] \in Record
         /\ [r EXCEPT !.rev = rev].rev = rev
         /\ [r EXCEPT !.rev = rev].state = r.state
         /\ [r EXCEPT !.rev = rev].at = r.at
         /\ r.mtokens => [r EXCEPT !.rev = rev].mtokens
BY DEF Record

LEMMA UpdatedType ==
  ASSUME NEW h, NEW old \in Record, NEW r \in ReportSet
  PROVE  /\ Updated(h, old, r) \in Record
         /\ Updated(h, old, r).state = r.state
         /\ Updated(h, old, r).at = r.at
         /\ Updated(h, old, r).rev = old.rev
         /\ old.mtokens => Updated(h, old, r).mtokens
<1>1. r.state \in States /\ r.at \in Nat /\ (old.mtokens \/ r.mtokens) \in BOOLEAN
  BY DEF ReportSet, Record
<1>2. CASE Kind(h) = "receive"
  <2>1. Updated(h, old, r) = [old EXCEPT !.state = r.state, !.at = r.at]
    BY <1>2 DEF Updated, ReceiveUpdate
  <2>2. Updated(h, old, r) \in Record
    BY <1>1, <2>1, RevisedType
  <2>3. /\ Updated(h, old, r).state = r.state
        /\ Updated(h, old, r).at = r.at
        /\ Updated(h, old, r).rev = old.rev
    BY <2>1 DEF Record
  <2>4. old.mtokens => Updated(h, old, r).mtokens
    BY <2>1 DEF Record
  <2>. QED
    BY <2>2, <2>3, <2>4
<1>3. CASE Kind(h) # "receive"
  <2>0. PICK b \in BOOLEAN : b = (old.mtokens \/ r.mtokens)
    BY <1>1
  <2>1. Updated(h, old, r) = [old EXCEPT !.state = r.state, !.at = r.at, !.mtokens = b]
    BY <1>3, <2>0, Zenon DEF Updated, PaymentUpdate
  <2>2. Updated(h, old, r) \in Record
    BY <1>1, <2>1 DEF Record
  <2>3. /\ Updated(h, old, r).state = r.state
        /\ Updated(h, old, r).at = r.at
        /\ Updated(h, old, r).rev = old.rev
    BY <2>1 DEF Record
  <2>4. old.mtokens => Updated(h, old, r).mtokens
    BY <2>0, <2>1 DEF Record
  <2>. QED
    BY <2>2, <2>3, <2>4
<1>. QED
  BY <1>2, <1>3

\* A retry has the same report as before; otherwise the handler is done.
LEMMA Retried ==
  ASSUME TypeOK, NEW t \in Tasks, task[t] # Idle, RetryOrGiveUp(t)
  PROVE  /\ task' \in [Tasks -> Running \cup {Idle}]
         /\ lost' \in [Htlcs -> BOOLEAN]
         /\ \A u \in Tasks \ {t} : task'[u] = task[u]
         /\ \A h \in Htlcs \ {task[t].htlc} : lost'[h] = lost[h]
         /\ \/ task'[t] = Idle /\ lost'[task[t].htlc]
            \/ /\ Kind(task[t].htlc) # "forward"
               /\ task'[t] # Idle
               /\ task'[t].pc = "getStored"
               /\ task'[t].htlc = task[t].htlc
               /\ task'[t].report = task[t].report
               /\ lost' = lost
<1>1. task[t].htlc \in Htlcs /\ task[t].report \in ReportSet /\ task[t].tries \in Nat
  BY RunningFields
<1>2. CASE Kind(task[t].htlc) # "forward" /\ task[t].tries < MaxTries
  <2>1. task[t].tries + 1 \in 1..MaxTries
    BY <1>1, <1>2, RunningFields, HtlcSyncAssumption DEF HtlcSyncAssumption
  <2> DEFINE next == Attempt(task[t].htlc, task[t].report, task[t].tries + 1)
  <2>2. /\ next \in Running
        /\ next.htlc = task[t].htlc
        /\ next.report = task[t].report
        /\ next.pc = "getStored"
        /\ next # Idle
    BY <1>1, <2>1, AttemptType
  <2>3. task' = [task EXCEPT ![t] = next] /\ lost' = lost
    BY <1>2 DEF RetryOrGiveUp
  <2>. HIDE DEF next
  <2>. QED
    BY <1>2, <2>2, <2>3 DEF TypeOK
<1>3. CASE ~(Kind(task[t].htlc) # "forward" /\ task[t].tries < MaxTries)
  <2>1. task' = [task EXCEPT ![t] = Idle] /\ lost' = [lost EXCEPT ![task[t].htlc] = TRUE]
    BY <1>3 DEF RetryOrGiveUp, Finish
  <2>. QED
    BY <1>1, <2>1 DEF TypeOK
<1>. QED
  BY <1>2, <1>3

\* A delivery starts a handler of the report and changes nothing else.
LEMMA Delivered ==
  ASSUME TypeOK, NEW h \in Htlcs, NEW i \in 1..Len(Reports(h)), Deliver(h, i)
  PROVE  /\ task' \in [Tasks -> Running \cup {Idle}]
         /\ overlap' \in [Htlcs -> BOOLEAN]
         /\ \A g \in Htlcs \ {h} : overlap'[g] = overlap[g]
         /\ ~overlap'[h] => ~overlap[h] /\ ~Busy(h)
         /\ \E t \in Tasks : /\ task[t] = Idle
                             /\ \A u \in Tasks \ {t} : task'[u] = task[u]
                             /\ task'[t] # Idle
                             /\ task'[t].pc = "getStored"
                             /\ task'[t].htlc = h
                             /\ task'[t].report = Report(h, i)
<1>1. PICK t \in Tasks : task[t] = Idle
                         /\ task' = [task EXCEPT ![t] = Attempt(h, Report(h, i), 1)]
  BY DEF Deliver
<1> DEFINE first == Attempt(h, Report(h, i), 1)
<1>2. 1 \in 1..MaxTries
  BY HtlcSyncAssumption DEF HtlcSyncAssumption
<1>3. /\ first \in Running
      /\ first.htlc = h
      /\ first.report = Report(h, i)
      /\ first.pc = "getStored"
      /\ first # Idle
  BY <1>2, ReportType, AttemptType
<1>4. overlap' = [overlap EXCEPT ![h] = overlap[h] \/ Busy(h)]
  BY DEF Deliver
<1>5. overlap' \in [Htlcs -> BOOLEAN]
  BY <1>4 DEF TypeOK
<1>6. /\ \A g \in Htlcs \ {h} : overlap'[g] = overlap[g]
      /\ ~overlap'[h] => ~overlap[h] /\ ~Busy(h)
  BY <1>4 DEF TypeOK
<1>7. task' = [task EXCEPT ![t] = first]
  BY <1>1
<1>. HIDE DEF first
<1>. QED
  BY <1>1, <1>3, <1>5, <1>6, <1>7 DEF TypeOK

\* Types are kept: one step per action.
LEMMA TypeKeeps == HtlcIInv /\ [Next]_vars => TypeOK'
<1>. SUFFICES ASSUME HtlcIInv, TypeOK, [Next]_vars
              PROVE  TypeOK'
  BY DEF HtlcIInv
<1>1. ASSUME NEW h \in Htlcs, HtlcEvent(h)
      PROVE  TypeOK'
  <2>1. sent[h] + 1 \in 1..Len(Reports(h))
    BY <1>1, ScriptType DEF HtlcEvent, TypeOK
  <2>2. /\ task' \in [Tasks -> Running \cup {Idle}]
        /\ overlap' \in [Htlcs -> BOOLEAN]
    BY <1>1, <2>1, Delivered DEF HtlcEvent
  <2>3. UNCHANGED <<script, record, emitted, lost, faults, repeats>>
    BY <1>1 DEF HtlcEvent, Deliver
  <2>4. sent' \in [Htlcs -> Nat]
    BY <1>1 DEF HtlcEvent, TypeOK
  <2>5. \A g \in Htlcs : sent'[g] <= Len(Reports(g))
    BY <1>1, <2>1 DEF HtlcEvent, TypeOK
  <2>. QED
    BY <2>2, <2>3, <2>4, <2>5 DEF TypeOK, Reports
<1>2. ASSUME NEW h \in Htlcs, HtlcEventAgain(h)
      PROVE  TypeOK'
  <2>1. sent[h] \in 1..Len(Reports(h))
    BY <1>2, ScriptType DEF HtlcEventAgain, TypeOK
  <2>2. /\ task' \in [Tasks -> Running \cup {Idle}]
        /\ overlap' \in [Htlcs -> BOOLEAN]
    BY <1>2, <2>1, Delivered DEF HtlcEventAgain
  <2>3. UNCHANGED <<script, record, emitted, lost, faults, sent>>
    BY <1>2 DEF HtlcEventAgain, Deliver
  <2>4. repeats' \in 0..MaxRepeats
    BY <1>2, HtlcSyncAssumption DEF HtlcEventAgain, TypeOK, HtlcSyncAssumption
  <2>. QED
    BY <2>2, <2>3, <2>4 DEF TypeOK, Reports
<1>3. ASSUME NEW t \in Tasks, GetStored(t)
      PROVE  TypeOK'
  <2>1. task[t] \in Running
    BY <1>3, BusyPc, RunningFields DEF GetStored
  <2>2. record[task[t].htlc] \in Record \cup {NoRecord}
    BY <2>1 DEF Running, TypeOK
  <2>3. [task[t] EXCEPT !.pc = "execute", !.stored = record[task[t].htlc]] \in Running
    BY <2>1, <2>2 DEF Running
  <2>. QED
    BY <1>3, <2>3 DEF GetStored, ghosts, TypeOK, Reports
<1>4. ASSUME NEW t \in Tasks, ExecuteCreate(t)
      PROVE  TypeOK'
  <2>1. task[t] \in Running /\ task[t].htlc \in Htlcs /\ task[t].report \in ReportSet
    BY <1>4, BusyPc, RunningFields DEF ExecuteCreate
  <2>2. [task[t] EXCEPT !.pc = "announce"] \in Running
    BY <2>1 DEF Running
  <2>3. record' \in [Htlcs -> Record \cup {NoRecord}]
    BY <1>4, <2>1, NewRecordType, NewReceiveType DEF ExecuteCreate, TypeOK
  <2>. QED
    BY <1>4, <2>2, <2>3 DEF ExecuteCreate, ghosts, TypeOK, Reports
<1>5. ASSUME NEW t \in Tasks, ExecuteUpdate(t)
      PROVE  TypeOK'
  <2> DEFINE h == task[t].htlc
  <2>1. task[t] \in Running /\ h \in Htlcs /\ task[t].report \in ReportSet
    BY <1>5, BusyPc, RunningFields DEF ExecuteUpdate
  <2>2. [task[t] EXCEPT !.pc = "announce"] \in Running
    BY <2>1 DEF Running
  <2>3. record[h] \in Record
    BY <1>5, <2>1 DEF ExecuteUpdate, MayUpdate, TypeOK
  <2>4. PICK rev \in NextRevs(h, record[h].rev) :
          record' = [record EXCEPT ![h] =
                       [Updated(h, record[h], task[t].report) EXCEPT !.rev = rev]]
    BY <1>5 DEF ExecuteUpdate
  <2>5. rev \in Nat \cup {Unset}
    <3>1. CASE Kind(h) = "forward"
      BY <2>3, <3>1 DEF NextRevs, Record
    <3>2. CASE Kind(h) # "forward"
      <4>1. record[h].rev \in Nat
        BY <2>1, <2>3, <3>2, NoHtlcRecord DEF HtlcIInv, Sound, FromReports
      <4>. QED
        BY <3>2, <4>1 DEF NextRevs
    <3>. QED
      BY <3>1, <3>2
  <2>6. record' \in [Htlcs -> Record \cup {NoRecord}]
    BY <2>1, <2>3, <2>4, <2>5, UpdatedType, RevisionType DEF TypeOK
  <2>. QED
    BY <1>5, <2>2, <2>6 DEF ExecuteUpdate, ghosts, TypeOK, Reports
<1>6. ASSUME NEW t \in Tasks, NothingToDo(t)
      PROVE  TypeOK'
  BY <1>6 DEF NothingToDo, Finish, ghosts, TypeOK, Reports
<1>7. ASSUME NEW t \in Tasks, Announce(t)
      PROVE  TypeOK'
  <2> DEFINE h == task[t].htlc
             counts == [e \in Events |-> IF e \in Emits(task[t]) THEN emitted[h][e] + 1
                                                                ELSE emitted[h][e]]
  <2>1. h \in Htlcs /\ emitted[h] \in [Events -> Nat]
    BY <1>7, BusyPc, RunningFields DEF Announce, TypeOK
  <2>2. ASSUME NEW e \in Events
        PROVE  (IF e \in Emits(task[t]) THEN emitted[h][e] + 1 ELSE emitted[h][e]) \in Nat
    <3>1. emitted[h][e] \in Nat
      BY <2>1
    <3>. QED
      BY <3>1
  <2>3. counts \in [Events -> Nat]
    BY <2>2
  <2>4. emitted' = [emitted EXCEPT ![h] = counts]
    BY <1>7 DEF Announce
  <2>. HIDE DEF counts
  <2>5. emitted' \in [Htlcs -> [Events -> Nat]]
    BY <2>1, <2>3, <2>4 DEF TypeOK
  <2>. QED
    BY <1>7, <2>5 DEF Announce, Finish, ghosts, TypeOK, Reports
<1>8. ASSUME NEW t \in Tasks, Conflict(t)
      PROVE  TypeOK'
  <2>1. task[t] # Idle /\ RetryOrGiveUp(t)
    BY <1>8, BusyPc DEF Conflict
  <2>. QED
    BY <1>8, <2>1, Retried DEF Conflict, TypeOK, Reports
<1>9. ASSUME NEW t \in Tasks, CallFails(t)
      PROVE  TypeOK'
  <2>1. faults' \in 0..MaxFaults
    BY <1>9, HtlcSyncAssumption DEF CallFails, TypeOK, HtlcSyncAssumption
  <2>. QED
    BY <1>9, <2>1, Retried DEF CallFails, TypeOK, Reports
<1>10. CASE UNCHANGED vars
  BY <1>10 DEF vars, ghosts, TypeOK, Reports
<1>. QED
  BY <1>1, <1>2, <1>3, <1>4, <1>5, <1>6, <1>7, <1>8, <1>9, <1>10 DEF Next, Step, Quiescent

-----------------------------------------------------------------------------
(* Steps that concern another HTLC, and steps that write nothing *)

\* What a handler will emit depends on its run and on nothing that changes.
LEMMA EmitsSame ==
  ASSUME script' = script, NEW t, task'[t] = task[t]
  PROVE  Emits(task[t])' = Emits(task[t])
BY DEF Emits, PaymentEmits, ReceiveEmits, ForwardEmits, Created, Turned, OutcomeOf, Kind

\* An HTLC stays sound while nothing of it changes.
LEMMA Untouched ==
  ASSUME HtlcIInv, NEW h \in Htlcs, script' = script, record'[h] = record[h],
         emitted'[h] = emitted[h], sent'[h] = sent[h], overlap'[h] = overlap[h],
         lost'[h] = lost[h], faults' = 0 => faults = 0, repeats' = 0 => repeats = 0,
         \A u \in Tasks : \/ task'[u] = task[u]
                          \/ ~Handles(u, h) /\ ~(task'[u] # Idle /\ task'[u].htlc = h)
  PROVE  Sound(h)'
<1>1. Sound(h)
  BY DEF HtlcIInv
<1>2. /\ Kind(h)' = Kind(h)
      /\ Reports(h)' = Reports(h)
      /\ \A i : Report(h, i)' = Report(h, i)
      /\ Outcome(h)' = Outcome(h)
  BY DEF Kind, Reports, Report, Outcome
<1>3. \A u \in Tasks : (Handles(u, h)' <=> Handles(u, h)) /\ (Handles(u, h) => task'[u] = task[u])
  BY DEF Handles
<1>4. \A u \in Tasks : /\ Announcing(u, h)' <=> Announcing(u, h)
                       /\ Creates(u, h)' <=> Creates(u, h)
  BY <1>3 DEF Announcing, Creates, Handles
<1>5. FromReports(h)'
  BY <1>1, <1>2, <1>3 DEF Sound, FromReports, Handles, Kind, Reports, Report
<1>6. CreatedOnce(h)'
  BY <1>1, <1>2, <1>4 DEF Sound, CreatedOnce, OfCreation, Creates, Announcing, Handles, Kind
<1>7. ResolvedOnce(h)'
  BY <1>1, <1>2, <1>3 DEF Sound, ResolvedOnce, Handles, Reports
<1>8. Unannounced(h)' <=> Unannounced(h)
  BY <1>4 DEF Unannounced
<1>9. Serial(h)'
  BY <1>1, <1>2, <1>3, <1>8 DEF Sound, Serial, Handles, Busy, Kind, Reports
<1>10. Announced(h)'
  <2>1. \A u \in Tasks : Announcing(u, h) => Emits(task[u])' = Emits(task[u])
    BY <1>3, EmitsSame DEF Announcing
  <2>2. (InFlightFirst(h) <=> InFlightFirst(h)')
    BY DEF InFlightFirst, Reports
  <2>3. (\E u \in Tasks : Announcing(u, h)' /\ Outcome(h)' \in Emits(task[u])')
          <=> (\E u \in Tasks : Announcing(u, h) /\ Outcome(h) \in Emits(task[u]))
    BY <1>2, <1>4, <2>1
  <2>. QED
    BY <1>1, <1>2, <1>8, <2>2, <2>3 DEF Sound, Announced
<1>. QED
  BY <1>5, <1>6, <1>7, <1>9, <1>10 DEF Sound

\* A handler that ends, starts over or reads leaves the table and the events of
\* its HTLC as they are, and makes no announcement of its own; one that was to
\* make one is only stopped by a failure.
LEMMA QuietStep ==
  ASSUME HtlcIInv, NEW t \in Tasks, NEW h \in Htlcs, task[t] # Idle, task[t].htlc = h,
         UNCHANGED <<script, sent, record, emitted, repeats, overlap>>,
         \A u \in Tasks \ {t} : task'[u] = task[u],
         \/ task'[t] = Idle
         \/ /\ task'[t] # Idle
            /\ task'[t].htlc = h
            /\ task'[t].report = task[t].report
            /\ task'[t].pc # "announce",
         faults' = 0 => faults = 0 /\ task[t].pc # "announce"
  PROVE  FromReports(h)' /\ CreatedOnce(h)' /\ ResolvedOnce(h)' /\ Announced(h)'
<1>1. Sound(h)
  BY DEF HtlcIInv
<1>2. /\ Kind(h)' = Kind(h)
      /\ Reports(h)' = Reports(h)
      /\ \A i : Report(h, i)' = Report(h, i)
      /\ Outcome(h)' = Outcome(h)
  BY DEF Kind, Reports, Report, Outcome
<1>3. \A u \in Tasks : Handles(u, h)' => Handles(u, h) /\ task'[u].report = task[u].report
  BY DEF Handles
<1>4. \A u \in Tasks : Announcing(u, h)' => /\ u # t
                                            /\ Announcing(u, h)
                                            /\ task'[u] = task[u]
  BY DEF Announcing, Handles
<1>5. \A u \in Tasks : Creates(u, h)' => Creates(u, h)
  BY <1>4 DEF Creates
<1>6. FromReports(h)'
  BY <1>1, <1>2, <1>3 DEF Sound, FromReports, Handles, Kind, Reports, Report
<1>7. CreatedOnce(h)'
  BY <1>1, <1>2, <1>5 DEF Sound, CreatedOnce, OfCreation, Creates, Announcing, Handles, Kind
<1>8. ResolvedOnce(h)'
  BY <1>1, <1>2, <1>3 DEF Sound, ResolvedOnce, Handles, Reports
<1>9. Announced(h)'
  <2>. SUFFICES ASSUME faults' = 0
                PROVE  Announced(h)'
    BY DEF Announced
  <2>1. \A u \in Tasks : Announcing(u, h)' <=> Announcing(u, h)
    BY <1>4 DEF Announcing, Handles
  <2>2. \A u \in Tasks : Creates(u, h)' <=> Creates(u, h)
    BY <1>4, <2>1 DEF Creates
  <2>3. \A u \in Tasks : Announcing(u, h) => Emits(task[u])' = Emits(task[u])
    BY <1>4, <2>1, EmitsSame
  <2>4. (InFlightFirst(h) <=> InFlightFirst(h)')
    BY DEF InFlightFirst, Reports
  <2>5. Unannounced(h)' <=> Unannounced(h)
    BY <2>2 DEF Unannounced
  <2>6. (\E u \in Tasks : Announcing(u, h)' /\ Outcome(h)' \in Emits(task[u])')
          <=> (\E u \in Tasks : Announcing(u, h) /\ Outcome(h) \in Emits(task[u]))
    BY <1>2, <2>1, <2>3
  <2>. QED
    BY <1>1, <1>2, <2>4, <2>5, <2>6 DEF Sound, Announced
<1>. QED
  BY <1>6, <1>7, <1>8, <1>9

-----------------------------------------------------------------------------
(* One lemma per action *)

\* A report starts a handler: the first time after all others, or once more.
LEMMA DeliverySound ==
  ASSUME HtlcIInv, NEW h \in Htlcs, NEW i \in 1..Len(Reports(h)), Deliver(h, i),
         i = sent'[h],
         \A g \in Htlcs \ {h} : sent'[g] = sent[g],
         \/ sent'[h] = sent[h] + 1 /\ repeats' = repeats
         \/ sent'[h] = sent[h] /\ repeats' # 0
  PROVE  \A g \in Htlcs : Sound(g)'
<1>1. TypeOK /\ \A g \in Htlcs : Sound(g)
  BY DEF HtlcIInv
<1>2. UNCHANGED <<script, record, emitted, lost, faults>>
  BY DEF Deliver
<1>3. PICK t \in Tasks : /\ task[t] = Idle
                         /\ \A u \in Tasks \ {t} : task'[u] = task[u]
                         /\ task'[t] # Idle
                         /\ task'[t].pc = "getStored"
                         /\ task'[t].htlc = h
                         /\ task'[t].report = Report(h, i)
  BY <1>1, Delivered
<1>4. /\ \A g \in Htlcs \ {h} : overlap'[g] = overlap[g]
      /\ ~overlap'[h] => ~overlap[h] /\ ~Busy(h)
  BY <1>1, Delivered
<1>5. sent[h] \in Nat /\ Len(Reports(h)) \in Nat /\ i \in Nat /\ i > 0
  BY <1>1, ScriptType DEF TypeOK
<1>6. ASSUME NEW g \in Htlcs, g # h
      PROVE  Sound(g)'
  <2>1. repeats' = 0 => repeats = 0
    BY <1>5
  <2>2. \A u \in Tasks : \/ task'[u] = task[u]
                         \/ ~Handles(u, g) /\ ~(task'[u] # Idle /\ task'[u].htlc = g)
    BY <1>3, <1>6 DEF Handles
  <2>. QED
    BY <1>2, <1>4, <1>6, <2>1, <2>2, Untouched
<1>7. Sound(h)'
  <2>1. /\ Kind(h)' = Kind(h)
        /\ Reports(h)' = Reports(h)
        /\ \A j : Report(h, j)' = Report(h, j)
        /\ Outcome(h)' = Outcome(h)
    BY <1>2 DEF Kind, Reports, Report, Outcome
  <2>2. \A u \in Tasks : Handles(u, h)' <=> Handles(u, h) \/ u = t
    BY <1>3 DEF Handles
  <2>3. \A u \in Tasks : /\ Announcing(u, h)' <=> Announcing(u, h)
                         /\ Announcing(u, h) => task'[u] = task[u]
    BY <1>3 DEF Announcing, Handles
  <2>4. \A u \in Tasks : Creates(u, h)' <=> Creates(u, h)
    BY <2>3 DEF Creates
  <2>5. ~Handles(t, h) /\ task'[t].report.at = i
    BY <1>1, <1>3, ReportType DEF Handles
  <2>6. FromReports(h)'
    <3>1. 1..sent[h] \subseteq 1..sent'[h] /\ i \in 1..sent'[h]
      BY <1>5
    <3>2. \A u \in Tasks : Handles(u, h)' =>
            /\ task'[u].report.at \in 1..sent'[h]
            /\ task'[u].report = Report(h, task'[u].report.at)
      BY <1>1, <1>3, <2>2, <2>5, <3>1 DEF Sound, FromReports
    <3>3. record[h] # NoRecord =>
            /\ record[h].at \in 1..sent'[h]
            /\ record[h].state = Reports(h)[record[h].at]
            /\ Kind(h) # "forward" => record[h].rev \in Nat
      BY <1>1, <3>1 DEF Sound, FromReports
    <3>. QED
      BY <1>2, <2>1, <3>2, <3>3 DEF FromReports
  <2>7. CreatedOnce(h)'
    BY <1>1, <1>2, <2>1, <2>4 DEF Sound, CreatedOnce, OfCreation
  <2>8. ResolvedOnce(h)'
    <3>. SUFFICES ASSUME repeats' = 0
                  PROVE  ResolvedOnce(h)'
      BY DEF ResolvedOnce
    <3>1. repeats = 0 /\ i = sent[h] + 1 /\ sent[h] # Len(Reports(h))
      BY <1>5
    <3>2. \A u \in Tasks : Handles(u, h) => task[u].report.at # i
      BY <1>1, <1>5, <3>1 DEF Sound, FromReports
    <3>3. \A u, v \in Tasks :
            (Handles(u, h)' /\ Handles(v, h)' /\ task'[u].report.at = task'[v].report.at) => u = v
      BY <1>1, <1>3, <2>2, <2>5, <3>1, <3>2 DEF Sound, ResolvedOnce
    <3>4. \A e \in Events \ {"attempting"} : emitted[h][e] <= 1 /\ emitted[h][e] # 1
      BY <1>1, <3>1 DEF Sound, ResolvedOnce
    <3>. QED
      BY <1>2, <3>3, <3>4 DEF ResolvedOnce
  <2>9. Serial(h)'
    <3>. SUFFICES ASSUME ~overlap'[h]
                  PROVE  Serial(h)'
      BY DEF Serial
    <3>1. ~overlap[h] /\ ~Busy(h)
      BY <1>4
    <3>2. \A u \in Tasks : Handles(u, h)' <=> u = t
      BY <2>2, <3>1 DEF Busy, Handles
    <3>3. Busy(h)'
      BY <1>3 DEF Busy
    <3>4. faults = 0 => ~lost[h]
      BY <1>1, <3>1 DEF Sound, Serial
    <3>5. Unannounced(h)' <=> record[h] = NoRecord
      BY <1>2, <2>4, <3>1 DEF Unannounced, Creates, Announcing, Handles, Busy
    <3>6. ~lost[h] => /\ record[h] = NoRecord => sent'[h] <= 1
                      /\ (record[h] # NoRecord /\ Kind(h) # "receive") => record[h].mtokens
      BY <1>1, <1>5, <3>1 DEF Sound, Serial
    <3>. QED
      BY <1>2, <1>3, <2>1, <2>5, <3>2, <3>3, <3>4, <3>5, <3>6 DEF Serial
  <2>10. Announced(h)'
    <3>. SUFFICES ASSUME ~overlap'[h], faults' = 0
                  PROVE  Announced(h)'
      BY DEF Announced
    <3>1. ~overlap[h] /\ faults = 0
      BY <1>2, <1>4
    <3>2. \A u \in Tasks : Announcing(u, h) => Emits(task[u])' = Emits(task[u])
      BY <1>2, <2>3, EmitsSame
    <3>3. InFlightFirst(h) <=> InFlightFirst(h)'
      BY <1>2 DEF InFlightFirst, Reports
    <3>4. Unannounced(h)' <=> Unannounced(h)
      BY <1>2, <2>4 DEF Unannounced
    <3>5. (\E u \in Tasks : Announcing(u, h)' /\ Outcome(h)' \in Emits(task[u])')
            <=> (\E u \in Tasks : Announcing(u, h) /\ Outcome(h) \in Emits(task[u]))
      BY <2>1, <2>3, <3>2
    <3>. QED
      BY <1>1, <1>2, <2>1, <3>1, <3>3, <3>4, <3>5 DEF Sound, Announced
  <2>. QED
    BY <2>6, <2>7, <2>8, <2>9, <2>10 DEF Sound
<1>. QED
  BY <1>6, <1>7

LEMMA EventSound ==
  ASSUME HtlcIInv, NEW h \in Htlcs, HtlcEvent(h)
  PROVE  \A g \in Htlcs : Sound(g)'
<1>1. TypeOK
  BY DEF HtlcIInv
<1>2. sent[h] + 1 \in 1..Len(Reports(h)) /\ sent'[h] = sent[h] + 1
  BY <1>1, ScriptType DEF HtlcEvent, TypeOK
<1>3. \A g \in Htlcs \ {h} : sent'[g] = sent[g]
  BY <1>1 DEF HtlcEvent, TypeOK
<1>. QED
  BY <1>2, <1>3, DeliverySound DEF HtlcEvent

LEMMA EventAgainSound ==
  ASSUME HtlcIInv, NEW h \in Htlcs, HtlcEventAgain(h)
  PROVE  \A g \in Htlcs : Sound(g)'
<1>1. TypeOK
  BY DEF HtlcIInv
<1>2. sent[h] \in 1..Len(Reports(h)) /\ sent' = sent
  BY <1>1, ScriptType DEF HtlcEventAgain, TypeOK
<1>3. repeats' # 0
  BY <1>1 DEF HtlcEventAgain, TypeOK
<1>. QED
  BY <1>2, <1>3, DeliverySound DEF HtlcEventAgain

\* A step of a handler leaves the other HTLCs sound.
LEMMA OthersSound ==
  ASSUME HtlcIInv, NEW t \in Tasks, NEW h \in Htlcs, task[t] # Idle, task[t].htlc = h,
         UNCHANGED <<script, sent, overlap, repeats>>, faults' = 0 => faults = 0,
         \A g \in Htlcs \ {h} : record'[g] = record[g] /\ emitted'[g] = emitted[g]
                                /\ lost'[g] = lost[g],
         \A u \in Tasks \ {t} : task'[u] = task[u],
         task'[t] = Idle \/ task'[t].htlc = h
  PROVE  \A g \in Htlcs \ {h} : Sound(g)'
<1>. SUFFICES ASSUME NEW g \in Htlcs, g # h
              PROVE  Sound(g)'
  OBVIOUS
<1>1. \A u \in Tasks : \/ task'[u] = task[u]
                       \/ ~Handles(u, g) /\ ~(task'[u] # Idle /\ task'[u].htlc = g)
  BY DEF Handles
<1>. QED
  BY <1>1, Untouched

LEMMA GetStoredSound ==
  ASSUME HtlcIInv, NEW t \in Tasks, GetStored(t)
  PROVE  \A g \in Htlcs : Sound(g)'
<1>1. TypeOK /\ task[t] # Idle
  BY BusyPc DEF HtlcIInv, GetStored
<1>2. PICK h \in Htlcs : h = task[t].htlc
  BY <1>1, RunningFields
<1>3. Sound(h)
  BY DEF HtlcIInv
<1>4. UNCHANGED <<script, sent, record, emitted, overlap, lost, faults, repeats>>
  BY DEF GetStored, ghosts
<1>5. /\ \A u \in Tasks \ {t} : task'[u] = task[u]
      /\ task'[t] # Idle
      /\ task'[t].htlc = h
      /\ task'[t].report = task[t].report
      /\ task'[t].pc = "execute"
      /\ task'[t].stored = record[h]
  BY <1>1, <1>2, RunningFields DEF GetStored, TypeOK, Running, Idle
<1>6. \A g \in Htlcs \ {h} : Sound(g)'
  BY <1>1, <1>2, <1>4, <1>5, OthersSound
<1>7. FromReports(h)' /\ CreatedOnce(h)' /\ ResolvedOnce(h)' /\ Announced(h)'
  <2>1. task[t].pc # "announce"
    BY DEF GetStored
  <2>. QED
    BY <1>1, <1>2, <1>4, <1>5, <2>1, QuietStep
<1>8. Serial(h)'
  <2>1. \A u \in Tasks : Handles(u, h)' <=> Handles(u, h)
    BY <1>1, <1>2, <1>5 DEF Handles
  <2>2. Busy(h)' <=> Busy(h)
    BY <2>1 DEF Busy, Handles
  <2>3. Kind(h)' = Kind(h) /\ Reports(h)' = Reports(h)
    BY <1>4 DEF Kind, Reports
  <2>4. \A u \in Tasks : task'[u].report = task[u].report
    BY <1>5
  <2>5. Unannounced(h)' => Unannounced(h)
    BY <1>4, <1>5, <2>1 DEF Unannounced, Creates, Announcing, Handles
  <2>. QED
    BY <1>3, <1>4, <1>5, <2>1, <2>2, <2>3, <2>4, <2>5 DEF Sound, Serial
<1>. QED
  BY <1>3, <1>6, <1>7, <1>8 DEF Sound

\* What a handler has nothing to do about is recorded.
LEMMA NothingToDoSound ==
  ASSUME HtlcIInv, NEW t \in Tasks, NothingToDo(t)
  PROVE  \A g \in Htlcs : Sound(g)'
<1>1. TypeOK /\ task[t] # Idle
  BY BusyPc DEF HtlcIInv, NothingToDo
<1>2. PICK h \in Htlcs : h = task[t].htlc
  BY <1>1, RunningFields
<1>3. Sound(h)
  BY DEF HtlcIInv
<1>4. UNCHANGED <<script, sent, record, emitted, overlap, lost, faults, repeats>>
  BY DEF NothingToDo, ghosts
<1>5. /\ \A u \in Tasks \ {t} : task'[u] = task[u]
      /\ task'[t] = Idle
  BY <1>1 DEF NothingToDo, Finish, TypeOK
<1>6. \A g \in Htlcs \ {h} : Sound(g)'
  BY <1>1, <1>2, <1>4, <1>5, OthersSound
<1>7. FromReports(h)' /\ CreatedOnce(h)' /\ ResolvedOnce(h)' /\ Announced(h)'
  <2>1. task[t].pc # "announce"
    BY DEF NothingToDo
  <2>. QED
    BY <1>1, <1>2, <1>4, <1>5, <2>1, QuietStep
<1>8. Serial(h)'
  <2>. SUFFICES ASSUME ~overlap[h]
                PROVE  Serial(h)'
    BY <1>4 DEF Serial
  <2>1. Handles(t, h) /\ task[t].pc = "execute"
    BY <1>1, <1>2 DEF Handles, NothingToDo
  <2>2. \A u \in Tasks : ~Handles(u, h)'
    BY <1>3, <1>5, <2>1 DEF Sound, Serial, Handles
  <2>3. /\ task[t].report.at = sent[h]
        /\ task[t].stored = record[h]
        /\ task[t].report = Report(h, sent[h])
    BY <1>3, <2>1 DEF Sound, Serial, FromReports
  <2>4. record[h] # NoRecord /\ record[h] \in Record
    BY <1>1, <2>3 DEF NothingToDo, TypeOK
  <2>5. record[h].state = Reports(h)[sent[h]]
    <3>1. Updated(h, record[h], task[t].report) = record[h]
      BY <1>2, <2>3, <2>4 DEF NothingToDo, ShouldUpdate, HasChanges
    <3>2. record[h].state = task[t].report.state
      BY <1>1, <2>4, <3>1, RunningFields, UpdatedType
    <3>. QED
      BY <2>3, <3>2 DEF Report
  <2>6. Kind(h)' = Kind(h) /\ Reports(h)' = Reports(h)
    BY <1>4 DEF Kind, Reports
  <2>7. ~Unannounced(h)'
    BY <1>4, <2>2, <2>4 DEF Unannounced, Creates, Announcing
  <2>. QED
    BY <1>3, <1>4, <2>2, <2>4, <2>5, <2>6, <2>7 DEF Sound, Serial
<1>. QED
  BY <1>3, <1>6, <1>7, <1>8 DEF Sound

\* Only a handler that another one overlaps meets a conflict.
LEMMA ConflictSound ==
  ASSUME HtlcIInv, NEW t \in Tasks, Conflict(t)
  PROVE  \A g \in Htlcs : Sound(g)'
<1>1. TypeOK /\ task[t] # Idle /\ task[t].pc = "execute"
  BY BusyPc DEF HtlcIInv, Conflict
<1>2. PICK h \in Htlcs : h = task[t].htlc
  BY <1>1, RunningFields
<1>3. Sound(h)
  BY DEF HtlcIInv
<1>4. UNCHANGED <<script, sent, record, emitted, overlap, faults, repeats>>
  BY DEF Conflict
<1>5. /\ \A u \in Tasks \ {t} : task'[u] = task[u]
      /\ \A g \in Htlcs \ {h} : lost'[g] = lost[g]
      /\ \/ task'[t] = Idle
         \/ /\ task'[t] # Idle
            /\ task'[t].htlc = h
            /\ task'[t].report = task[t].report
            /\ task'[t].pc # "announce"
  <2>1. RetryOrGiveUp(t)
    BY DEF Conflict
  <2>. QED
    BY <1>1, <1>2, <2>1, Retried
<1>6. \A g \in Htlcs \ {h} : Sound(g)'
  BY <1>1, <1>2, <1>4, <1>5, OthersSound
<1>7. FromReports(h)' /\ CreatedOnce(h)' /\ ResolvedOnce(h)' /\ Announced(h)'
  BY <1>1, <1>2, <1>4, <1>5, QuietStep
<1>8. overlap[h]
  <2>. SUFFICES ASSUME ~overlap[h]
                PROVE  FALSE
    OBVIOUS
  <2>1. task[t].stored = record[h]
    BY <1>1, <1>2, <1>3 DEF Sound, Serial, Handles
  <2>2. CASE task[t].stored = NoRecord /\ ~MayPut(record[h])
    BY <2>1, <2>2 DEF MayPut
  <2>3. CASE ShouldUpdate(t) /\ ~MayUpdate(record[h], task[t].stored.rev)
    BY <2>1, <2>3 DEF ShouldUpdate, MayUpdate
  <2>. QED
    BY <1>2, <2>2, <2>3 DEF Conflict
<1>9. Serial(h)'
  BY <1>4, <1>8 DEF Serial
<1>. QED
  BY <1>3, <1>6, <1>7, <1>9 DEF Sound

LEMMA CallFailsSound ==
  ASSUME HtlcIInv, NEW t \in Tasks, CallFails(t)
  PROVE  \A g \in Htlcs : Sound(g)'
<1>1. TypeOK /\ task[t] # Idle /\ RetryOrGiveUp(t)
  BY DEF HtlcIInv, CallFails
<1>2. PICK h \in Htlcs : h = task[t].htlc
  BY <1>1, RunningFields
<1>3. Sound(h)
  BY DEF HtlcIInv
<1>4. UNCHANGED <<script, sent, record, emitted, overlap, repeats>> /\ faults' # 0
  BY <1>1 DEF CallFails, TypeOK
<1>5. /\ \A u \in Tasks \ {t} : task'[u] = task[u]
      /\ \A g \in Htlcs \ {h} : lost'[g] = lost[g]
      /\ \/ task'[t] = Idle /\ lost'[h]
         \/ /\ task'[t] # Idle
            /\ task'[t].htlc = h
            /\ task'[t].report = task[t].report
            /\ task'[t].pc = "getStored"
            /\ lost' = lost
  BY <1>1, <1>2, Retried
<1>6. \A g \in Htlcs \ {h} : Sound(g)'
  BY <1>1, <1>2, <1>4, <1>5, OthersSound
<1>7. FromReports(h)' /\ CreatedOnce(h)' /\ ResolvedOnce(h)' /\ Announced(h)'
  BY <1>1, <1>2, <1>4, <1>5, QuietStep
<1>8. Serial(h)'
  <2>1. Kind(h)' = Kind(h) /\ Reports(h)' = Reports(h)
    BY <1>4 DEF Kind, Reports
  <2>2. \A u \in Tasks : Handles(u, h)' => Handles(u, h)
    BY <1>1, <1>2, <1>5 DEF Handles
  <2>3. \A u \in Tasks : Handles(u, h)' => /\ task'[u].report = task[u].report
                                           /\ task'[u] = task[u] \/ task'[u].pc = "getStored"
    BY <1>5 DEF Handles
  <2>4. CASE lost'[h]
    BY <1>3, <1>4, <2>1, <2>2, <2>3, <2>4 DEF Sound, Serial
  <2>5. CASE ~lost'[h]
    <3>1. Busy(h)' /\ lost' = lost
      BY <1>5, <2>5 DEF Busy
    <3>2. Unannounced(h)' => Unannounced(h)
      BY <1>4, <1>5, <2>2 DEF Unannounced, Creates, Announcing, Handles
    <3>. QED
      BY <1>3, <1>4, <2>1, <2>2, <2>3, <3>1, <3>2 DEF Sound, Serial
  <2>. QED
    BY <2>4, <2>5
<1>. QED
  BY <1>3, <1>6, <1>7, <1>8 DEF Sound

\* A handler that writes is about to announce what it wrote.
LEMMA WriteStep ==
  ASSUME HtlcIInv, NEW t \in Tasks, NEW h \in Htlcs,
         task[t] # Idle, task[t].htlc = h, task[t].pc = "execute",
         UNCHANGED <<script, sent, emitted, overlap, lost, faults, repeats>>,
         \A g \in Htlcs \ {h} : record'[g] = record[g],
         \A u \in Tasks \ {t} : task'[u] = task[u],
         task'[t] = [task[t] EXCEPT !.pc = "announce"],
         record'[h] # NoRecord,
         record'[h].at = task[t].report.at,
         record'[h].state = task[t].report.state,
         Kind(h) # "forward" => record'[h].rev \in Nat,
         (~overlap[h] /\ ~lost[h]) =>
           /\ Kind(h) # "receive" => record'[h].mtokens
           /\ Created(task[t]) => sent[h] <= 1
  PROVE  /\ \A g \in Htlcs \ {h} : Sound(g)'
         /\ FromReports(h)'
         /\ ResolvedOnce(h)'
         /\ Serial(h)'
<1>1. TypeOK /\ Sound(h)
  BY DEF HtlcIInv
<1>2. /\ task'[t] # Idle
      /\ task'[t].htlc = h
      /\ task'[t].report = task[t].report
      /\ task'[t].stored = task[t].stored
      /\ task'[t].pc = "announce"
  BY <1>1, RunningFields DEF Running, Idle
<1>3. \A g \in Htlcs \ {h} : Sound(g)'
  BY <1>2, OthersSound
<1>4. \A u \in Tasks : /\ Handles(u, h)' <=> Handles(u, h)
                       /\ Handles(u, h)' => task'[u].report = task[u].report
  BY <1>2 DEF Handles
<1>5. /\ Kind(h)' = Kind(h)
      /\ Reports(h)' = Reports(h)
      /\ \A i : Report(h, i)' = Report(h, i)
  BY DEF Kind, Reports, Report
<1>6. /\ task[t].report.at \in 1..sent[h]
      /\ task[t].report = Report(h, task[t].report.at)
      /\ task[t].report.state = Reports(h)[task[t].report.at]
  BY <1>1 DEF Sound, FromReports, Handles, Report
<1>7. FromReports(h)'
  BY <1>1, <1>4, <1>5, <1>6 DEF Sound, FromReports
<1>8. ResolvedOnce(h)'
  BY <1>1, <1>4, <1>5 DEF Sound, ResolvedOnce
<1>9. Serial(h)'
  <2>. SUFFICES ASSUME ~overlap[h]
                PROVE  Serial(h)'
    BY DEF Serial
  <2>1. \A u \in Tasks : Handles(u, h)' => u = t
    BY <1>1, <1>4 DEF Sound, Serial, Handles
  <2>2. Busy(h)' /\ task[t].report.at = sent[h]
    BY <1>1, <1>2 DEF Busy, Sound, Serial, Handles
  <2>3. Unannounced(h)' => Created(task[t])
    BY <1>2, <2>1 DEF Unannounced, Creates, Announcing, Created
  <2>. QED
    BY <1>1, <1>2, <1>5, <2>1, <2>2, <2>3 DEF Sound, Serial
<1>. QED
  BY <1>3, <1>7, <1>8, <1>9

LEMMA ExecuteCreateSound ==
  ASSUME HtlcIInv, NEW t \in Tasks, ExecuteCreate(t)
  PROVE  \A g \in Htlcs : Sound(g)'
<1>1. TypeOK /\ task[t] # Idle /\ task[t].pc = "execute" /\ Created(task[t])
  BY BusyPc DEF HtlcIInv, ExecuteCreate, Created
<1>2. PICK h \in Htlcs : h = task[t].htlc
  BY <1>1, RunningFields
<1>3. Sound(h)
  BY DEF HtlcIInv
<1>4. UNCHANGED <<script, sent, emitted, overlap, lost, faults, repeats>>
  BY DEF ExecuteCreate, ghosts
<1>5. /\ \A u \in Tasks \ {t} : task'[u] = task[u]
      /\ task'[t] = [task[t] EXCEPT !.pc = "announce"]
  BY <1>1 DEF ExecuteCreate, TypeOK
<1>6. record[h] = NoRecord /\ task[t].report \in ReportSet
  BY <1>1, <1>2, RunningFields DEF ExecuteCreate, MayPut
<1>7. /\ \A g \in Htlcs \ {h} : record'[g] = record[g]
      /\ record'[h] = IF Kind(h) = "receive" THEN NewReceive(task[t].report)
                                             ELSE NewRecord(task[t].report)
  BY <1>1, <1>2 DEF ExecuteCreate, TypeOK
<1>8. /\ record'[h] # NoRecord
      /\ record'[h].at = task[t].report.at
      /\ record'[h].state = task[t].report.state
      /\ record'[h].rev \in Nat
      /\ Kind(h) # "receive" => record'[h].mtokens = task[t].report.mtokens
  BY <1>6, <1>7, NewRecordType, NewReceiveType, NoHtlcRecord
<1>9. /\ task[t].report.at \in 1..sent[h]
      /\ sent[h] <= Len(Reports(h))
      /\ sent[h] \in Nat
      /\ task[t].report.at \in 1..Len(Reports(h))
      /\ task[t].report.state = Reports(h)[task[t].report.at]
      /\ task[t].report.mtokens <=> task[t].report.at = 1
  <2>1. /\ task[t].report.at \in 1..sent[h]
        /\ task[t].report = Report(h, task[t].report.at)
        /\ sent[h] <= Len(Reports(h)) /\ sent[h] \in Nat
    BY <1>1, <1>2, <1>3 DEF Sound, FromReports, Handles, TypeOK
  <2>2. task[t].report.at \in 1..Len(Reports(h))
    BY <1>1, <2>1, ScriptType
  <2>. QED
    BY <1>1, <2>1, <2>2, ReportType
<1>10. (~overlap[h] /\ ~lost[h]) => sent[h] = 1 /\ task[t].report.at = 1
  <2>. SUFFICES ASSUME ~overlap[h], ~lost[h]
                PROVE  sent[h] = 1 /\ task[t].report.at = 1
    OBVIOUS
  <2>1. sent[h] <= 1
    BY <1>3, <1>6 DEF Sound, Serial, Unannounced
  <2>. QED
    BY <1>9, <2>1
<1>11. /\ \A g \in Htlcs \ {h} : Sound(g)'
       /\ FromReports(h)' /\ ResolvedOnce(h)' /\ Serial(h)'
  BY <1>1, <1>2, <1>4, <1>5, <1>7, <1>8, <1>9, <1>10, WriteStep
<1>12. /\ task'[t] # Idle
       /\ task'[t].htlc = h
       /\ task'[t].report = task[t].report
       /\ task'[t].stored = NoRecord
       /\ task'[t].pc = "announce"
  BY <1>1, <1>2, <1>5, RunningFields DEF Running, Idle, Created
<1>13. \A u \in Tasks : Creates(u, h)' <=> u = t
  <2>1. \A u \in Tasks : ~Creates(u, h)
    BY <1>3, <1>6 DEF Sound, CreatedOnce
  <2>. QED
    BY <1>5, <1>12, <2>1 DEF Creates, Announcing, Handles
<1>14. CreatedOnce(h)'
  <2>1. \A e \in Events : OfCreation(h, e) => emitted[h][e] = 0
    BY <1>3, <1>6 DEF Sound, CreatedOnce
  <2>2. \A e : OfCreation(h, e)' <=> OfCreation(h, e)
    BY <1>4 DEF OfCreation, Kind
  <2>. QED
    BY <1>4, <1>8, <1>13, <2>1, <2>2 DEF CreatedOnce
<1>15. Announced(h)'
  <2>. SUFFICES ASSUME ~overlap[h], faults = 0
                PROVE  Announced(h)'
    BY <1>4 DEF Announced
  <2>1. task[t].report.state = Reports(h)[1]
    BY <1>3, <1>9, <1>10 DEF Sound, Serial
  <2>2. /\ Kind(h)' = Kind(h)
        /\ InFlightFirst(h)' <=> InFlightFirst(h)
        /\ Outcome(h)' = Outcome(h)
    BY <1>4 DEF Kind, InFlightFirst, Outcome, Reports
  <2>3. Unannounced(h)'
    BY <1>13 DEF Unannounced
  <2>4. emitted[h]["attempting"] = 0
    BY <1>3, <1>6 DEF Sound, CreatedOnce, OfCreation, Events
  <2>5. ASSUME InFlightFirst(h) \/ Kind(h) = "receive"
        PROVE  /\ emitted[h][Outcome(h)] = 0
               /\ record'[h].state = Outcome(h) =>
                    Announcing(t, h)' /\ Outcome(h) \in Emits(task[t])'
    <3>1. emitted[h][Outcome(h)] = 0
      BY <1>3, <1>6, <2>5 DEF Sound, Announced
    <3>2. Outcome(h) \in {"settled", "failed"}
      BY <1>1, <1>9, OutcomeLast
    <3>3. Announcing(t, h)'
      BY <1>12 DEF Announcing, Handles
    <3>4. CASE InFlightFirst(h)
      BY <1>8, <2>1, <3>1, <3>2, <3>4 DEF InFlightFirst
    <3>5. CASE Kind(h) = "receive"
      <4>. SUFFICES ASSUME record'[h].state = Outcome(h)
                    PROVE  Outcome(h) \in Emits(task[t])'
        BY <3>1, <3>3
      <4>1. Emits(task[t])' = {task[t].report.state} \cap Events
        BY <1>4, <1>12, <3>5 DEF Emits, ReceiveEmits, Created, OutcomeOf, Kind
      <4>. QED
        BY <1>8, <3>2, <4>1 DEF Events
    <3>. QED
      BY <2>5, <3>4, <3>5
  <2>. QED
    BY <1>4, <2>2, <2>3, <2>4, <2>5 DEF Announced
<1>. QED
  BY <1>11, <1>14, <1>15 DEF Sound

\* A handler announces the attempt or the state that was reported to it ...
LEMMA EmitsReported ==
  ASSUME TypeOK, NEW t \in Tasks, task[t] # Idle, NEW e \in Emits(task[t])
  PROVE  e = "attempting" \/ e = task[t].report.state
<1>1. Kind(task[t].htlc) \in Kinds
  BY RunningFields, ScriptType
<1>. QED
  BY <1>1 DEF Emits, PaymentEmits, ReceiveEmits, ForwardEmits, OutcomeOf, Kinds

\* ... and, when it did not create the record, the outcome it has brought.
LEMMA EmitsTurned ==
  ASSUME TypeOK, NEW t \in Tasks, task[t] # Idle, ~Created(task[t])
  PROVE  Emits(task[t]) =
           IF /\ Kind(task[t].htlc) # "receive"
              /\ task[t].report.state # task[t].stored.state
           THEN {task[t].report.state} \cap Events
           ELSE {}
<1>1. Kind(task[t].htlc) \in Kinds
  BY RunningFields, ScriptType
<1>. QED
  BY <1>1 DEF Emits, PaymentEmits, ReceiveEmits, ForwardEmits, OutcomeOf, Turned, Kinds

LEMMA ExecuteUpdateSound ==
  ASSUME HtlcIInv, NEW t \in Tasks, ExecuteUpdate(t)
  PROVE  \A g \in Htlcs : Sound(g)'
<1>1. TypeOK /\ task[t] # Idle /\ task[t].pc = "execute" /\ ~Created(task[t])
  BY BusyPc DEF HtlcIInv, ExecuteUpdate, ShouldUpdate, Created
<1>2. PICK h \in Htlcs : h = task[t].htlc
  BY <1>1, RunningFields
<1>3. Sound(h)
  BY DEF HtlcIInv
<1>4. UNCHANGED <<script, sent, emitted, overlap, lost, faults, repeats>>
  BY DEF ExecuteUpdate, ghosts
<1>5. /\ \A u \in Tasks \ {t} : task'[u] = task[u]
      /\ task'[t] = [task[t] EXCEPT !.pc = "announce"]
  BY <1>1 DEF ExecuteUpdate, TypeOK
<1>6. record[h] # NoRecord /\ record[h] \in Record /\ task[t].report \in ReportSet
  BY <1>1, <1>2, RunningFields DEF ExecuteUpdate, MayUpdate, TypeOK
<1>7. PICK rev \in NextRevs(h, record[h].rev) :
        record' = [record EXCEPT ![h] =
                     [Updated(h, record[h], task[t].report) EXCEPT !.rev = rev]]
  BY <1>2 DEF ExecuteUpdate
<1>8. rev \in Nat \cup {Unset} /\ (Kind(h) # "forward" => rev \in Nat)
  <2>1. CASE Kind(h) = "forward"
    BY <1>6, <1>7, <2>1 DEF NextRevs, Record
  <2>2. CASE Kind(h) # "forward"
    <3>1. record[h].rev \in Nat
      BY <1>3, <1>6, <2>2 DEF Sound, FromReports
    <3>. QED
      BY <1>7, <2>2, <3>1 DEF NextRevs
  <2>. QED
    BY <2>1, <2>2
<1>9. \A g \in Htlcs \ {h} : record'[g] = record[g]
  BY <1>1, <1>7 DEF TypeOK
<1>10. /\ record'[h] \in Record
       /\ record'[h].at = task[t].report.at
       /\ record'[h].state = task[t].report.state
       /\ record'[h].rev = rev
       /\ record[h].mtokens => record'[h].mtokens
  <2>1. record'[h] = [Updated(h, record[h], task[t].report) EXCEPT !.rev = rev]
    BY <1>1, <1>7 DEF TypeOK
  <2>. QED
    BY <1>6, <1>8, <2>1, UpdatedType, RevisionType
<1>11. record'[h] # NoRecord
  BY <1>10, NoHtlcRecord
<1>12. (~overlap[h] /\ ~lost[h]) => (Kind(h) # "receive" => record'[h].mtokens)
  BY <1>3, <1>6, <1>10 DEF Sound, Serial
<1>13. /\ \A g \in Htlcs \ {h} : Sound(g)'
       /\ FromReports(h)' /\ ResolvedOnce(h)' /\ Serial(h)'
  BY <1>1, <1>2, <1>4, <1>5, <1>8, <1>9, <1>10, <1>11, <1>12, WriteStep
<1>14. /\ task'[t] # Idle
       /\ task'[t].htlc = h
       /\ task'[t].report = task[t].report
       /\ task'[t].stored = task[t].stored
       /\ task'[t].pc = "announce"
  BY <1>1, <1>2, <1>5, RunningFields DEF Running, Idle
<1>15. \A u \in Tasks : Creates(u, h)' <=> Creates(u, h)
  BY <1>1, <1>5, <1>14 DEF Creates, Announcing, Handles, Created
<1>16. CreatedOnce(h)'
  <2>1. \A e : OfCreation(h, e)' <=> OfCreation(h, e)
    BY <1>4 DEF OfCreation, Kind
  <2>. QED
    BY <1>3, <1>4, <1>6, <1>11, <1>15, <2>1 DEF Sound, CreatedOnce
<1>17. Announced(h)'
  <2>. SUFFICES ASSUME ~overlap[h], faults = 0
                PROVE  Announced(h)'
    BY <1>4 DEF Announced
  <2>1. /\ Kind(h)' = Kind(h)
        /\ InFlightFirst(h)' <=> InFlightFirst(h)
        /\ Outcome(h)' = Outcome(h)
    BY <1>4 DEF Kind, InFlightFirst, Outcome, Reports
  <2>2. Unannounced(h)' <=> Unannounced(h)
    BY <1>6, <1>11, <1>15 DEF Unannounced
  <2>3. /\ \A u \in Tasks : Handles(u, h) <=> u = t
        /\ task[t].stored = record[h]
        /\ task[t].report.at = sent[h]
        /\ task[t].report.state = Reports(h)[sent[h]]
        /\ sent[h] \in 1..Len(Reports(h))
        /\ record[h].at \in 1..sent[h]
        /\ record[h].state = Reports(h)[record[h].at]
    <3>1. Handles(t, h)
      BY <1>1, <1>2 DEF Handles
    <3>2. /\ \A u \in Tasks : Handles(u, h) <=> u = t
          /\ task[t].stored = record[h]
          /\ task[t].report.at = sent[h]
      BY <1>1, <1>3, <3>1 DEF Sound, Serial
    <3>3. /\ task[t].report = Report(h, sent[h])
          /\ sent[h] \in 1..sent[h]
          /\ sent[h] <= Len(Reports(h))
          /\ sent[h] \in Nat
      BY <1>1, <1>3, <3>1, <3>2 DEF Sound, FromReports, TypeOK
    <3>4. sent[h] \in 1..Len(Reports(h))
      BY <1>1, <3>3, ScriptType
    <3>5. record[h].at \in 1..sent[h] /\ record[h].state = Reports(h)[record[h].at]
      BY <1>3, <1>6 DEF Sound, FromReports
    <3>. QED
      BY <3>2, <3>3, <3>4, <3>5 DEF Report
  <2>4. \A u \in Tasks : Announcing(u, h)' <=> u = t
    BY <1>5, <1>14, <2>3 DEF Announcing, Handles
  <2>5. \A u \in Tasks : ~Announcing(u, h)
    BY <1>1, <2>3 DEF Announcing
  <2>6. record[h].state = Outcome(h) => task[t].report.state = Outcome(h)
    <3>1. record[h].at \in 1..Len(Reports(h)) /\ Len(Reports(h)) \in Nat
      BY <1>1, <2>3, ScriptType
    <3>2. record[h].state = Outcome(h) => record[h].at = Len(Reports(h))
      BY <1>1, <2>3, <3>1, OutcomeLast
    <3>3. record[h].state = Outcome(h) => sent[h] = Len(Reports(h))
      BY <2>3, <3>1, <3>2
    <3>. QED
      BY <2>3, <3>3 DEF Outcome
  <2>7. Emits(task[t])' = IF Kind(h) # "receive" /\ task[t].report.state # record[h].state
                          THEN {task[t].report.state} \cap Events
                          ELSE {}
    <3>1. Emits(task[t])' = Emits(task[t])
      BY <1>4, <1>14, <1>2 DEF Emits, PaymentEmits, ReceiveEmits, ForwardEmits, Created,
                               Turned, OutcomeOf, Kind
    <3>. QED
      BY <1>1, <1>2, <2>3, <3>1, EmitsTurned
  <2>8. Outcome(h) \in Events
    BY <1>1, <2>3, OutcomeLast DEF Events
  <2>9. ASSUME InFlightFirst(h) \/ Kind(h) = "receive"
        PROVE  emitted[h][Outcome(h)] =
                 IF record'[h].state = Outcome(h) /\ ~(Outcome(h) \in Emits(task[t])')
                 THEN 1 ELSE 0
    <3>1. emitted[h][Outcome(h)] = IF record[h].state = Outcome(h) THEN 1 ELSE 0
      BY <1>3, <1>6, <2>5, <2>9 DEF Sound, Announced
    <3>2. CASE record[h].state = Outcome(h)
      BY <1>10, <2>6, <2>7, <3>1, <3>2
    <3>3. CASE record[h].state # Outcome(h)
      <4>1. Kind(h) # "receive"
        <5>. SUFFICES ASSUME Kind(h) = "receive"
                      PROVE  FALSE
          OBVIOUS
        <5>1. Len(Reports(h)) = 1
          BY <1>1, ScriptType
        <5>2. record[h].at = 1
          BY <2>3, <5>1
        <5>. QED
          BY <2>3, <3>3, <5>1, <5>2 DEF Outcome
      <4>. QED
        BY <1>10, <2>7, <2>8, <3>1, <3>3, <4>1
    <3>. QED
      BY <3>2, <3>3
  <2>10. InFlightFirst(h) => emitted[h]["attempting"] = IF Unannounced(h) THEN 0 ELSE 1
    BY <1>3 DEF Sound, Announced
  <2>11. (\E u \in Tasks : Announcing(u, h)' /\ Outcome(h)' \in Emits(task[u])')
           <=> Outcome(h) \in Emits(task[t])'
    BY <2>1, <2>4
  <2>. QED
    BY <1>4, <1>11, <2>1, <2>2, <2>9, <2>10, <2>11 DEF Announced
<1>. QED
  BY <1>13, <1>16, <1>17 DEF Sound

\* An announcement is of the creation, which is then out, or of the outcome,
\* which only the last report brings.
LEMMA AnnounceSound ==
  ASSUME HtlcIInv, NEW t \in Tasks, Announce(t)
  PROVE  \A g \in Htlcs : Sound(g)'
<1>1. TypeOK /\ task[t] # Idle /\ task[t].pc = "announce"
  BY BusyPc DEF HtlcIInv, Announce
<1>2. PICK h \in Htlcs : h = task[t].htlc
  BY <1>1, RunningFields
<1>3. Sound(h)
  BY DEF HtlcIInv
<1>4. UNCHANGED <<script, sent, record, overlap, lost, faults, repeats>>
  BY DEF Announce, ghosts
<1>5. /\ \A u \in Tasks \ {t} : task'[u] = task[u]
      /\ task'[t] = Idle
  BY <1>1 DEF Announce, Finish, TypeOK
<1>6. /\ \A g \in Htlcs \ {h} : emitted'[g] = emitted[g]
      /\ \A e \in Events : emitted'[h][e] = IF e \in Emits(task[t]) THEN emitted[h][e] + 1
                                                                    ELSE emitted[h][e]
      /\ \A e \in Events : emitted[h][e] \in Nat
  BY <1>1, <1>2 DEF Announce, TypeOK
<1>7. \A g \in Htlcs \ {h} : Sound(g)'
  BY <1>1, <1>2, <1>4, <1>5, <1>6, OthersSound
<1>8. Announcing(t, h) /\ (Creates(t, h) <=> Created(task[t]))
  BY <1>1, <1>2 DEF Announcing, Creates, Handles, Created
<1>9. /\ task[t].report.at \in 1..sent[h]
      /\ sent[h] <= Len(Reports(h)) /\ sent[h] \in Nat
      /\ task[t].report.at \in 1..Len(Reports(h))
      /\ task[t].report.state = Reports(h)[task[t].report.at]
      /\ task[t].report.mtokens <=> task[t].report.at = 1
  <2>1. /\ task[t].report.at \in 1..sent[h]
        /\ task[t].report = Report(h, task[t].report.at)
        /\ sent[h] <= Len(Reports(h)) /\ sent[h] \in Nat
    BY <1>1, <1>3, <1>8 DEF Sound, FromReports, Announcing, TypeOK
  <2>2. task[t].report.at \in 1..Len(Reports(h))
    BY <1>1, <2>1, ScriptType
  <2>. QED
    BY <1>1, <2>1, <2>2, ReportType
<1>10. /\ Kind(h)' = Kind(h)
       /\ Reports(h)' = Reports(h)
       /\ \A i : Report(h, i)' = Report(h, i)
       /\ Outcome(h)' = Outcome(h)
       /\ InFlightFirst(h)' <=> InFlightFirst(h)
       /\ \A e : OfCreation(h, e)' <=> OfCreation(h, e)
  BY <1>4 DEF Kind, Reports, Report, Outcome, InFlightFirst, OfCreation
<1>11. \A u \in Tasks : Handles(u, h)' <=> Handles(u, h) /\ u # t
  BY <1>5 DEF Handles
<1>12. \A u \in Tasks : Creates(u, h)' <=> Creates(u, h) /\ u # t
  BY <1>5, <1>11 DEF Creates, Announcing
<1>13. ASSUME ~Created(task[t]), NEW e \in Events, OfCreation(h, e)
       PROVE  e \notin Emits(task[t])
  <2>1. task[t].report.state # "attempting"
    BY <1>1, RunningFields DEF ReportSet, States
  <2>. QED
    BY <1>1, <1>2, <1>13, <2>1, EmitsTurned DEF OfCreation
<1>14. FromReports(h)'
  BY <1>3, <1>4, <1>5, <1>10, <1>11 DEF Sound, FromReports
<1>15. CreatedOnce(h)'
  <2>1. record[h] # NoRecord \/ ~Created(task[t])
    BY <1>3, <1>8 DEF Sound, CreatedOnce
  <2>2. CASE Created(task[t])
    <3>1. \A u \in Tasks : ~Creates(u, h)'
      BY <1>3, <1>8, <1>12, <2>2 DEF Sound, CreatedOnce
    <3>2. \A e \in Events : OfCreation(h, e) => emitted'[h][e] <= 1
      BY <1>3, <1>6, <1>8, <2>2 DEF Sound, CreatedOnce
    <3>. QED
      BY <1>4, <1>10, <2>1, <2>2, <3>1, <3>2 DEF CreatedOnce
  <2>3. CASE ~Created(task[t])
    <3>1. \A e \in Events : OfCreation(h, e) => emitted'[h][e] = emitted[h][e]
      BY <1>6, <1>13, <2>3
    <3>. QED
      BY <1>3, <1>4, <1>10, <1>12, <3>1 DEF Sound, CreatedOnce
  <2>. QED
    BY <2>2, <2>3
<1>16. ResolvedOnce(h)'
  <2>. SUFFICES ASSUME repeats = 0
                PROVE  ResolvedOnce(h)'
    BY <1>4 DEF ResolvedOnce
  <2>1. \A u, v \in Tasks :
          (Handles(u, h)' /\ Handles(v, h)' /\ task'[u].report.at = task'[v].report.at) => u = v
    BY <1>3, <1>5, <1>11 DEF Sound, ResolvedOnce
  <2>2. ASSUME NEW e \in Events \ {"attempting"}
        PROVE  /\ emitted'[h][e] <= 1
               /\ emitted'[h][e] = 1 =>
                    /\ sent[h] = Len(Reports(h))
                    /\ \A u \in Tasks : Handles(u, h)' => task'[u].report.at # sent[h]
    <3>1. CASE e \in Emits(task[t])
      <4>1. e = task[t].report.state /\ e \in {"settled", "failed"}
        BY <1>1, <2>2, <3>1, EmitsReported DEF Events
      <4>2. task[t].report.at = Len(Reports(h)) /\ Len(Reports(h)) \in Nat
        BY <1>1, <1>9, <4>1, OutcomeLast, ScriptType
      <4>3. sent[h] = Len(Reports(h)) /\ task[t].report.at = sent[h]
        BY <1>9, <4>2
      <4>4. emitted[h][e] = 0
        BY <1>3, <1>6, <1>8, <4>3 DEF Sound, ResolvedOnce, Announcing
      <4>5. \A u \in Tasks : Handles(u, h)' => task'[u].report.at # sent[h]
        BY <1>3, <1>5, <1>8, <1>11, <4>3 DEF Sound, ResolvedOnce, Announcing
      <4>. QED
        BY <1>6, <3>1, <4>3, <4>4, <4>5
    <3>2. CASE e \notin Emits(task[t])
      BY <1>3, <1>5, <1>6, <1>11, <3>2 DEF Sound, ResolvedOnce
    <3>. QED
      BY <3>1, <3>2
  <2>. QED
    BY <1>4, <1>10, <2>1, <2>2 DEF ResolvedOnce
<1>17. ~overlap[h] => /\ \A u \in Tasks : Handles(u, h) <=> u = t
                      /\ task[t].report.at = sent[h]
                      /\ record[h] # NoRecord
                      /\ record[h].state = task[t].report.state
  BY <1>3, <1>8 DEF Sound, Serial, Announcing
<1>18. ~overlap[h] => ~Unannounced(h)'
  BY <1>4, <1>11, <1>17 DEF Unannounced, Creates, Announcing
<1>19. Serial(h)'
  <2>. SUFFICES ASSUME ~overlap[h]
                PROVE  Serial(h)'
    BY <1>4 DEF Serial
  <2>1. \A u \in Tasks : ~Handles(u, h)'
    BY <1>11, <1>17
  <2>. QED
    BY <1>3, <1>4, <1>9, <1>10, <1>17, <1>18, <2>1 DEF Sound, Serial
<1>20. Announced(h)'
  <2>. SUFFICES ASSUME ~overlap[h], faults = 0
                PROVE  Announced(h)'
    BY <1>4 DEF Announced
  <2>1. \A u \in Tasks : ~Announcing(u, h)'
    BY <1>11, <1>17 DEF Announcing
  <2>2. ASSUME InFlightFirst(h)
        PROVE  emitted'[h]["attempting"] = 1
    <3>1. "attempting" \in Events
      BY DEF Events
    <3>2. CASE Created(task[t])
      <4>1. emitted[h]["attempting"] = 0
        BY <1>3, <1>8, <3>1, <3>2 DEF Sound, CreatedOnce, OfCreation
      <4>2. Unannounced(h) /\ ~lost[h]
        BY <1>3, <1>8, <3>2 DEF Unannounced, Sound, Serial
      <4>3. sent[h] <= 1
        BY <1>3, <4>2 DEF Sound, Serial
      <4>4. task[t].report.at = 1
        BY <1>9, <4>3
      <4>5. Kind(h) \in {"payment", "forward"}
        BY <1>1, <1>9, <2>2, ScriptType DEF Kinds, InFlightFirst
      <4>6. "attempting" \in Emits(task[t])
        BY <1>2, <1>9, <2>2, <3>2, <4>4, <4>5
           DEF Emits, PaymentEmits, ForwardEmits, InFlightFirst
      <4>. QED
        BY <1>6, <3>1, <4>1, <4>6
    <3>3. CASE ~Created(task[t])
      <4>1. ~Unannounced(h)
        BY <1>8, <1>17, <3>3 DEF Unannounced, Creates, Announcing
      <4>2. emitted[h]["attempting"] = 1
        BY <1>3, <2>2, <4>1 DEF Sound, Announced
      <4>3. "attempting" \notin Emits(task[t])
        BY <1>13, <3>1, <3>3 DEF OfCreation
      <4>. QED
        BY <1>6, <3>1, <4>2, <4>3
    <3>. QED
      BY <3>2, <3>3
  <2>3. ASSUME InFlightFirst(h) \/ Kind(h) = "receive"
        PROVE  emitted'[h][Outcome(h)] = IF record[h].state = Outcome(h) THEN 1 ELSE 0
    <3>1. Outcome(h) \in Events /\ Outcome(h) # "attempting"
      BY <1>1, <1>9, OutcomeLast DEF Events
    <3>2. (\E u \in Tasks : Announcing(u, h) /\ Outcome(h) \in Emits(task[u]))
            <=> Outcome(h) \in Emits(task[t])
      BY <1>8, <1>17 DEF Announcing
    <3>3. emitted[h][Outcome(h)] =
            IF record[h].state = Outcome(h) /\ Outcome(h) \notin Emits(task[t]) THEN 1 ELSE 0
      BY <1>3, <1>17, <2>3, <3>2 DEF Sound, Announced
    <3>4. Outcome(h) \in Emits(task[t]) => record[h].state = Outcome(h)
      BY <1>1, <1>17, <3>1, EmitsReported
    <3>. QED
      BY <1>6, <3>1, <3>3, <3>4
  <2>. QED
    BY <1>4, <1>10, <1>17, <1>18, <2>1, <2>2, <2>3 DEF Announced
<1>. QED
  BY <1>7, <1>14, <1>15, <1>16, <1>19, <1>20 DEF Sound

-----------------------------------------------------------------------------
(* The theorems *)

LEMMA InitSound == Init => HtlcIInv
<1>. SUFFICES ASSUME Init
              PROVE  HtlcIInv
  OBVIOUS
<1>1. TypeOK
  <2>1. emitted \in [Htlcs -> [Events -> Nat]]
    BY DEF Init
  <2>2. \A h \in Htlcs : sent[h] <= Len(Reports(h))
    <3>. SUFFICES ASSUME NEW h \in Htlcs
                  PROVE  0 <= Len(Reports(h))
      BY DEF Init
    <3>1. script[h].reports \in Seq(States)
      BY HtlcSyncAssumption DEF Init, HtlcSyncAssumption
    <3>. QED
      BY <3>1 DEF Reports
  <2>. QED
    BY <2>1, <2>2, HtlcSyncAssumption DEF Init, TypeOK, HtlcSyncAssumption
<1>2. ASSUME NEW h \in Htlcs
      PROVE  Sound(h)
  <2>1. \A t \in Tasks : ~Handles(t, h)
    BY DEF Init, Handles
  <2>2. \A t \in Tasks : ~Creates(t, h) /\ ~Announcing(t, h)
    BY <2>1 DEF Creates, Announcing
  <2>3. /\ record[h] = NoRecord /\ sent[h] = 0 /\ ~lost[h]
        /\ \A e \in Events : emitted[h][e] = 0
    BY DEF Init
  <2>4. FromReports(h)
    BY <2>1, <2>3 DEF FromReports
  <2>5. CreatedOnce(h)
    BY <2>2, <2>3 DEF CreatedOnce
  <2>6. ResolvedOnce(h)
    BY <2>1, <2>3 DEF ResolvedOnce
  <2>7. Serial(h)
    BY <2>1, <2>3 DEF Serial
  <2>8. Announced(h)
    <3>1. Outcome(h) \in Events
      BY <1>1, ScriptType, OutcomeLast DEF Events
    <3>2. "attempting" \in Events
      BY DEF Events
    <3>. QED
      BY <2>3, <3>1, <3>2 DEF Announced, Unannounced
  <2>. QED
    BY <2>4, <2>5, <2>6, <2>7, <2>8 DEF Sound
<1>. QED
  BY <1>1, <1>2 DEF HtlcIInv

LEMMA StepSound == HtlcIInv /\ [Next]_vars => HtlcIInv'
<1>. SUFFICES ASSUME HtlcIInv, [Next]_vars
              PROVE  HtlcIInv'
  OBVIOUS
<1>1. TypeOK'
  BY TypeKeeps
<1>2. ASSUME UNCHANGED vars
      PROVE  \A g \in Htlcs : Sound(g)'
  BY <1>2, Untouched DEF vars, ghosts
<1>3. (\A g \in Htlcs : Sound(g))'
  BY <1>2, EventSound, EventAgainSound, GetStoredSound, ExecuteCreateSound,
     ExecuteUpdateSound, NothingToDoSound, AnnounceSound, ConflictSound, CallFailsSound
     DEF Next, Step, Quiescent
<1>. QED
  BY <1>1, <1>3 DEF HtlcIInv

LEMMA HtlcIInvHolds == Spec => []HtlcIInv
BY InitSound, StepSound, PTL DEF Spec

\* The handlers, the rows and the counters have their types, whatever LND
\* reports and however the handlers interleave, fail and retry.
THEOREM HtlcTypeCorrect == Spec => []TypeOK
<1>1. HtlcIInv => TypeOK
  BY DEF HtlcIInv
<1>. QED
  BY <1>1, HtlcIInvHolds, PTL

\* An HTLC is announced as attempted at most once, and a received one once,
\* whatever races, retries and repeats; the outcome of a payment or a forward
\* is announced at most once unless LND's reports are delivered again
\* (update_payment_htlc.js, update_receive_htlc.js, update_forward_htlc.js).
THEOREM HtlcInvHolds == Spec => []HtlcInv
<1>1. HtlcIInv => HtlcInv
  BY DEF HtlcIInv, Sound, CreatedOnce, ResolvedOnce, OfCreation, HtlcInv, EmittedOnce
<1>. QED
  BY <1>1, HtlcIInvHolds, PTL

\* An HTLC whose handlers did not overlap is recorded with the outcome that LND
\* reported and with its amount, and both its attempt and its outcome are
\* announced when no call of the database failed.
THEOREM ReportedWhenSerialHolds == Spec => []ReportedWhenSerial
<1>1. HtlcIInv => ReportedWhenSerial
  <2>. SUFFICES ASSUME HtlcIInv, NEW h \in Htlcs, AtRest(h), ~overlap[h]
                PROVE  /\ ~lost[h] => /\ record[h] # NoRecord
                                      /\ record[h].state = Outcome(h)
                                      /\ Kind(h) # "receive" => record[h].mtokens
                       /\ faults = 0 =>
                            /\ Reports(h)[1] = "inflight" \/ Kind(h) = "receive" =>
                                 emitted[h][Outcome(h)] = 1
                            /\ Reports(h)[1] = "inflight" => emitted[h]["attempting"] = 1
    BY DEF ReportedWhenSerial, RecordedWhenSerial, OutcomeEmittedWhenSerial
  <2>1. TypeOK /\ Sound(h) /\ ~Busy(h) /\ sent[h] = Len(Reports(h)) /\ sent[h] > 0
    BY ScriptType DEF HtlcIInv, AtRest
  <2>2. ~lost[h] => /\ record[h] # NoRecord
                    /\ record[h].state = Outcome(h)
                    /\ Kind(h) # "receive" => record[h].mtokens
    BY <2>1 DEF Sound, Serial, Outcome
  <2>3. ASSUME faults = 0
        PROVE  /\ InFlightFirst(h) \/ Kind(h) = "receive" => emitted[h][Outcome(h)] = 1
               /\ InFlightFirst(h) => emitted[h]["attempting"] = 1
    <3>1. ~lost[h]
      BY <2>1, <2>3 DEF Sound, Serial
    <3>2. \A t \in Tasks : ~Announcing(t, h) /\ ~Creates(t, h)
      BY <2>1 DEF Announcing, Creates, Handles, Busy
    <3>3. ~Unannounced(h)
      BY <2>2, <3>1, <3>2 DEF Unannounced
    <3>. QED
      BY <2>1, <2>2, <2>3, <3>1, <3>2, <3>3 DEF Sound, Announced
  <2>. QED
    BY <2>2, <2>3 DEF InFlightFirst
<1>. QED
  BY <1>1, HtlcIInvHolds, PTL

=============================================================================
