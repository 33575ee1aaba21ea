------------------------------ MODULE HtlcSync ------------------------------
(***************************************************************************)
(* The tables of payment, receive and forward HTLCs.  Each event of an     *)
(* HTLC starts a handler of its own: eventPaymentHtlc, eventReceiveHtlc    *)
(* and eventForwardHtlc run updatePaymentHtlc, updateReceiveHtlc and       *)
(* updateForwardHtlc, the first two under a retry loop.  LND reports an    *)
(* HTLC in flight and soon after resolved, so that two handlers of one     *)
(* HTLC may be under way.                                                  *)
(***************************************************************************)
EXTENDS Naturals, Sequences, Database

CONSTANTS
  Htlcs,        \* HTLC keys
  Scripts,      \* what LND may report of an HTLC: its kind, and its states
  Unset,        \* a revision that was set to undefined
  Tasks,        \* handlers that can be in flight at once
  MaxTries,     \* attempts of asyncRetry: 1e3 in the code
  MaxFaults,    \* bound on database calls that fail
  MaxRepeats    \* bound on reports that are delivered again

Kinds == {"payment", "receive", "forward"}
States == {"inflight", "settled", "failed"}

\* What is emitted for an HTLC.  "attempting" is 'attempting_payment' or
\* 'forwarding'; "settled" is 'attempt_payment_sent', 'received_htlc' or
\* 'forwarded_payment'; "failed" is 'attempt_payment_failed',
\* 'rejected_payment' or 'failed_forward'
Events == {"attempting", "settled", "failed"}

\* LND reports an HTLC in flight any number of times and resolves it once; a
\* receive is only reported when it is resolved, as eventReceiveHtlc relies on
ResolvedLast(s) ==
  LET n == Len(s.reports)
  IN  /\ n > 0
      /\ \A i \in 1..n : s.reports[i] = "inflight" <=> i < n
      /\ s.kind = "receive" => n = 1

ASSUME HtlcSyncAssumption ==
  /\ Scripts \subseteq [kind : Kinds, reports : Seq(States)]
  /\ \A s \in Scripts : ResolvedLast(s)
  /\ Unset \notin Nat
  /\ MaxTries \in Nat \ {0}
  /\ MaxFaults \in Nat
  /\ MaxRepeats \in Nat

VARIABLES
  script,    \* script[h]: the kind of h and the states LND reports, in order
  sent,      \* sent[h]: how many of them it has reported
  record,    \* the table
  task,      \* the handlers in flight
  emitted,   \* emitted[h][e]: times e was emitted for h
  overlap,   \* an event of h came while a handler of h was in flight
  lost,      \* a handler of h ended without its write
  faults,    \* failed calls so far
  repeats    \* reports delivered again so far

ghosts == <<overlap, lost, faults, repeats>>
vars == <<script, sent, record, task, emitted, ghosts>>

Kind(h) == script[h].kind
Reports(h) == script[h].reports

\* at: which report it was, for the time of the HTLC update
\* mtokens: is the amount known; only the first report has it
Report(h, i) == [state |-> Reports(h)[i], at |-> i, mtokens |-> i = 1]

Record == [rev : Nat \cup {Unset}, state : States, at : Nat, mtokens : BOOLEAN]

ASSUME NoHtlcRecord == NoRecord \notin Record

Idle == [pc |-> "idle"]

Running == [pc : {"getStored", "execute", "announce"}, htlc : Htlcs,
            report : [state : States, at : Nat, mtokens : BOOLEAN],
            stored : Record \cup {NoRecord}, tries : 1..MaxTries]

TypeOK ==
  /\ script \in [Htlcs -> Scripts]
  /\ sent \in [Htlcs -> Nat]
  /\ \A h \in Htlcs : sent[h] <= Len(Reports(h))
  /\ record \in [Htlcs -> Record \cup {NoRecord}]
  /\ task \in [Tasks -> Running \cup {Idle}]
  /\ emitted \in [Htlcs -> [Events -> Nat]]
  /\ overlap \in [Htlcs -> BOOLEAN]
  /\ lost \in [Htlcs -> BOOLEAN]
  /\ faults \in 0..MaxFaults
  /\ repeats \in 0..MaxRepeats

Init ==
  /\ script \in [Htlcs -> Scripts]
  /\ sent = [h \in Htlcs |-> 0]
  /\ record = [h \in Htlcs |-> NoRecord]
  /\ task = [t \in Tasks |-> Idle]
  /\ emitted = [h \in Htlcs |-> [e \in Events |-> 0]]
  /\ overlap = [h \in Htlcs |-> FALSE]
  /\ lost = [h \in Htlcs |-> FALSE]
  /\ faults = 0
  /\ repeats = 0

-----------------------------------------------------------------------------

Attempt(h, report, tries) ==
  [pc |-> "getStored", htlc |-> h, report |-> report, stored |-> NoRecord,
   tries |-> tries]

Busy(h) == \E t \in Tasks : task[t] # Idle /\ task[t].htlc = h

\* Report i of h reaches the handler of its kind
Deliver(h, i) ==
  /\ \E t \in Tasks :
       /\ task[t] = Idle
       /\ task' = [task EXCEPT ![t] = Attempt(h, Report(h, i), 1)]
  /\ overlap' = [overlap EXCEPT ![h] = @ \/ Busy(h)]
  /\ UNCHANGED <<script, record, emitted, lost, faults>>

\* A 'forward' event of the subscription
HtlcEvent(h) ==
  /\ sent[h] < Len(Reports(h))
  /\ sent' = [sent EXCEPT ![h] = @ + 1]
  /\ Deliver(h, sent[h] + 1)
  /\ UNCHANGED repeats

\* The same event once more, from another generation of the subscription
HtlcEventAgain(h) ==
  /\ sent[h] > 0
  /\ repeats < MaxRepeats
  /\ repeats' = repeats + 1
  /\ Deliver(h, sent[h])
  /\ UNCHANGED sent

GetStored(t) ==
  /\ task[t].pc = "getStored"
  /\ task' = [task EXCEPT ![t].pc = "execute",
                          ![t].stored = record[task[t].htlc]]
  /\ UNCHANGED <<script, sent, record, emitted, ghosts>>

\* The first record of a payment or a forward ...
NewRecord(report) ==
  [rev |-> 0, state |-> report.state, at |-> report.at, mtokens |-> report.mtokens]

\* ... and of a receive, which has no amount and begins at revision 1
NewReceive(report) ==
  [rev |-> 1, state |-> report.state, at |-> report.at, mtokens |-> FALSE]

ExecuteCreate(t) ==
  LET h == task[t].htlc
  IN  /\ task[t].pc = "execute"
      /\ task[t].stored = NoRecord
      /\ MayPut(record[h])
      /\ record' = [record EXCEPT ![h] = IF Kind(h) = "receive"
                                         THEN NewReceive(task[t].report)
                                         ELSE NewRecord(task[t].report)]
      /\ task' = [task EXCEPT ![t].pc = "announce"]
      /\ UNCHANGED <<script, sent, emitted, ghosts>>

\* A mistake: an amount the report lacks is removed
AmountRemoved(r, report) ==
  [r EXCEPT !.state = report.state, !.at = report.at, !.mtokens = report.mtokens]

\* The update of a payment or a forward keeps an amount that the report lacks
PaymentUpdate(r, report) ==
  [r EXCEPT !.state = report.state, !.at = report.at,
            !.mtokens = @ \/ report.mtokens]

ReceiveUpdate(r, report) == [r EXCEPT !.state = report.state, !.at = report.at]

Updated(h, r, report) ==
  IF Kind(h) = "receive" THEN ReceiveUpdate(r, report) ELSE PaymentUpdate(r, report)

\* changesToRecord: a forward always has changes, for its key buffers differ
HasChanges(h, r, report) == Kind(h) = "forward" \/ Updated(h, r, report) # r

\* _rev is increased, but for a forward it is compared as an attribute that
\* the update lacks, and set to undefined: the database drops it or keeps it
NextRevs(h, rev) == IF Kind(h) = "forward" THEN {Unset, rev} ELSE {rev + 1}

ShouldUpdate(t) ==
  LET run == task[t]
  IN  run.stored # NoRecord /\ HasChanges(run.htlc, run.stored, run.report)

ExecuteUpdate(t) ==
  LET h == task[t].htlc
  IN  /\ task[t].pc = "execute"
      /\ ShouldUpdate(t)
      /\ MayUpdate(record[h], task[t].stored.rev)
      /\ \E rev \in NextRevs(h, record[h].rev) :
           record' = [record EXCEPT ![h] =
                        [Updated(h, record[h], task[t].report) EXCEPT !.rev = rev]]
      /\ task' = [task EXCEPT ![t].pc = "announce"]
      /\ UNCHANGED <<script, sent, emitted, ghosts>>

Finish(t) == task' = [task EXCEPT ![t] = Idle]

\* The record says so already
NothingToDo(t) ==
  /\ task[t].pc = "execute"
  /\ task[t].stored # NoRecord
  /\ ~ShouldUpdate(t)
  /\ Finish(t)
  /\ UNCHANGED <<script, sent, record, emitted, ghosts>>

Created(run) == run.stored = NoRecord
Turned(run) == ~Created(run) /\ run.report.state # run.stored.state

\* The report's outcome as an event: none while it is in flight
OutcomeOf(run) == {run.report.state} \cap Events

\* A mistake: the attempt is announced whether or not the record is new
PaymentEmitsAttempts(run) == IF run.report.mtokens THEN {"attempting"} ELSE {}

\* A payment that fails at once is announced as attempted, not as failed
PaymentEmits(run) ==
  IF Created(run) /\ run.report.mtokens THEN {"attempting"}
  ELSE IF Turned(run) THEN OutcomeOf(run) ELSE {}

\* A receive is announced when it is recorded first
ReceiveEmits(run) == IF Created(run) THEN OutcomeOf(run) ELSE {}

\* A forward that fails at once is not announced
ForwardEmits(run) ==
  IF Created(run) /\ run.report.state = "inflight" THEN {"attempting"}
  ELSE IF Turned(run) THEN OutcomeOf(run) ELSE {}

\* What a handler emits once its write is confirmed: at most one event
Emits(run) ==
  CASE Kind(run.htlc) = "payment" -> PaymentEmits(run)
    [] Kind(run.htlc) = "receive" -> ReceiveEmits(run)
    [] Kind(run.htlc) = "forward" -> ForwardEmits(run)

Announce(t) ==
  /\ task[t].pc = "announce"
  /\ emitted' = [emitted EXCEPT ![task[t].htlc] =
                   [e \in Events |-> IF e \in Emits(task[t]) THEN @[e] + 1 ELSE @[e]]]
  /\ Finish(t)
  /\ UNCHANGED <<script, sent, record, ghosts>>

\* A mistake: no retry
LetGo(t) == Finish(t) /\ UNCHANGED lost

\* Payments and receives are tried again; the error of a forward is emitted
RetryOrGiveUp(t) ==
  LET run == task[t]
  IN  IF Kind(run.htlc) # "forward" /\ run.tries < MaxTries
      THEN /\ task' = [task EXCEPT ![t] = Attempt(run.htlc, run.report, run.tries + 1)]
           /\ UNCHANGED lost
      ELSE /\ Finish(t)
           /\ lost' = [lost EXCEPT ![run.htlc] = TRUE]

\* putItem finds a record, or updateItem another revision
Conflict(t) ==
  LET run == task[t]
      stored == record[run.htlc]
  IN  /\ run.pc = "execute"
      /\ \/ run.stored = NoRecord /\ ~MayPut(stored)
         \/ ShouldUpdate(t) /\ ~MayUpdate(stored, run.stored.rev)
      /\ RetryOrGiveUp(t)
      /\ UNCHANGED <<script, sent, record, emitted, overlap, faults, repeats>>

\* A call to the database fails; at "announce" its write took effect
CallFails(t) ==
  /\ task[t] # Idle
  /\ faults < MaxFaults
  /\ faults' = faults + 1
  /\ RetryOrGiveUp(t)
  /\ UNCHANGED <<script, sent, record, emitted, overlap, repeats>>

-----------------------------------------------------------------------------

Step(t) ==
  \/ GetStored(t)
  \/ ExecuteCreate(t)
  \/ ExecuteUpdate(t)
  \/ NothingToDo(t)
  \/ Announce(t)
  \/ Conflict(t)

\* Every HTLC is resolved and handled: the subscription waits for another
Quiescent ==
  /\ \A t \in Tasks : task[t] = Idle
  /\ \A h \in Htlcs : sent[h] = Len(Reports(h))
  /\ UNCHANGED vars

Next ==
  \/ Quiescent
  \/ \E h \in Htlcs : HtlcEvent(h) \/ HtlcEventAgain(h)
  \/ \E t \in Tasks : Step(t) \/ CallFails(t)

Spec == Init /\ [][Next]_vars

\* Every database call is answered in the end
FairSpec == Spec /\ \A t \in Tasks : WF_vars(Step(t))

-----------------------------------------------------------------------------
(* Properties *)

\* The handlers of an HTLC retry and race, and its reports may come again from
\* another generation of the subscription.  What follows from creating the
\* record is emitted once whatever happens; the outcome of a payment or of a
\* forward is emitted once unless reports are repeated.
EmittedOnce ==
  \A h \in Htlcs, e \in Events :
    (e = "attempting" \/ Kind(h) = "receive" \/ repeats = 0) => emitted[h][e] <= 1

\* The types of the rows and of the events, and that these are not repeated
HtlcInv == TypeOK /\ EmittedOnce

Outcome(h) == Reports(h)[Len(Reports(h))]

AtRest(h) == sent[h] = Len(Reports(h)) /\ ~Busy(h)

\* An HTLC whose handlers did not overlap ends up in the table with the state
\* LND reported last and the amount it reported first.
RecordedWhenSerial ==
  \A h \in Htlcs : (AtRest(h) /\ ~overlap[h] /\ ~lost[h]) =>
    /\ record[h] # NoRecord
    /\ record[h].state = Outcome(h)
    /\ Kind(h) # "receive" => record[h].mtokens

\* When moreover no call failed, an HTLC that was reported in flight is
\* announced as attempted and then with its outcome, and so is a receive.
OutcomeEmittedWhenSerial ==
  \A h \in Htlcs : (AtRest(h) /\ ~overlap[h] /\ faults = 0) =>
    LET inFlightFirst == Reports(h)[1] = "inflight"
    IN  /\ inFlightFirst \/ Kind(h) = "receive" => emitted[h][Outcome(h)] = 1
        /\ inFlightFirst => emitted[h]["attempting"] = 1

\* The handlers of an HTLC whose reports are apart lose nothing: neither in the
\* table nor in what they announce.
ReportedWhenSerial == RecordedWhenSerial /\ OutcomeEmittedWhenSerial

\* The table follows the reports also when handlers overlap: "Keep the local
\* db using data event streams" (src/events/sync_from_data_events.js:21).
ResolvedAtRest ==
  \A h \in Htlcs : (AtRest(h) /\ ~lost[h]) => record[h].state = Outcome(h)

\* Every HTLC whose events are handled is in its table in the end.
EventuallyRecorded ==
  \A h \in Htlcs : (sent[h] > 0) ~> (record[h] # NoRecord \/ lost[h])

=============================================================================
