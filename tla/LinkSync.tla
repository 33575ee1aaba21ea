------------------------------ MODULE LinkSync ------------------------------
(***************************************************************************)
(* The tables of links that are up or down: the policies of a channel      *)
(* (syncChannelPolicy), the peers (syncPeer) and the own channels          *)
(* (syncLocalChannel), with the handlers that run them under a retry loop  *)
(* and announce a link that turned.  syncCurrentRecords runs the first two *)
(* as well and drops their results: those runs are quiet.                  *)
(***************************************************************************)
EXTENDS Integers, Sequences, Database

CONSTANTS
  Links,        \* keys of rows: a policy, a peer or an own channel
  Scripts,      \* what LND may know of a link over time: its kind, its states
  Others,       \* values of the other attributes: fees, features, balances
  NoFeatures,   \* that of a peer that tells none of its features
  Tasks,        \* runs that can be in flight at once
  MaxTries,     \* attempts of asyncRetry: 1e3 for a policy, 20 for the others
  MaxFaults,    \* bound on calls to LND or the database that fail
  MaxQuiet      \* bound on quiet runs

Kinds == {"policy", "peer", "channel"}

\* "absent": no such channel or peer; "bare": a channel whose policy has no
\* details; a policy is up when it is not disabled, a peer when it is
\* connected, a channel when it is active
State == [state : {"absent", "bare", "down", "up"}, other : Others]

ASSUME LinkSyncAssumption ==
  /\ Scripts \subseteq [kind : Kinds, states : Seq(State)]
  /\ MaxTries \in Nat \ {0}
  /\ MaxFaults \in Nat
  /\ MaxQuiet \in Nat

VARIABLES
  script,    \* script[k]: the kind of k, and its states in LND, in order
  now,       \* now[k]: which of them is the case, 0 before the first
  record,    \* the rows
  task,      \* the runs in flight
  emitted,   \* emitted[k]: times k was announced up and down
  born,      \* born[k]: was k up when its row was created
  missed,    \* a change no run will look at: not delivered, or given up
  overlap,   \* a run of k was in flight as k changed last
  faults,    \* failed calls so far
  quiet      \* quiet runs so far

lnd == <<script, now>>
ghosts == <<born, missed, overlap>>
bounds == <<faults, quiet>>
vars == <<lnd, record, task, emitted, ghosts, bounds>>

Kind(k) == script[k].kind
States(k) == script[k].states

\* updated_at: only a policy has one; asOf is not stored: it is the state the
\* contents were taken from
Record == [rev : Nat, up : BOOLEAN, other : Others, updated_at : Nat, asOf : Nat]

ASSUME NoLinkRecord == NoRecord \notin Record

Idle == [pc |-> "idle"]

Running == [pc : {"getStored", "getFresh", "execute", "announce"}, link : Links,
            stored : Record \cup {NoRecord}, fresh : Nat, tries : 1..MaxTries,
            loud : BOOLEAN]

TypeOK ==
  /\ script \in [Links -> Scripts]
  /\ now \in [Links -> Nat]
  /\ \A k \in Links : now[k] <= Len(States(k))
  /\ record \in [Links -> Record \cup {NoRecord}]
  /\ task \in [Tasks -> Running \cup {Idle}]
  /\ emitted \in [Links -> [{"up", "down"} -> Nat]]
  /\ born \in [Links -> BOOLEAN]
  /\ missed \in [Links -> BOOLEAN]
  /\ overlap \in [Links -> BOOLEAN]
  /\ faults \in 0..MaxFaults
  /\ quiet \in 0..MaxQuiet

Init ==
  /\ script \in [Links -> Scripts]
  /\ now = [k \in Links |-> 0]
  /\ record = [k \in Links |-> NoRecord]
  /\ task = [t \in Tasks |-> Idle]
  /\ emitted = [k \in Links |-> [up |-> 0, down |-> 0]]
  /\ born = [k \in Links |-> FALSE]
  /\ missed = [k \in Links |-> FALSE]
  /\ overlap = [k \in Links |-> FALSE]
  /\ faults = 0
  /\ quiet = 0

-----------------------------------------------------------------------------
(* LND, and the callers *)

\* A run waits before it reads the row: a policy's and a peer's for syncNode,
\* a channel's for the ninety seconds of flutterDelayMs
Attempt(k, tries, loud) ==
  [pc |-> "getStored", link |-> k, stored |-> NoRecord, fresh |-> 0,
   tries |-> tries, loud |-> loud]

Busy(k) == \E t \in Tasks : task[t] # Idle /\ task[t].link = k

Start(k, loud) ==
  \E t \in Tasks :
    /\ task[t] = Idle
    /\ task' = [task EXCEPT ![t] = Attempt(k, 1, loud)]

\* channel_updated, channel_active_changed, or a peer comes or goes: the
\* handler starts, unless the change has no event or nobody is subscribed
LinkChanges(k) ==
  /\ now[k] < Len(States(k))
  /\ now' = [now EXCEPT ![k] = @ + 1]
  /\ overlap' = [overlap EXCEPT ![k] = Busy(k)]
  /\ \/ /\ Start(k, TRUE)
        /\ missed' = [missed EXCEPT ![k] = FALSE]
     \/ /\ missed' = [missed EXCEPT ![k] = TRUE]
        /\ UNCHANGED task
  /\ UNCHANGED <<script, record, emitted, born, bounds>>

\* syncCurrentRecords comes to a policy or to a peer that was connected
SyncQuietly(k) ==
  /\ Kind(k) # "channel"
  /\ \E i \in 1..now[k] : States(k)[i].state # "absent"
  /\ quiet < MaxQuiet
  /\ quiet' = quiet + 1
  /\ Start(k, FALSE)
  /\ UNCHANGED <<lnd, record, emitted, ghosts, faults>>

-----------------------------------------------------------------------------
(* A run, one step per wait *)

GetStored(t) ==
  /\ task[t].pc = "getStored"
  /\ task' = [task EXCEPT ![t].pc = "getFresh",
                          ![t].stored = record[task[t].link]]
  /\ UNCHANGED <<lnd, record, emitted, ghosts, bounds>>

GetFresh(t) ==
  /\ task[t].pc = "getFresh"
  /\ task' = [task EXCEPT ![t].pc = "execute", ![t].fresh = now[task[t].link]]
  /\ UNCHANGED <<lnd, record, emitted, ghosts, bounds>>

\* What LND answered; before the first state it knows of no such link
StateOf(k, i) ==
  IF i = 0 THEN [state |-> "absent"] ELSE States(k)[i]

IsThere(k, i) == StateOf(k, i).state \in {"down", "up"}

\* The link as it is written: updated_at is among a policy's attributes
Contents(k, i) ==
  [up |-> StateOf(k, i).state = "up", other |-> StateOf(k, i).other,
   updated_at |-> IF Kind(k) = "policy" THEN i ELSE 0]

ContentsOf(r) == [up |-> r.up, other |-> r.other, updated_at |-> r.updated_at]

\* A peer that tells no features keeps those that were stored
Tells(k, i) == Kind(k) = "peer" => StateOf(k, i).other # NoFeatures

FreshContents(k, stored, i) ==
  IF Tells(k, i) THEN Contents(k, i) ELSE [Contents(k, i) EXCEPT !.other = stored.other]

\* A mistake: updated_at is not among the attributes that are compared
UpdateKeepsTime(k, stored, i) ==
  IF IsThere(k, i) THEN [FreshContents(k, stored, i) EXCEPT !.updated_at = stored.updated_at]
  ELSE IF Kind(k) = "peer" THEN [ContentsOf(stored) EXCEPT !.up = FALSE]
  ELSE ContentsOf(stored)

\* A mistake: a peer that is not there is left alone
UpdateOfPresent(k, stored, i) ==
  IF IsThere(k, i) THEN FreshContents(k, stored, i) ELSE ContentsOf(stored)

\* update: a peer that is not there is disconnected; a channel that is not
\* there and a policy without details are left alone
LinkUpdate(k, stored, i) ==
  IF IsThere(k, i) THEN FreshContents(k, stored, i)
  ELSE IF Kind(k) = "peer" THEN [ContentsOf(stored) EXCEPT !.up = FALSE]
  ELSE ContentsOf(stored)

ShouldCreate(t) ==
  /\ task[t].stored = NoRecord
  /\ IsThere(task[t].link, task[t].fresh)

ShouldUpdate(t) ==
  LET run == task[t]
  IN  /\ run.stored # NoRecord
      /\ LinkUpdate(run.link, run.stored, run.fresh) # ContentsOf(run.stored)

\* A row with these contents, taken from state i
Row(rev, contents, i) ==
  [rev |-> rev, up |-> contents.up, other |-> contents.other,
   updated_at |-> contents.updated_at, asOf |-> i]

Finish(t) == task' = [task EXCEPT ![t] = Idle]

NothingToDo(t) ==
  /\ task[t].pc = "execute"
  /\ ~ShouldCreate(t)
  /\ ~ShouldUpdate(t)
  /\ Finish(t)
  /\ UNCHANGED <<lnd, record, emitted, ghosts, bounds>>

ExecuteCreate(t) ==
  LET k == task[t].link
      contents == Contents(k, task[t].fresh)
  IN  /\ task[t].pc = "execute"
      /\ ShouldCreate(t)
      /\ MayPut(record[k])
      /\ record' = [record EXCEPT ![k] = Row(0, contents, task[t].fresh)]
      /\ born' = [born EXCEPT ![k] = contents.up]
      /\ task' = [task EXCEPT ![t].pc = "announce"]
      /\ UNCHANGED <<lnd, emitted, missed, overlap, bounds>>

\* A mistake: the revision that was read is not expected to be there still
ExecuteAnyUpdate(t) ==
  LET k == task[t].link
      update == LinkUpdate(k, task[t].stored, task[t].fresh)
  IN  /\ task[t].pc = "execute"
      /\ ShouldUpdate(t)
      /\ record' = [record EXCEPT ![k] = Row(@.rev + 1, update, task[t].fresh)]
      /\ task' = [task EXCEPT ![t].pc = "announce"]
      /\ UNCHANGED <<lnd, emitted, ghosts, bounds>>

\* updateItem expects the revision that was read and adds one to it
ExecuteUpdate(t) ==
  LET k == task[t].link
      stored == task[t].stored
  IN  /\ task[t].pc = "execute"
      /\ ShouldUpdate(t)
      /\ MayUpdate(record[k], stored.rev)
      /\ record' = [record EXCEPT ![k] =
           Row(@.rev + 1, LinkUpdate(k, stored, task[t].fresh), task[t].fresh)]
      /\ task' = [task EXCEPT ![t].pc = "announce"]
      /\ UNCHANGED <<lnd, emitted, ghosts, bounds>>

\* A mistake: every update of a link is announced
TurnedAnyhow(t) ==
  IF task[t].stored = NoRecord THEN {}
  ELSE {IF LinkUpdate(task[t].link, task[t].stored, task[t].fresh).up
        THEN "up" ELSE "down"}

\* The way an update turned the link: no event for a row that is new, for
\* 'policy_added' and 'new_peer' are behind a test of updates
Turned(t) ==
  LET stored == task[t].stored
      up == LinkUpdate(task[t].link, stored, task[t].fresh).up
  IN  IF stored = NoRecord \/ (stored # NoRecord /\ stored.up = up) THEN {}
      ELSE {IF up THEN "up" ELSE "down"}

\* 'policy_enabled', 'reconnected', 'channel_enabled' and their opposites
Announce(t) ==
  /\ task[t].pc = "announce"
  /\ emitted' = [emitted EXCEPT ![task[t].link] =
       [e \in {"up", "down"} |->
          IF task[t].loud /\ e \in Turned(t) THEN @[e] + 1 ELSE @[e]]]
  /\ Finish(t)
  /\ UNCHANGED <<lnd, record, ghosts, bounds>>

\* A mistake: no retry
LetGo(t) == Finish(t) /\ UNCHANGED missed

RetryOrGiveUp(t) ==
  IF task[t].tries < MaxTries
  THEN /\ task' = [task EXCEPT ![t] = Attempt(@.link, @.tries + 1, @.loud)]
       /\ UNCHANGED missed
  ELSE /\ Finish(t)
       /\ missed' = [missed EXCEPT ![task[t].link] = TRUE]

\* putItem finds a row, or updateItem another revision
Conflict(t) ==
  LET r == record[task[t].link]
  IN  /\ task[t].pc = "execute"
      /\ \/ ShouldCreate(t) /\ ~MayPut(r)
         \/ ShouldUpdate(t) /\ ~MayUpdate(r, task[t].stored.rev)
      /\ RetryOrGiveUp(t)
      /\ UNCHANGED <<lnd, record, emitted, born, overlap, bounds>>

\* A call fails, the syncNode before the run included; at "announce" the write
\* took effect but its reply is an error
CallFails(t) ==
  /\ task[t] # Idle
  /\ faults < MaxFaults
  /\ faults' = faults + 1
  /\ RetryOrGiveUp(t)
  /\ UNCHANGED <<lnd, record, emitted, born, overlap, quiet>>

-----------------------------------------------------------------------------

Step(t) ==
  \/ GetStored(t)
  \/ GetFresh(t)
  \/ NothingToDo(t)
  \/ ExecuteCreate(t)
  \/ ExecuteUpdate(t)
  \/ Announce(t)
  \/ Conflict(t)

\* No run has work: the subscriptions wait for another event
Quiescent ==
  /\ \A t \in Tasks : task[t] = Idle
  /\ UNCHANGED vars

Next ==
  \/ Quiescent
  \/ \E k \in Links : LinkChanges(k) \/ SyncQuietly(k)
  \/ \E t \in Tasks : Step(t) \/ CallFails(t)

Spec == Init /\ [][Next]_vars

\* Every call to LND and to the database is answered in the end
FairSpec == Spec /\ \A t \in Tasks : WF_vars(Step(t))

-----------------------------------------------------------------------------
(* Properties *)

\* Row r says of k what LND says in state i.  A row is left as it was when its
\* channel is gone; only a peer is then marked. Features that a peer no longer tells
\* are those it told before
Says(k, r, i) ==
  /\ IsThere(k, i) => /\ r # NoRecord
                      /\ r.up = (StateOf(k, i).state = "up")
                      /\ Tells(k, i) => r.other = StateOf(k, i).other
  /\ (Kind(k) = "peer" /\ ~IsThere(k, i) /\ r # NoRecord) => ~r.up

Matches(k) == Says(k, record[k], now[k])

\* A policy's updated_at makes every update a change, so that no run takes an
\* old state for the current one.  A peer or a channel that turned and turned
\* back under a run may look unchanged to another.
IsFollowed(k) == ~missed[k] /\ (Kind(k) = "policy" \/ ~overlap[k])

\* Once the runs of a link are done its row says what LND says: always for a
\* policy, for a peer or a channel if no run was under way as it changed last.
TableFollows == \A k \in Links : (IsFollowed(k) /\ ~Busy(k)) => Matches(k)

ToInt(b) == IF b THEN 1 ELSE 0

\* Handlers announce after their writes, in any order, and some write nothing:
\* still the turns announced add up to the difference between the row and what
\* it was created with, when no reply was lost and no quiet run wrote.
EventsFollowTheTable ==
  \A k \in Links : (faults = 0 /\ quiet = 0 /\ ~Busy(k) /\ record[k] # NoRecord) =>
    emitted[k].up - emitted[k].down = ToInt(record[k].up) - ToInt(born[k])

\* The stored details of a policy are those of its stored time, however the
\* runs interleave.
PolicyIsOfItsTime ==
  \A k \in Links : (Kind(k) = "policy" /\ record[k] # NoRecord) =>
    ContentsOf(record[k]) = Contents(k, record[k].updated_at)

\* The last change of a link reaches its row and stays there.
EventuallyFollows == \A k \in Links : <>[](IsFollowed(k) => Matches(k))

-----------------------------------------------------------------------------
(* The inductive invariant the safety properties follow from *)

\* r was taken from state r.asOf, which for a policy is its updated_at
Reflects(k, r) ==
  r # NoRecord =>
    /\ r.asOf <= now[k]
    /\ Says(k, r, r.asOf)
    /\ r.updated_at = IF Kind(k) = "policy" THEN r.asOf ELSE 0
    /\ Kind(k) = "policy" => IsThere(k, r.asOf)

\* s was read from the table before r was; the same revision is the same row
Earlier(s, r) ==
  s # NoRecord =>
    /\ r # NoRecord
    /\ s.rev <= r.rev
    /\ s.asOf <= r.asOf
    /\ s.rev = r.rev => s = r

RowsReflect == \A k \in Links : Reflects(k, record[k])

\* What a run holds: a row read before its fresh state, both in the past
RunIsSound(run) ==
  LET k == run.link
  IN  /\ Reflects(k, run.stored)
      /\ Earlier(run.stored, record[k])
      /\ run.fresh <= now[k]
      /\ (run.pc \in {"execute", "announce"} /\ run.stored # NoRecord)
           => run.stored.asOf <= run.fresh

\* What a run holds when it began after the last change: nothing that is old
RunIsFresh(run) ==
  LET k == run.link
  IN  /\ run.pc \in {"execute", "announce"} => run.fresh = now[k]
      /\ run.pc \in {"getFresh", "execute"}
           => run.stored = record[k] \/ Matches(k)

RunsAreSound == \A t \in Tasks : task[t] # Idle => RunIsSound(task[t])

RunsAreFresh ==
  \A t \in Tasks :
    (task[t] # Idle /\ ~overlap[task[t].link]) => RunIsFresh(task[t])

AsOf(r) == IF r = NoRecord THEN 0 ELSE r.asOf

\* The row lacks the last change
IsLate(k) ==
  IF Kind(k) = "policy" THEN IsThere(k, now[k]) /\ AsOf(record[k]) < now[k]
                        ELSE ~overlap[k] /\ ~Matches(k)

\* A run that will compare the row with the last state
WillCatchUp(run, k) ==
  /\ run # Idle
  /\ run.link = k
  /\ \/ run.pc \in {"getStored", "getFresh"}
     \/ run.pc = "execute" /\ run.fresh = now[k]

LateIsInHand ==
  \A k \in Links :
    (~missed[k] /\ IsLate(k)) => \E t \in Tasks : WillCatchUp(task[t], k)

\* The inductive invariant: what the rows, the runs in flight and LND have to
\* do with each other at every moment.
LinkInv ==
  /\ TypeOK
  /\ RowsReflect
  /\ RunsAreSound
  /\ RunsAreFresh
  /\ LateIsInHand

=============================================================================
