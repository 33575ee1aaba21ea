------------------------------ MODULE NodeSync ------------------------------
(***************************************************************************)
(* syncNode and the handlers that run it.  A graph subscription reports    *)
(* that a node changed; eventNodeUpdated runs syncNode under a retry loop  *)
(* and announces what changed.  syncChannel and eventPolicyUpdated run     *)
(* syncNode for the nodes of a channel too, but drop its result: those     *)
(* runs are quiet.  JavaScript is single threaded, so a handler is cut     *)
(* only where it waits for the database or for LND: after getItem, after   *)
(* getNode, and between the write and its callback.                        *)
(***************************************************************************)
EXTENDS Naturals, FiniteSets, Database

CONSTANTS
  Nodes,        \* public keys
  Tasks,        \* runs of syncNode that can be in flight at once
  Aliases,      \* values of a plain attribute: alias, color or sockets
  Features,     \* feature bits, the attribute that keeps its old value when empty
  Histories,    \* the histories of announced details a node may have
  MaxVersion,   \* bound on the announcements of a node
  MaxTries,     \* attempts of asyncRetry: 1e3 in the code
  MaxFaults,    \* bound on calls to LND or the database that fail
  MaxQuiet      \* bound on runs of syncNode by handlers that drop its result

Details == [alias : Aliases, features : SUBSET Features]

ASSUME NodeSyncAssumption ==
  /\ MaxVersion \in Nat
  /\ MaxTries \in Nat \ {0}
  /\ MaxFaults \in Nat
  /\ MaxQuiet \in Nat
  /\ Histories \subseteq [1..MaxVersion -> Details]

VARIABLES
  history,   \* history[n][v]: the details of announcement v of node n
  graph,     \* LND's graph: announcements so far, is the node in the graph
  record,    \* the nodes table
  task,      \* the runs in flight
  events,    \* events[n][r]: times revision r of n's record was announced
  missed,    \* a change no handler will look at: not delivered, or given up
  faults,    \* failed calls so far
  quiet      \* quiet runs so far

vars == <<history, graph, record, task, events, missed, faults, quiet>>

Version == 0..MaxVersion   \* 0: none; also the time of the announcement

\* asOf is not stored: it is the announcement the contents were taken from
Record == [rev : Nat, alias : Aliases, features : SUBSET Features,
           updated_at : Version, asOf : Version]

ASSUME NoRecordAssumption == NoRecord \notin Record

Idle == [pc |-> "idle"]

Running == [pc : {"getStored", "getFresh", "execute", "announce"},
            node : Nodes, stored : Record \cup {NoRecord}, fresh : Version,
            tries : 1..MaxTries, loud : BOOLEAN]

TypeOK ==
  /\ history \in [Nodes -> Histories]
  /\ graph \in [Nodes -> [version : Version, known : BOOLEAN]]
  /\ record \in [Nodes -> Record \cup {NoRecord}]
  /\ task \in [Tasks -> Running \cup {Idle}]
  /\ events \in [Nodes -> [Version -> Nat]]
  /\ missed \in [Nodes -> BOOLEAN]
  /\ faults \in 0..MaxFaults
  /\ quiet \in 0..MaxQuiet

Init ==
  /\ history \in [Nodes -> Histories]
  /\ graph = [n \in Nodes |-> [version |-> 0, known |-> FALSE]]
  /\ record = [n \in Nodes |-> NoRecord]
  /\ task = [t \in Tasks |-> Idle]
  /\ events = [n \in Nodes |-> [r \in Version |-> 0]]
  /\ missed = [n \in Nodes |-> FALSE]
  /\ faults = 0
  /\ quiet = 0

-----------------------------------------------------------------------------
(* The graph, and the callers of syncNode *)

Attempt(n, tries, loud) ==
  [pc |-> "getStored", node |-> n, stored |-> NoRecord, fresh |-> 0,
   tries |-> tries, loud |-> loud]

Start(n, loud) ==
  \E t \in Tasks :
    /\ task[t] = Idle
    /\ task' = [task EXCEPT ![t] = Attempt(n, 1, loud)]

Announced(n) ==
  /\ graph[n].version < MaxVersion
  /\ graph' = [graph EXCEPT ![n] = [version |-> @.version + 1, known |-> TRUE]]

\* A node_updated event reaches its handler
NodeUpdated(n) ==
  /\ Announced(n)
  /\ Start(n, TRUE)
  /\ missed' = [missed EXCEPT ![n] = FALSE]
  /\ UNCHANGED <<history, record, events, faults, quiet>>

\* A node_updated event while no subscription is up
NodeUpdatedUnseen(n) ==
  /\ Announced(n)
  /\ missed' = [missed EXCEPT ![n] = TRUE]
  /\ UNCHANGED <<history, record, task, events, faults, quiet>>

\* LND prunes the node: getNode answers 404
NodePruned(n) ==
  /\ graph[n].known
  /\ graph' = [graph EXCEPT ![n].known = FALSE]
  /\ UNCHANGED <<history, record, task, events, missed, faults, quiet>>

\* A channel or policy handler syncs the node and drops the result
SyncQuietly(n) ==
  /\ quiet < MaxQuiet
  /\ Start(n, FALSE)
  /\ quiet' = quiet + 1
  /\ UNCHANGED <<history, graph, record, events, missed, faults>>

-----------------------------------------------------------------------------
(* syncNode, one step per wait *)

\* getStored
GetStored(t) ==
  /\ task[t].pc = "getStored"
  /\ task' = [task EXCEPT ![t].pc = "getFresh",
                          ![t].stored = record[task[t].node]]
  /\ UNCHANGED <<history, graph, record, events, missed, faults, quiet>>

\* getFresh: a 404 is no fresh details, fresh = 0
GetFresh(t) ==
  LET g == graph[task[t].node]
  IN  /\ task[t].pc = "getFresh"
      /\ task' = [task EXCEPT ![t].pc = "execute",
                              ![t].fresh = IF g.known THEN g.version ELSE 0]
      /\ UNCHANGED <<history, graph, record, events, missed, faults, quiet>>

FreshDetails(t) == history[task[t].node][task[t].fresh]

\* create
ShouldCreate(t) ==
  /\ task[t].fresh # 0
  /\ task[t].stored = NoRecord

NodeRecord(details, version) ==
  [rev |-> 0, alias |-> details.alias, features |-> details.features,
   updated_at |-> version, asOf |-> version]

\* A mistake: an alias that changes is not among the attributes compared
NodeUpdateKeepsAlias(stored, details) ==
  [alias |-> stored.alias,
   features |-> IF details.features # {} THEN details.features
                                         ELSE stored.features]

\* nodeUpdate: the stored features stay when the fresh ones are empty, and
\* updated_at stays because syncNode leaves it out of the fresh details
NodeUpdate(stored, details) ==
  [alias |-> details.alias,
   features |-> IF details.features # {} THEN details.features
                                         ELSE stored.features]

\* update
ShouldUpdate(t) ==
  LET stored == task[t].stored
  IN  /\ task[t].fresh # 0
      /\ stored # NoRecord
      /\ NodeUpdate(stored, FreshDetails(t))
           # [alias |-> stored.alias, features |-> stored.features]

\* The revision this run wrote
WrittenRev(t) == IF task[t].stored = NoRecord THEN 0 ELSE task[t].stored.rev + 1

Finish(t) == task' = [task EXCEPT ![t] = Idle]

\* Neither a create nor an update: syncNode returns {}
NothingToDo(t) ==
  /\ task[t].pc = "execute"
  /\ ~ShouldCreate(t)
  /\ ~ShouldUpdate(t)
  /\ Finish(t)
  /\ UNCHANGED <<history, graph, record, events, missed, faults, quiet>>

ExecuteCreate(t) ==
  LET n == task[t].node
  IN  /\ task[t].pc = "execute"
      /\ ShouldCreate(t)
      /\ MayPut(record[n])
      /\ record' = [record EXCEPT ![n] = NodeRecord(FreshDetails(t), task[t].fresh)]
      /\ task' = [task EXCEPT ![t].pc = "announce"]
      /\ UNCHANGED <<history, graph, events, missed, faults, quiet>>

\* A mistake: the changes lack _rev
RevisedInPlace(r, update, version) ==
  [rev |-> r.rev, alias |-> update.alias, features |-> update.features,
   updated_at |-> r.updated_at, asOf |-> version]

\* updateItem with changes {_rev: {add: 1}, ...}
Revised(r, update, version) ==
  [rev |-> r.rev + 1, alias |-> update.alias, features |-> update.features,
   updated_at |-> r.updated_at, asOf |-> version]

ExecuteUpdate(t) ==
  LET n == task[t].node
      update == NodeUpdate(task[t].stored, FreshDetails(t))
  IN  /\ task[t].pc = "execute"
      /\ ShouldUpdate(t)
      /\ MayUpdate(record[n], task[t].stored.rev)
      /\ record' = [record EXCEPT ![n] = Revised(record[n], update, task[t].fresh)]
      /\ task' = [task EXCEPT ![t].pc = "announce"]
      /\ UNCHANGED <<history, graph, events, missed, faults, quiet>>

\* A mistake: only 'node_added' is emitted
AnnounceAddedOnly(t) ==
  LET n == task[t].node
  IN  /\ task[t].pc = "announce"
      /\ events' = IF task[t].loud /\ task[t].stored = NoRecord
                   THEN [events EXCEPT ![n][0] = @ + 1]
                   ELSE events
      /\ Finish(t)
      /\ UNCHANGED <<history, graph, record, missed, faults, quiet>>

\* The write is confirmed: eventNodeUpdated emits, a quiet caller moves on
Announce(t) ==
  LET n == task[t].node
  IN  /\ task[t].pc = "announce"
      /\ events' = IF task[t].loud
                   THEN [events EXCEPT ![n][WrittenRev(t)] = @ + 1]
                   ELSE events
      /\ Finish(t)
      /\ UNCHANGED <<history, graph, record, missed, faults, quiet>>

\* A mistake: no retry
LetGo(t) == Finish(t) /\ UNCHANGED missed

\* asyncRetry starts the attempt over, or gives up after the last one
RetryOrGiveUp(t) ==
  LET n == task[t].node
  IN  IF task[t].tries < MaxTries
      THEN /\ task' = [task EXCEPT ![t] = Attempt(n, @.tries + 1, @.loud)]
           /\ UNCHANGED missed
      ELSE /\ Finish(t)
           /\ missed' = [missed EXCEPT ![n] = TRUE]

\* putItem finds a record, or updateItem another revision
Conflict(t) ==
  LET n == task[t].node
  IN  /\ task[t].pc = "execute"
      /\ \/ ShouldCreate(t) /\ ~MayPut(record[n])
         \/ ShouldUpdate(t) /\ ~MayUpdate(record[n], task[t].stored.rev)
      /\ RetryOrGiveUp(t)
      /\ UNCHANGED <<history, graph, record, events, faults, quiet>>

\* A call fails; at "announce" the write took effect but its reply is an error
CallFails(t) ==
  /\ task[t] # Idle
  /\ faults < MaxFaults
  /\ faults' = faults + 1
  /\ RetryOrGiveUp(t)
  /\ UNCHANGED <<history, graph, record, events, quiet>>

-----------------------------------------------------------------------------

SyncStep(t) ==
  \/ GetStored(t)
  \/ GetFresh(t)
  \/ NothingToDo(t)
  \/ ExecuteCreate(t)
  \/ ExecuteUpdate(t)
  \/ Announce(t)
  \/ Conflict(t)

\* No handler has work: the subscriptions wait for another event
Quiescent ==
  /\ \A t \in Tasks : task[t] = Idle
  /\ UNCHANGED vars

Next ==
  \/ Quiescent
  \/ \E n \in Nodes :
       \/ NodeUpdated(n)
       \/ NodeUpdatedUnseen(n)
       \/ NodePruned(n)
       \/ SyncQuietly(n)
  \/ \E t \in Tasks : SyncStep(t) \/ CallFails(t)

Spec == Init /\ [][Next]_vars

\* Every call to LND and to the database is answered in the end
FairSpec == Spec /\ \A t \in Tasks : WF_vars(SyncStep(t))

-----------------------------------------------------------------------------
(* Properties *)

AsOf(r) == IF r = NoRecord THEN 0 ELSE r.asOf

\* Runs of syncNode race on one record: each reads the record, then the graph,
\* then writes.  Whatever their order, a write never replaces details by those
\* of an older announcement (getStored before getFresh, and expect _rev).
NoStaleOverwrite ==
  [][\A n \in Nodes : AsOf(record'[n]) >= AsOf(record[n])]_record

\* Two handlers never announce the same revision of a node, whoever wrote it
\* and however often they retried (eventNodeUpdated emits after the write).
AnnouncedOnce ==
  \A n \in Nodes, r \in Version : events[n][r] <= 1

Busy(n) == \E t \in Tasks : task[t] # Idle /\ task[t].node = n

\* When only announcing handlers ran and no call failed, every revision in the
\* table has been announced once the handlers are done.
AnnouncedAtRest ==
  \A n \in Nodes :
    (quiet = 0 /\ faults = 0 /\ ~Busy(n) /\ record[n] # NoRecord)
      => \A r \in 0..record[n].rev : events[n][r] = 1

\* What is stored is what is announced, but that no features are no change
Shows(r, details) ==
  /\ r.alias = details.alias
  /\ details.features # {} => r.features = details.features

\* The stored details are those of the latest announcement
InSync(n) ==
  /\ record[n] # NoRecord
  /\ Shows(record[n], history[n][graph[n].version])

\* A node with a graph entry whose last change was seen and not given up on
Followed(n) == graph[n].known /\ ~missed[n]

\* What a node announces may stay as it is from one announcement to the next,
\* but once it has changed, no announcement takes up the earlier value
NothingReturns(n) ==
  \A u, v, w \in 1..MaxVersion :
    LET x == history[n][u]  y == history[n][v]  z == history[n][w]
    IN  (u <= v /\ v <= w) =>
          /\ x.alias = z.alias => y.alias = z.alias
          /\ (x.features = z.features /\ z.features # {}) =>
               y.features \in {z.features, {}}

\* Once the handlers of a node are done its record follows the graph, for a
\* node that changes nothing back to what it was before the change.
SyncedAtRest ==
  \A n \in Nodes :
    (Followed(n) /\ NothingReturns(n) /\ ~Busy(n)) => InSync(n)

\* The same for every node: "Keep the local db using data event streams"
\* (src/events/sync_from_data_events.js:21).
FollowsTheGraph ==
  \A n \in Nodes : (Followed(n) /\ ~Busy(n)) => InSync(n)

\* The last change of a node reaches the table and stays there.
EventuallySynced ==
  \A n \in Nodes :
    <>[]((Followed(n) /\ NothingReturns(n)) => InSync(n))

-----------------------------------------------------------------------------
(* The inductive invariant the safety properties follow from *)

\* r holds the details of announcement r.asOf, its features perhaps those of an
\* earlier one, and was written less often than the node was announced
Reflects(n, r) ==
  r # NoRecord =>
    /\ r.rev < r.asOf
    /\ r.asOf <= graph[n].version
    /\ Shows(r, history[n][r.asOf])
    /\ \E v \in 1..r.asOf : r.features = history[n][v].features

\* s was read from the table before r was; the same revision is the same record,
\* and the features changed in between are of an announcement in between
Earlier(n, s, r) ==
  s # NoRecord =>
    /\ r # NoRecord
    /\ s.rev <= r.rev
    /\ s.asOf <= r.asOf
    /\ s.rev = r.rev => s = r
    /\ \/ r.features = s.features
       \/ r.features # {} /\ \E v \in s.asOf..r.asOf : r.features = history[n][v].features

KnownWasAnnounced == \A n \in Nodes : graph[n].known => graph[n].version > 0

RecordsReflect == \A n \in Nodes : Reflects(n, record[n])

\* What a run holds: a record read before its fresh details, both in the past
RunIsSound(t) ==
  LET n == task[t].node
      s == task[t].stored
  IN  /\ Reflects(n, s)
      /\ Earlier(n, s, record[n])
      /\ task[t].fresh <= graph[n].version
      /\ (task[t].pc \in {"execute", "announce"} /\ s # NoRecord /\ task[t].fresh # 0)
           => s.asOf <= task[t].fresh
      /\ task[t].pc = "announce" =>
           /\ record[n] # NoRecord
           /\ WrittenRev(t) <= record[n].rev
           /\ events[n][WrittenRev(t)] = 0

RunsAreSound == \A t \in Tasks : task[t] # Idle => RunIsSound(t)

\* Only revisions that were written are announced
EventsAreOfRevisions ==
  \A n \in Nodes, r \in Version :
    events[n][r] > 0 => record[n] # NoRecord /\ r <= record[n].rev

\* No two runs wrote the same revision of a node
WritersDiffer ==
  \A t, u \in Tasks :
    (/\ t # u
     /\ task[t].pc = "announce"
     /\ task[u].pc = "announce"
     /\ task[t].node = task[u].node) => WrittenRev(t) # WrittenRev(u)

\* A run that will compare the table with the latest announcement
WillCatchUp(t, n) ==
  /\ task[t] # Idle
  /\ task[t].node = n
  /\ \/ task[t].pc \in {"getStored", "getFresh"}
     \/ task[t].pc = "execute" /\ task[t].fresh = graph[n].version

LateIsInHand ==
  \A n \in Nodes :
    (Followed(n) /\ NothingReturns(n) /\ ~InSync(n))
      => \E t \in Tasks : WillCatchUp(t, n)

\* The inductive invariant: what the table, the runs in flight and the events
\* have to do with each other at every moment.
IInv ==
  /\ TypeOK
  /\ KnownWasAnnounced
  /\ RecordsReflect
  /\ RunsAreSound
  /\ EventsAreOfRevisions
  /\ AnnouncedOnce
  /\ WritersDiffer
  /\ LateIsInHand

-----------------------------------------------------------------------------
(* What the table is to its readers *)

R == INSTANCE Replica WITH
       Keys <- Nodes,
       source <- [n \in Nodes |-> graph[n].version],
       copy <- [n \in Nodes |-> AsOf(record[n])]

\* The nodes table is a replica of the graph: it lags, it never runs ahead and
\* never goes back.
ImplementsReplica == R!ReplicaSpec

=============================================================================
