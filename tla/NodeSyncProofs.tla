--------------------------- MODULE NodeSyncProofs ---------------------------
(***************************************************************************)
(* Theorems about NodeSync, for any set of nodes, handlers and histories.  *)
(***************************************************************************)
EXTENDS NodeSync, TLAPS

USE NodeSyncAssumption, NoRecordAssumption DEF NodeSyncAssumption

-----------------------------------------------------------------------------
(* Types *)

\* A run's fields, whichever its step
LEMMA RunningFields ==
  ASSUME TypeOK, NEW t \in Tasks, task[t] # Idle
  PROVE  task[t] \in Running
BY DEF TypeOK

LEMMA FirstTry == 1 \in 1..MaxTries
OBVIOUS

LEMMA AttemptType ==
  ASSUME NEW n \in Nodes, NEW k \in 1..MaxTries, NEW loud \in BOOLEAN
  PROVE  Attempt(n, k, loud) \in Running
BY DEF Attempt, Running, Version

\* What the code derives from a history and a stored record is a record
LEMMA DetailsType ==
  ASSUME TypeOK, NEW n \in Nodes, NEW v \in Version, v # 0
  PROVE  /\ history[n][v] \in Details
         /\ history[n][v].alias \in Aliases
         /\ history[n][v].features \in SUBSET Features
<1>1. history[n] \in [1..MaxVersion -> Details]
  BY DEF TypeOK
<1>2. v \in 1..MaxVersion
  BY DEF Version
<1> QED
  BY <1>1, <1>2 DEF Details

LEMMA RevisedType ==
  ASSUME NEW r \in Record, NEW u, NEW v \in Version,
         u.alias \in Aliases, u.features \in SUBSET Features
  PROVE  Revised(r, u, v) \in Record
BY DEF Revised, Record

LEMMA AsOfType ==
  ASSUME NEW r \in Record \cup {NoRecord}
  PROVE  /\ AsOf(r) \in Version
         /\ AsOf(r) \in Nat
BY DEF AsOf, Record, Version

LEMMA CountType ==
  ASSUME NEW f \in [Version -> Nat], NEW w
  PROVE  [f EXCEPT ![w] = @ + 1] \in [Version -> Nat]
<1>1. ASSUME NEW x \in Version
      PROVE  [f EXCEPT ![w] = @ + 1][x] \in Nat
  <2>1. f[x] + 1 \in Nat
    OBVIOUS
  <2> QED
    BY <2>1
<1> QED
  BY <1>1

LEMMA RetryType ==
  ASSUME TypeOK, NEW t \in Tasks, task[t] # Idle, RetryOrGiveUp(t)
  PROVE  /\ task' \in [Tasks -> Running \cup {Idle}]
         /\ missed' \in [Nodes -> BOOLEAN]
<1>1. task[t] \in Running
  BY RunningFields
<1>2. CASE task[t].tries < MaxTries
  <2>1. task[t].tries + 1 \in 1..MaxTries
    BY <1>1, <1>2 DEF Running
  <2>2. Attempt(task[t].node, task[t].tries + 1, task[t].loud) \in Running
    BY <1>1, <2>1, AttemptType DEF Running
  <2> QED
    BY <1>2, <2>2 DEF RetryOrGiveUp, TypeOK
<1>3. CASE ~(task[t].tries < MaxTries)
  BY <1>1, <1>3 DEF RetryOrGiveUp, Finish, TypeOK, Running
<1> QED
  BY <1>2, <1>3

\* TypeOK is inductive: every step of every handler keeps the state well typed
LEMMA TypeInductive == TypeOK /\ [Next]_vars => TypeOK'
<1> SUFFICES ASSUME TypeOK, [Next]_vars
             PROVE  TypeOK'
  OBVIOUS
<1>1. ASSUME NEW n \in Nodes, NodeUpdated(n)
      PROVE  TypeOK'
  <2>1. graph' \in [Nodes -> [version : Version, known : BOOLEAN]]
    BY <1>1 DEF NodeUpdated, Announced, TypeOK, Version
  <2>2. Attempt(n, 1, TRUE) \in Running
    BY FirstTry, AttemptType
  <2>3. task' \in [Tasks -> Running \cup {Idle}]
    BY <1>1, <2>2 DEF NodeUpdated, Start, TypeOK
  <2> QED
    BY <1>1, <2>1, <2>3 DEF NodeUpdated, TypeOK
<1>2. ASSUME NEW n \in Nodes, NodeUpdatedUnseen(n)
      PROVE  TypeOK'
  <2>1. graph' \in [Nodes -> [version : Version, known : BOOLEAN]]
    BY <1>2 DEF NodeUpdatedUnseen, Announced, TypeOK, Version
  <2> QED
    BY <1>2, <2>1 DEF NodeUpdatedUnseen, TypeOK
<1>3. ASSUME NEW n \in Nodes, NodePruned(n)
      PROVE  TypeOK'
  BY <1>3 DEF NodePruned, TypeOK
<1>4. ASSUME NEW n \in Nodes, SyncQuietly(n)
      PROVE  TypeOK'
  <2>1. Attempt(n, 1, FALSE) \in Running
    BY FirstTry, AttemptType
  <2>2. task' \in [Tasks -> Running \cup {Idle}]
    BY <1>4, <2>1 DEF SyncQuietly, Start, TypeOK
  <2>3. quiet' \in 0..MaxQuiet
    BY <1>4 DEF SyncQuietly, TypeOK
  <2> QED
    BY <1>4, <2>2, <2>3 DEF SyncQuietly, TypeOK
<1>5. ASSUME NEW t \in Tasks, GetStored(t)
      PROVE  TypeOK'
  <2>1. task[t] \in Running
    BY <1>5, RunningFields DEF GetStored, Idle
  <2>2. [task[t] EXCEPT !.pc = "getFresh", !.stored = record[task[t].node]] \in Running
    BY <2>1 DEF Running, TypeOK
  <2> QED
    BY <1>5, <2>2 DEF GetStored, TypeOK
<1>6. ASSUME NEW t \in Tasks, GetFresh(t)
      PROVE  TypeOK'
  <2>1. task[t] \in Running
    BY <1>6, RunningFields DEF GetFresh, Idle
  <2> DEFINE g == graph[task[t].node]
             fresh == IF g.known THEN g.version ELSE 0
  <2>2. fresh \in Version
    BY <2>1 DEF Running, TypeOK, Version
  <2>3. [task[t] EXCEPT !.pc = "execute", !.fresh = fresh] \in Running
    BY <2>1, <2>2 DEF Running
  <2> QED
    BY <1>6, <2>3 DEF GetFresh, TypeOK
<1>7. ASSUME NEW t \in Tasks, NothingToDo(t)
      PROVE  TypeOK'
  BY <1>7 DEF NothingToDo, Finish, TypeOK
<1>8. ASSUME NEW t \in Tasks, ExecuteCreate(t)
      PROVE  TypeOK'
  <2>1. task[t] \in Running
    BY <1>8, RunningFields DEF ExecuteCreate, Idle
  <2>2. [task[t] EXCEPT !.pc = "announce"] \in Running
    BY <2>1 DEF Running
  <2>3. /\ FreshDetails(t).alias \in Aliases
        /\ FreshDetails(t).features \in SUBSET Features
    BY <1>8, <2>1, DetailsType DEF ExecuteCreate, ShouldCreate, FreshDetails, Running
  <2>4. NodeRecord(FreshDetails(t), task[t].fresh) \in Record
    BY <2>1, <2>3 DEF NodeRecord, Record, Running
  <2> QED
    BY <1>8, <2>1, <2>2, <2>4 DEF ExecuteCreate, TypeOK
<1>9. ASSUME NEW t \in Tasks, ExecuteUpdate(t)
      PROVE  TypeOK'
  <2>1. task[t] \in Running
    BY <1>9, RunningFields DEF ExecuteUpdate, Idle
  <2>2. [task[t] EXCEPT !.pc = "announce"] \in Running
    BY <2>1 DEF Running
  <2> DEFINE n == task[t].node
             update == NodeUpdate(task[t].stored, FreshDetails(t))
  <2>3. /\ FreshDetails(t).alias \in Aliases
        /\ FreshDetails(t).features \in SUBSET Features
    BY <1>9, <2>1, DetailsType DEF ExecuteUpdate, ShouldUpdate, FreshDetails, Running
  <2>4. task[t].stored \in Record
    BY <1>9, <2>1 DEF ExecuteUpdate, ShouldUpdate, Running
  <2>5. update.alias \in Aliases /\ update.features \in SUBSET Features
    BY <2>3, <2>4 DEF NodeUpdate, Record
  <2>6. n \in Nodes /\ record[n] \in Record
    BY <1>9, <2>1 DEF ExecuteUpdate, MayUpdate, Running, TypeOK
  <2>7. Revised(record[n], update, task[t].fresh) \in Record
    BY <2>1, <2>5, <2>6, RevisedType DEF Running
  <2> QED
    BY <1>9, <2>2, <2>6, <2>7 DEF ExecuteUpdate, TypeOK
<1>10. ASSUME NEW t \in Tasks, Announce(t)
       PROVE  TypeOK'
  <2>1. task[t] \in Running
    BY <1>10, RunningFields DEF Announce, Idle
  <2> DEFINE n == task[t].node
             w == WrittenRev(t)
  <2>2. n \in Nodes /\ events[n] \in [Version -> Nat]
    BY <2>1 DEF Running, TypeOK
  <2>3. [events[n] EXCEPT ![w] = @ + 1] \in [Version -> Nat]
    BY <2>2, CountType
  <2>4. events' \in [Nodes -> [Version -> Nat]]
    BY <1>10, <2>2, <2>3 DEF Announce, TypeOK
  <2>5. task' \in [Tasks -> Running \cup {Idle}]
    BY <1>10 DEF Announce, Finish, TypeOK
  <2> QED
    BY <1>10, <2>4, <2>5 DEF Announce, TypeOK
<1>11. ASSUME NEW t \in Tasks, Conflict(t)
       PROVE  TypeOK'
  <2>1. task[t] # Idle
    BY <1>11 DEF Conflict, Idle
  <2> QED
    BY <1>11, <2>1, RetryType DEF Conflict, TypeOK
<1>12. ASSUME NEW t \in Tasks, CallFails(t)
       PROVE  TypeOK'
  <2>1. faults' \in 0..MaxFaults
    BY <1>12 DEF CallFails, TypeOK
  <2> QED
    BY <1>12, <2>1, RetryType DEF CallFails, TypeOK
<1>13. CASE UNCHANGED vars
  BY <1>13 DEF vars, TypeOK
<1> QED
  BY <1>1, <1>2, <1>3, <1>4, <1>5, <1>6, <1>7, <1>8, <1>9, <1>10, <1>11,
     <1>12, <1>13 DEF Next, Quiescent, SyncStep

\* Every variable of the node sync keeps its type, whatever the handlers do
THEOREM TypeCorrect == Spec => []TypeOK
<1>1. Init => TypeOK
  BY DEF Init, TypeOK, Version
<1> QED
  BY <1>1, TypeInductive, PTL DEF Spec

-----------------------------------------------------------------------------
(* How one step changes the graph, the table and the runs *)

\* The graph only moves on, and no history is rewritten
LEMMA GraphMovesOn ==
  ASSUME TypeOK, [Next]_vars, NEW n \in Nodes
  PROVE  /\ history' = history
         /\ graph'[n].version >= graph[n].version
<1>1. graph[n].version \in Nat
  BY DEF TypeOK, Version
<1>2. history' = history
  BY DEF Next, Quiescent, SyncStep, NodeUpdated, NodeUpdatedUnseen, NodePruned,
         SyncQuietly, GetStored, GetFresh, NothingToDo, ExecuteCreate,
         ExecuteUpdate, Announce, Conflict, CallFails, vars
<1>3. \/ graph' = graph
      \/ \E m \in Nodes : Announced(m) \/ NodePruned(m)
  BY DEF Next, Quiescent, SyncStep, NodeUpdated, NodeUpdatedUnseen,
         SyncQuietly, GetStored, GetFresh, NothingToDo, ExecuteCreate,
         ExecuteUpdate, Announce, Conflict, CallFails, vars
<1>4. ASSUME NEW m \in Nodes, Announced(m)
      PROVE  graph'[n].version >= graph[n].version
  <2>1. graph[m].version \in Nat
    BY DEF TypeOK, Version
  <2>2. graph'[m].version = graph[m].version + 1
    BY <1>4 DEF Announced, TypeOK
  <2>3. n # m => graph'[n] = graph[n]
    BY <1>4 DEF Announced, TypeOK
  <2> QED
    BY <1>1, <2>1, <2>2, <2>3
<1>5. ASSUME NEW m \in Nodes, NodePruned(m)
      PROVE  graph'[n].version >= graph[n].version
  <2>1. graph'[n].version = graph[n].version
    BY <1>5 DEF NodePruned, TypeOK
  <2> QED
    BY <1>1, <2>1
<1>6. CASE graph' = graph
  BY <1>1, <1>2, <1>6
<1> QED
  BY <1>2, <1>3, <1>4, <1>5, <1>6

\* A create happens on an absent record, and writes the details it was given
LEMMA CreateWrites ==
  ASSUME TypeOK, RunsAreSound, NEW t \in Tasks, ExecuteCreate(t)
  PROVE  /\ task[t].node \in Nodes
         /\ record[task[t].node] = NoRecord
         /\ record' = [record EXCEPT ![task[t].node] = record'[task[t].node]]
         /\ record'[task[t].node] \in Record
         /\ record'[task[t].node].rev = 0
         /\ record'[task[t].node].asOf = task[t].fresh
         /\ task[t].fresh > 0
         /\ Reflects(task[t].node, record'[task[t].node])
<1> DEFINE n == task[t].node
           details == FreshDetails(t)
<1>1. task[t] \in Running
  BY RunningFields DEF ExecuteCreate, Idle
<1>2. n \in Nodes /\ task[t].fresh \in Version /\ task[t].fresh # 0
  BY <1>1 DEF Running, ExecuteCreate, ShouldCreate
<1>3. record[n] = NoRecord
  BY DEF ExecuteCreate, MayPut
<1>4. details.alias \in Aliases /\ details.features \in SUBSET Features
  BY <1>2, DetailsType DEF FreshDetails
<1>5. /\ record' = [record EXCEPT ![n] = NodeRecord(details, task[t].fresh)]
      /\ record'[n] = NodeRecord(details, task[t].fresh)
  BY <1>2 DEF ExecuteCreate, TypeOK
<1>6. NodeRecord(details, task[t].fresh) \in Record
  BY <1>2, <1>4 DEF NodeRecord, Record
<1>7. task[t].fresh <= graph[n].version
  BY <1>1 DEF RunsAreSound, RunIsSound, Running, ExecuteCreate, Idle
<1>8. task[t].fresh \in Nat /\ task[t].fresh > 0
  BY <1>2 DEF Version
<1>9. Reflects(n, record'[n])
  <2>1. /\ record'[n].rev = 0
        /\ record'[n].asOf = task[t].fresh
        /\ record'[n].alias = details.alias
        /\ record'[n].features = details.features
    BY <1>5 DEF NodeRecord
  <2>2. Shows(record'[n], history[n][task[t].fresh])
    BY <2>1 DEF Shows, FreshDetails
  <2>3. \E v \in 1..task[t].fresh : record'[n].features = history[n][v].features
    BY <1>8, <2>1 DEF FreshDetails
  <2> QED
    BY <1>7, <1>8, <2>1, <2>2, <2>3 DEF Reflects
<1>10. /\ record'[n].rev = 0
       /\ record'[n].asOf = task[t].fresh
  BY <1>5 DEF NodeRecord
<1>11. record' = [record EXCEPT ![n] = record'[n]]
  BY <1>5, Zenon
<1> QED
  BY <1>2, <1>3, <1>5, <1>6, <1>8, <1>9, <1>10, <1>11

\* An update happens on the very record that was read, and replaces it by the
\* details of a later announcement
LEMMA UpdateWrites ==
  ASSUME TypeOK, RunsAreSound, NEW t \in Tasks, ExecuteUpdate(t)
  PROVE  /\ task[t].node \in Nodes
         /\ record[task[t].node] = task[t].stored
         /\ record[task[t].node] \in Record
         /\ record' = [record EXCEPT ![task[t].node] = record'[task[t].node]]
         /\ record'[task[t].node] \in Record
         /\ record'[task[t].node].rev = record[task[t].node].rev + 1
         /\ record'[task[t].node].asOf = task[t].fresh
         /\ record'[task[t].node].asOf > record[task[t].node].asOf
         /\ record'[task[t].node].features \in
              {record[task[t].node].features}
                \cup ({history[task[t].node][task[t].fresh].features} \ {{}})
         /\ Reflects(task[t].node, record'[task[t].node])
<1> DEFINE n == task[t].node
           s == task[t].stored
           details == FreshDetails(t)
           update == NodeUpdate(s, details)
<1>1. task[t] \in Running /\ task[t] # Idle
  BY RunningFields DEF ExecuteUpdate, Idle
<1>2. n \in Nodes /\ task[t].fresh \in Version /\ task[t].fresh # 0
  BY <1>1 DEF Running, ExecuteUpdate, ShouldUpdate
<1>3. s # NoRecord /\ s \in Record
  BY <1>1 DEF Running, ExecuteUpdate, ShouldUpdate
<1>4. record[n] # NoRecord /\ record[n].rev = s.rev
  BY DEF ExecuteUpdate, MayUpdate
<1>5. RunIsSound(t)
  BY <1>1 DEF RunsAreSound
<1>6. record[n] = s
  BY <1>3, <1>4, <1>5 DEF RunIsSound, Earlier
<1>7. details.alias \in Aliases /\ details.features \in SUBSET Features
  BY <1>2, DetailsType DEF FreshDetails
<1>8. update.alias \in Aliases /\ update.features \in SUBSET Features
  BY <1>3, <1>7 DEF NodeUpdate, Record
<1>9. /\ record' = [record EXCEPT ![n] = Revised(record[n], update, task[t].fresh)]
      /\ record'[n] = Revised(record[n], update, task[t].fresh)
  BY <1>2 DEF ExecuteUpdate, TypeOK
<1>10. record'[n] \in Record
  BY <1>2, <1>3, <1>6, <1>8, <1>9, RevisedType
<1>11. /\ s.asOf <= task[t].fresh
       /\ Reflects(n, s)
       /\ task[t].fresh <= graph[n].version
  BY <1>2, <1>3, <1>5 DEF RunIsSound, ExecuteUpdate
<1>12. s.asOf \in Nat /\ s.rev \in Nat /\ task[t].fresh \in Nat
  BY <1>2, <1>3 DEF Record, Version
<1>13. task[t].fresh # s.asOf
  <2> SUFFICES ASSUME task[t].fresh = s.asOf
               PROVE  update = [alias |-> s.alias, features |-> s.features]
    BY DEF ExecuteUpdate, ShouldUpdate
  <2>1. details = history[n][s.asOf]
    BY DEF FreshDetails
  <2>2. s.alias = details.alias /\ (details.features # {} => s.features = details.features)
    BY <1>3, <1>11, <2>1 DEF Reflects, Shows
  <2> QED
    BY <2>2 DEF NodeUpdate
<1>14. task[t].fresh > s.asOf
  BY <1>11, <1>12, <1>13
<1>15. Reflects(n, record'[n])
  <2>1. /\ record'[n].rev = s.rev + 1
        /\ record'[n].asOf = task[t].fresh
        /\ Shows(record'[n], details)
        /\ record'[n].features \in {s.features} \cup ({details.features} \ {{}})
    BY <1>6, <1>9 DEF Revised, NodeUpdate, Shows
  <2>2. s.rev < s.asOf
    BY <1>3, <1>11 DEF Reflects
  <2>3. s.rev + 1 < task[t].fresh
    BY <1>12, <1>14, <2>2
  <2>4. \E v \in 1..task[t].fresh : record'[n].features = history[n][v].features
    <3>1. PICK v \in 1..s.asOf : s.features = history[n][v].features
      BY <1>3, <1>11 DEF Reflects
    <3>2. v \in 1..task[t].fresh /\ task[t].fresh \in 1..task[t].fresh
      BY <1>12, <1>14
    <3> QED
      BY <2>1, <3>1, <3>2 DEF FreshDetails
  <2> QED
    BY <1>11, <2>1, <2>3, <2>4 DEF Reflects, FreshDetails
<1>16. /\ record'[n].rev = record[n].rev + 1
       /\ record'[n].asOf = task[t].fresh
       /\ record'[n].asOf > record[n].asOf
  BY <1>6, <1>9, <1>14 DEF Revised
<1>18. record'[n].features \in
         {record[n].features} \cup ({history[n][task[t].fresh].features} \ {{}})
  <2>1. record'[n].features = IF details.features # {} THEN details.features ELSE s.features
    BY <1>9 DEF Revised, NodeUpdate
  <2> QED
    BY <1>6, <2>1 DEF FreshDetails
<1>17. record' = [record EXCEPT ![n] = record'[n]]
  BY <1>9, Zenon
<1> QED
  BY <1>2, <1>3, <1>6, <1>10, <1>15, <1>16, <1>17, <1>18

\* Only the two writes change the table
LEMMA OnlyWrites ==
  ASSUME [Next]_vars
  PROVE  \/ record' = record
         \/ \E t \in Tasks : ExecuteCreate(t) \/ ExecuteUpdate(t)
BY DEF Next, Quiescent, SyncStep, NodeUpdated, NodeUpdatedUnseen, NodePruned,
       SyncQuietly, GetStored, GetFresh, NothingToDo, Announce, Conflict,
       CallFails, vars

\* A record is created once and then only revised, from later announcements
LEMMA RecordMovesOn ==
  ASSUME TypeOK, RunsAreSound, [Next]_vars, NEW n \in Nodes
  PROVE  \/ record'[n] = record[n]
         \/ record[n] = NoRecord /\ record'[n] \in Record
         \/ /\ record[n] \in Record
            /\ record'[n] \in Record
            /\ record'[n].rev = record[n].rev + 1
            /\ record'[n].asOf > record[n].asOf
            /\ record'[n].features \in
                 {record[n].features} \cup ({history[n][record'[n].asOf].features} \ {{}})
<1>1. CASE record' = record
  BY <1>1
<1>2. ASSUME NEW t \in Tasks, ExecuteCreate(t)
      PROVE  \/ record'[n] = record[n]
             \/ record[n] = NoRecord /\ record'[n] \in Record
  BY <1>2, CreateWrites DEF TypeOK
<1>3. ASSUME NEW t \in Tasks, ExecuteUpdate(t)
      PROVE  \/ record'[n] = record[n]
             \/ /\ record[n] \in Record
                /\ record'[n] \in Record
                /\ record'[n].rev = record[n].rev + 1
                /\ record'[n].asOf > record[n].asOf
                /\ record'[n].features \in
                     {record[n].features} \cup ({history[n][record'[n].asOf].features} \ {{}})
  BY <1>3, UpdateWrites DEF TypeOK
<1> QED
  BY <1>1, <1>2, <1>3, OnlyWrites

LEMMA EarlierKept ==
  ASSUME TypeOK, RunsAreSound, [Next]_vars, NEW n \in Nodes,
         NEW s \in Record \cup {NoRecord}, Earlier(n, s, record[n])
  PROVE  Earlier(n, s, record'[n])
<1>1. CASE s = NoRecord
  BY <1>1 DEF Earlier
<1>2. CASE s # NoRecord
  <2>1. s \in Record /\ record[n] \in Record
    BY <1>2 DEF Earlier, TypeOK
  <2>2. /\ s.rev \in Nat /\ s.asOf \in Nat
        /\ record[n].rev \in Nat /\ record[n].asOf \in Nat
    BY <2>1 DEF Record, Version
  <2>3. CASE record'[n] = record[n]
    BY <2>3
  <2>4. CASE /\ record'[n] \in Record
             /\ record'[n].rev = record[n].rev + 1
             /\ record'[n].asOf > record[n].asOf
             /\ record'[n].features \in
                  {record[n].features} \cup ({history[n][record'[n].asOf].features} \ {{}})
    <3> DEFINE q == record[n]  r == record'[n]
    <3>1. r.asOf \in Nat /\ r # NoRecord
      BY <2>4 DEF Record, Version
    <3>2. /\ s.rev <= q.rev /\ s.asOf <= q.asOf
          /\ \/ q.features = s.features
             \/ /\ q.features # {}
                /\ \E v \in s.asOf..q.asOf : q.features = history[n][v].features
      BY <1>2 DEF Earlier
    <3>3. s.rev < r.rev /\ s.asOf <= r.asOf /\ s.asOf..q.asOf \subseteq s.asOf..r.asOf
      BY <2>2, <2>4, <3>1, <3>2
    <3>4. \/ r.features = s.features
          \/ /\ r.features # {}
             /\ \E v \in s.asOf..r.asOf : r.features = history[n][v].features
      <4>1. CASE r.features = q.features
        BY <3>2, <3>3, <4>1
      <4>2. CASE r.features = history[n][r.asOf].features /\ r.features # {}
        <5>1. r.asOf \in s.asOf..r.asOf
          BY <2>2, <3>1, <3>3
        <5> QED
          BY <4>2, <5>1
      <4> QED
        BY <2>4, <4>1, <4>2
    <3>5. r.rev \in Nat /\ s.rev # r.rev
      BY <2>2, <2>4, <3>2
    <3> HIDE DEF q, r
    <3>6. Earlier(n, s, r)
      BY <2>2, <3>1, <3>3, <3>4, <3>5 DEF Earlier
    <3> QED
      BY <3>6 DEF r
  <2> QED
    BY <1>2, <2>1, <2>3, <2>4, RecordMovesOn
<1> QED
  BY <1>1, <1>2


\* What a step makes of one run
LEMMA RunMovesOn ==
  ASSUME TypeOK, [Next]_vars, NEW u \in Tasks
  PROVE  \/ task'[u] = task[u]
         \/ task'[u] = Idle
         \/ \E n \in Nodes, k \in 1..MaxTries, loud \in BOOLEAN :
              task'[u] = Attempt(n, k, loud)
         \/ GetStored(u)
         \/ GetFresh(u)
         \/ ExecuteCreate(u)
         \/ ExecuteUpdate(u)
<1> DEFINE Restarted == \E n \in Nodes, k \in 1..MaxTries, loud \in BOOLEAN :
                          task'[u] = Attempt(n, k, loud)
<1>1. ASSUME NEW n \in Nodes, NEW loud \in BOOLEAN, Start(n, loud)
      PROVE  task'[u] = task[u] \/ Restarted
  <2>1. PICK t \in Tasks : task' = [task EXCEPT ![t] = Attempt(n, 1, loud)]
    BY <1>1 DEF Start
  <2>2. CASE t = u
    <3>1. task'[u] = Attempt(n, 1, loud)
      BY <2>1, <2>2 DEF TypeOK
    <3> QED
      BY <3>1, FirstTry
  <2>3. CASE t # u
    BY <2>1, <2>3 DEF TypeOK
  <2> QED
    BY <2>2, <2>3
<1>2. ASSUME NEW t \in Tasks, task[t] # Idle, RetryOrGiveUp(t)
      PROVE  task'[u] = task[u] \/ task'[u] = Idle \/ Restarted
  <2>1. task[t] \in Running
    BY <1>2, RunningFields
  <2>2. CASE t # u
    BY <1>2, <2>2 DEF RetryOrGiveUp, Finish, TypeOK
  <2>3. CASE t = u /\ task[t].tries < MaxTries
    <3>1. task'[u] = Attempt(task[t].node, task[t].tries + 1, task[t].loud)
      BY <1>2, <2>3 DEF RetryOrGiveUp, TypeOK
    <3>2. /\ task[t].node \in Nodes
          /\ task[t].tries + 1 \in 1..MaxTries
          /\ task[t].loud \in BOOLEAN
      BY <2>1, <2>3 DEF Running
    <3> QED
      BY <3>1, <3>2
  <2>4. CASE t = u /\ ~(task[t].tries < MaxTries)
    BY <1>2, <2>4 DEF RetryOrGiveUp, Finish, TypeOK
  <2> QED
    BY <2>2, <2>3, <2>4
<1>3. CASE \E n \in Nodes : NodeUpdated(n) \/ SyncQuietly(n)
  BY <1>1, <1>3 DEF NodeUpdated, SyncQuietly
<1>4. CASE \E t \in Tasks : Conflict(t) \/ CallFails(t)
  BY <1>2, <1>4 DEF Conflict, CallFails, Idle
<1>5. CASE \E t \in Tasks : NothingToDo(t) \/ Announce(t)
  BY <1>5 DEF NothingToDo, Announce, Finish, TypeOK
<1>6. CASE \E t \in Tasks : \/ GetStored(t) \/ GetFresh(t)
                            \/ ExecuteCreate(t) \/ ExecuteUpdate(t)
  BY <1>6 DEF GetStored, GetFresh, ExecuteCreate, ExecuteUpdate, TypeOK
<1>7. CASE \/ UNCHANGED vars
           \/ \E n \in Nodes : NodeUpdatedUnseen(n) \/ NodePruned(n)
  BY <1>7 DEF vars, NodeUpdatedUnseen, NodePruned
<1> QED
  BY <1>3, <1>4, <1>5, <1>6, <1>7 DEF Next, Quiescent, SyncStep

\* A read or a write only moves its run to the next step
LEMMA RunAfterStep ==
  ASSUME TypeOK, NEW u \in Tasks
  PROVE  /\ GetStored(u) => task'[u].pc = "getFresh"
         /\ GetFresh(u) => task'[u].pc = "execute"
         /\ ExecuteCreate(u) \/ ExecuteUpdate(u) =>
              /\ task'[u].pc = "announce"
              /\ task'[u].node = task[u].node
              /\ task'[u].stored = task[u].stored
              /\ task'[u].fresh = task[u].fresh
              /\ \A w \in Tasks \ {u} : task'[w] = task[w]
<1>1. ASSUME GetStored(u) \/ GetFresh(u) \/ ExecuteCreate(u) \/ ExecuteUpdate(u)
      PROVE  task[u] \in Running
  BY <1>1, RunningFields DEF GetStored, GetFresh, ExecuteCreate, ExecuteUpdate, Idle
<1>2. GetStored(u) => task'[u].pc = "getFresh"
  BY <1>1 DEF GetStored, TypeOK, Running
<1>3. GetFresh(u) => task'[u].pc = "execute"
  BY <1>1 DEF GetFresh, TypeOK, Running
<1>4. ASSUME ExecuteCreate(u) \/ ExecuteUpdate(u)
      PROVE  /\ task'[u].pc = "announce"
             /\ task'[u].node = task[u].node
             /\ task'[u].stored = task[u].stored
             /\ task'[u].fresh = task[u].fresh
             /\ \A w \in Tasks \ {u} : task'[w] = task[w]
  <2>1. task' = [task EXCEPT ![u].pc = "announce"]
    BY <1>4 DEF ExecuteCreate, ExecuteUpdate
  <2> QED
    BY <1>1, <1>4, <2>1 DEF TypeOK, Running
<1> QED
  BY <1>2, <1>3, <1>4

\* The events change only when a run announces
LEMMA OnlyAnnounce ==
  ASSUME [Next]_vars
  PROVE  \/ events' = events
         \/ \E t \in Tasks : Announce(t)
BY DEF Next, Quiescent, SyncStep, NodeUpdated, NodeUpdatedUnseen, NodePruned,
       SyncQuietly, GetStored, GetFresh, NothingToDo, ExecuteCreate,
       ExecuteUpdate, Conflict, CallFails, vars

\* The revision a run wrote is one the node was announced often enough for
LEMMA WrittenRevType ==
  ASSUME TypeOK, RecordsReflect, NEW t \in Tasks, task[t].pc = "announce",
         RunIsSound(t)
  PROVE  WrittenRev(t) \in Version
<1>1. task[t] \in Running
  BY RunningFields DEF Idle
<1> DEFINE n == task[t].node
<1>2. n \in Nodes /\ record[n] \in Record
  BY <1>1 DEF Running, TypeOK, RunIsSound
<1>3. graph[n].version \in Version
  BY <1>2 DEF TypeOK
<1>4. record[n].rev < record[n].asOf /\ record[n].asOf <= graph[n].version
  BY <1>2 DEF RecordsReflect, Reflects
<1>5. WrittenRev(t) <= record[n].rev
  BY DEF RunIsSound
<1>6. record[n].rev \in Nat /\ record[n].asOf \in Nat
  BY <1>2 DEF Record, Version
<1>7. WrittenRev(t) \in Nat
  BY <1>1 DEF WrittenRev, Running, Record
<1> QED
  BY <1>3, <1>4, <1>5, <1>6, <1>7 DEF Version

-----------------------------------------------------------------------------
(* The parts of the inductive invariant, one lemma each *)

LEMMA RecordsReflectKept ==
  ASSUME TypeOK, RecordsReflect, RunsAreSound, [Next]_vars
  PROVE  RecordsReflect'
<1> SUFFICES ASSUME NEW n \in Nodes
             PROVE  Reflects(n, record[n])'
  BY DEF RecordsReflect
<1>1. CASE record'[n] = record[n]
  <2>1. Reflects(n, record[n]) /\ record[n] \in Record \cup {NoRecord}
    BY DEF RecordsReflect, TypeOK
  <2> DEFINE s == record[n]
  <2>2. history' = history /\ graph'[n].version >= graph[n].version
    BY GraphMovesOn
  <2>3. TypeOK'
    BY TypeInductive
  <2>4. graph[n].version \in Nat /\ graph'[n].version \in Nat
    BY <2>3 DEF TypeOK, Version
  <2>5. s # NoRecord => s.asOf \in Nat
    BY <2>1 DEF Record, Version
  <2> QED
    BY <1>1, <2>1, <2>2, <2>4, <2>5 DEF Reflects
<1>2. ASSUME NEW t \in Tasks, ExecuteCreate(t) \/ ExecuteUpdate(t),
             task[t].node = n
      PROVE  Reflects(n, record[n])'
  <2>1. Reflects(n, record'[n])
    BY <1>2, CreateWrites, UpdateWrites
  <2>2. graph' = graph /\ history' = history
    BY <1>2 DEF ExecuteCreate, ExecuteUpdate
  <2> QED
    BY <2>1, <2>2 DEF Reflects
<1>3. ASSUME NEW t \in Tasks, ExecuteCreate(t) \/ ExecuteUpdate(t),
             task[t].node # n
      PROVE  record'[n] = record[n]
  BY <1>3 DEF ExecuteCreate, ExecuteUpdate, TypeOK
<1> QED
  BY <1>1, <1>2, <1>3, OnlyWrites

\* A run that does not move stays sound while others write and announce
LEMMA OtherRunsKept ==
  ASSUME TypeOK, RecordsReflect, RunsAreSound, WritersDiffer, [Next]_vars,
         NEW u \in Tasks, task[u] # Idle, task'[u] = task[u]
  PROVE  RunIsSound(u)'
<1> DEFINE n == task[u].node
           s == task[u].stored
           w == WrittenRev(u)
<1>1. task[u] \in Running /\ RunIsSound(u)
  BY RunningFields DEF RunsAreSound
<1>2. n \in Nodes /\ s \in Record \cup {NoRecord} /\ task[u].fresh \in Nat
  BY <1>1 DEF Running, Version
<1>3. /\ history' = history
      /\ graph'[n].version >= graph[n].version
  BY <1>2, GraphMovesOn
<1>4. TypeOK'
  BY TypeInductive
<1>5. graph[n].version \in Nat /\ graph'[n].version \in Nat
  BY <1>2, <1>4 DEF TypeOK, Version
<1>6. Reflects(n, s)'
  <2>1. s # NoRecord => s.asOf \in Nat
    BY <1>2 DEF Record, Version
  <2>2. Reflects(n, s)
    BY <1>1 DEF RunIsSound
  <2> QED
    BY <1>3, <1>5, <2>1, <2>2 DEF Reflects
<1>7. Earlier(n, s, record[n])'
  <2>1. Earlier(n, s, record'[n])
    BY <1>1, <1>2, EarlierKept DEF RunIsSound
  <2> QED
    BY <1>3, <2>1 DEF Earlier
<1>8. task[u].fresh <= graph'[n].version
  BY <1>1, <1>2, <1>3, <1>5 DEF RunIsSound
<1>9. WrittenRev(u)' = w
  BY DEF WrittenRev
<1>10. ASSUME task[u].pc = "announce"
       PROVE  /\ record'[n] # NoRecord
              /\ w <= record'[n].rev
              /\ events'[n][w] = 0
  <2>1. /\ record[n] # NoRecord
        /\ w <= record[n].rev
        /\ events[n][w] = 0
    BY <1>1, <1>10 DEF RunIsSound
  <2>2. w \in Version /\ w \in Nat
    BY <1>1, <1>10, WrittenRevType DEF Version
  <2>3. record'[n] # NoRecord /\ w <= record'[n].rev
    <3>1. record[n] \in Record /\ record[n].rev \in Nat
      BY <1>2, <2>1 DEF TypeOK, Record
    <3> QED
      BY <1>2, <2>1, <2>2, <3>1, RecordMovesOn DEF Record
  <2>4. ASSUME NEW t \in Tasks, Announce(t)
        PROVE  events'[n][w] = 0
    <3>1. t # u
      BY <2>4 DEF Announce, Finish, TypeOK
    <3>2. ~(task[t].node = n /\ WrittenRev(t) = w)
      BY <1>10, <2>4, <3>1 DEF WritersDiffer, Announce
    <3> QED
      BY <1>2, <2>1, <2>2, <2>4, <3>2 DEF Announce, TypeOK
  <2> QED
    BY <2>1, <2>3, <2>4, OnlyAnnounce
<1> QED
  BY <1>1, <1>6, <1>7, <1>8, <1>9, <1>10 DEF RunIsSound

LEMMA RunsAreSoundKept ==
  ASSUME TypeOK, RecordsReflect, RunsAreSound, EventsAreOfRevisions,
         WritersDiffer, [Next]_vars
  PROVE  RunsAreSound'
<1> SUFFICES ASSUME NEW u \in Tasks, task'[u] # Idle
             PROVE  RunIsSound(u)'
  BY DEF RunsAreSound
<1>1. TypeOK'
  BY TypeInductive
<1>2. CASE task'[u] = task[u]
  BY <1>2, OtherRunsKept
<1>3. ASSUME NEW n \in Nodes, NEW k \in 1..MaxTries, NEW loud \in BOOLEAN,
             task'[u] = Attempt(n, k, loud)
      PROVE  RunIsSound(u)'
  <2>1. /\ task'[u].node = n
        /\ task'[u].stored = NoRecord
        /\ task'[u].fresh = 0
        /\ task'[u].pc = "getStored"
    BY <1>3 DEF Attempt
  <2>2. graph'[n].version \in Nat
    BY <1>1 DEF TypeOK, Version
  <2> QED
    BY <2>1, <2>2 DEF RunIsSound, Reflects, Earlier
<1>4. CASE GetStored(u)
  <2> DEFINE n == task[u].node
  <2>1. task[u] \in Running /\ RunIsSound(u)
    BY <1>4, RunningFields DEF RunsAreSound, GetStored, Idle
  <2>2. n \in Nodes
    BY <2>1 DEF Running
  <2>3. /\ task'[u].node = n
        /\ task'[u].stored = record[n]
        /\ task'[u].fresh = task[u].fresh
        /\ task'[u].pc = "getFresh"
        /\ record' = record /\ graph' = graph /\ history' = history
    BY <1>4, <2>1 DEF GetStored, TypeOK, Running
  <2>4. Reflects(n, record[n])
    BY <2>2 DEF RecordsReflect
  <2>5. Earlier(n, record[n], record[n])
    BY <2>2 DEF Earlier, TypeOK, Record, Version
  <2> QED
    BY <2>1, <2>3, <2>4, <2>5 DEF RunIsSound, Reflects, Earlier
<1>5. CASE GetFresh(u)
  <2> DEFINE n == task[u].node
             s == task[u].stored
  <2>1. task[u] \in Running /\ RunIsSound(u)
    BY <1>5, RunningFields DEF RunsAreSound, GetFresh, Idle
  <2>2. n \in Nodes /\ graph[n].version \in Nat
    BY <2>1 DEF Running, TypeOK, Version
  <2>3. /\ task'[u].node = n
        /\ task'[u].stored = s
        /\ task'[u].fresh = IF graph[n].known THEN graph[n].version ELSE 0
        /\ task'[u].pc = "execute"
        /\ record' = record /\ graph' = graph /\ history' = history
    BY <1>5, <2>1 DEF GetFresh, TypeOK, Running
  <2>4. Reflects(n, s) /\ Earlier(n, s, record[n])
    BY <2>1 DEF RunIsSound
  <2>5. (s # NoRecord /\ task'[u].fresh # 0) => s.asOf <= task'[u].fresh
    BY <2>3, <2>4 DEF Reflects
  <2>6. task'[u].fresh <= graph[n].version
    BY <2>2, <2>3
  <2> QED
    BY <2>3, <2>4, <2>5, <2>6 DEF RunIsSound, Reflects, Earlier
<1>6. CASE ExecuteCreate(u)
  <2> DEFINE n == task[u].node
  <2>1. task[u] \in Running /\ RunIsSound(u)
    BY <1>6, RunningFields DEF RunsAreSound, ExecuteCreate, Idle
  <2>2. /\ n \in Nodes
        /\ record[n] = NoRecord
        /\ record'[n] # NoRecord
        /\ record'[n].rev = 0
    BY <1>6, CreateWrites
  <2>3. /\ task'[u].node = n
        /\ task'[u].stored = NoRecord
        /\ task'[u].fresh = task[u].fresh
        /\ task'[u].pc = "announce"
        /\ events' = events /\ graph' = graph /\ history' = history
    BY <1>6, <2>1 DEF ExecuteCreate, ShouldCreate, TypeOK, Running
  <2>4. events[n][0] = 0
    BY <2>2 DEF EventsAreOfRevisions, TypeOK, Version
  <2>5. WrittenRev(u)' = 0
    BY <2>3 DEF WrittenRev
  <2> QED
    BY <2>1, <2>2, <2>3, <2>4, <2>5 DEF RunIsSound, Reflects, Earlier
<1>7. CASE ExecuteUpdate(u)
  <2> DEFINE n == task[u].node
             s == task[u].stored
  <2>1. task[u] \in Running /\ RunIsSound(u)
    BY <1>7, RunningFields DEF RunsAreSound, ExecuteUpdate, Idle
  <2>2. /\ n \in Nodes
        /\ record[n] = s /\ s \in Record
        /\ record'[n] \in Record
        /\ record'[n].rev = s.rev + 1
        /\ record'[n].asOf = task[u].fresh
        /\ record'[n].asOf > s.asOf
        /\ record'[n].features \in
             {s.features} \cup ({history[n][record'[n].asOf].features} \ {{}})
        /\ Reflects(n, record'[n])
    BY <1>7, UpdateWrites
  <2>3. /\ task'[u].node = n
        /\ task'[u].stored = s
        /\ task'[u].fresh = task[u].fresh
        /\ task'[u].pc = "announce"
        /\ events' = events /\ graph' = graph /\ history' = history
    BY <1>7, <2>1 DEF ExecuteUpdate, TypeOK, Running
  <2>4. /\ s.rev \in Nat /\ s.asOf \in Nat
        /\ record'[n].asOf \in Nat
        /\ graph[n].version \in Version
    <3>1. s.rev \in Nat /\ s.asOf \in Version /\ record'[n].asOf \in Version
      BY <2>2 DEF Record
    <3>2. graph[n].version \in Version
      BY <2>2 DEF TypeOK
    <3> QED
      BY <3>1, <3>2 DEF Version
  <2>5. s.rev + 1 \in Version
    <3>1. s.rev + 1 < record'[n].asOf /\ record'[n].asOf <= graph[n].version
      BY <2>2 DEF Reflects
    <3> QED
      BY <2>4, <3>1 DEF Version
  <2>6. events[n][s.rev + 1] = 0
    <3>1. events[n][s.rev + 1] \in Nat
      BY <2>2, <2>5 DEF TypeOK
    <3>2. ~(s.rev + 1 <= s.rev)
      BY <2>4
    <3>3. ~(events[n][s.rev + 1] > 0)
      BY <2>2, <2>5, <3>2 DEF EventsAreOfRevisions
    <3> QED
      BY <3>1, <3>3
  <2>7. WrittenRev(u)' = s.rev + 1
    BY <2>2, <2>3 DEF WrittenRev
  <2>8. Earlier(n, s, record[n])'
    <3>1. record'[n].asOf \in s.asOf..record'[n].asOf
      BY <2>2, <2>4
    <3>2. \/ record'[n].features = s.features
          \/ /\ record'[n].features # {}
             /\ \E v \in s.asOf..record'[n].asOf :
                  record'[n].features = history[n][v].features
      BY <2>2, <3>1
    <3>3. record'[n] # NoRecord
      BY <2>2
    <3> QED
      BY <2>2, <2>3, <2>4, <3>2, <3>3 DEF Earlier
  <2>9. Reflects(n, s)'
    BY <2>1, <2>3 DEF RunIsSound, Reflects
  <2> QED
    BY <2>1, <2>2, <2>3, <2>4, <2>6, <2>7, <2>8, <2>9 DEF RunIsSound
<1> QED
  BY <1>2, <1>3, <1>4, <1>5, <1>6, <1>7, RunMovesOn

LEMMA EventsKept ==
  ASSUME TypeOK, RecordsReflect, RunsAreSound, EventsAreOfRevisions,
         AnnouncedOnce, [Next]_vars
  PROVE  EventsAreOfRevisions' /\ AnnouncedOnce'
<1> SUFFICES ASSUME NEW n \in Nodes, NEW r \in Version
             PROVE  /\ events'[n][r] <= 1
                    /\ events'[n][r] > 0 => record'[n] # NoRecord /\ r <= record'[n].rev
  BY DEF EventsAreOfRevisions, AnnouncedOnce
<1>1. r \in Nat
  BY DEF Version
<1>2. ASSUME record[n] # NoRecord, r <= record[n].rev
      PROVE  record'[n] # NoRecord /\ r <= record'[n].rev
  <2>1. record[n] \in Record /\ record[n].rev \in Nat
    BY <1>2 DEF TypeOK, Record
  <2> QED
    BY <1>1, <1>2, <2>1, RecordMovesOn DEF Record
<1>3. CASE events' = events
  BY <1>2, <1>3 DEF EventsAreOfRevisions, AnnouncedOnce
<1>4. ASSUME NEW t \in Tasks, Announce(t)
      PROVE  /\ events'[n][r] <= 1
             /\ events'[n][r] > 0 => record'[n] # NoRecord /\ r <= record'[n].rev
  <2>1. task[t] \in Running /\ RunIsSound(t)
    BY <1>4, RunningFields DEF RunsAreSound, Announce, Idle
  <2>2. CASE events'[n][r] = events[n][r]
    BY <1>2, <2>2 DEF EventsAreOfRevisions, AnnouncedOnce
  <2>3. CASE events'[n][r] # events[n][r]
    <3>1. task[t].node = n /\ WrittenRev(t) = r /\ events'[n][r] = events[n][r] + 1
      BY <1>4, <2>3 DEF Announce, TypeOK
    <3>2. events[n][r] = 0 /\ record[n] # NoRecord /\ r <= record[n].rev
      BY <1>4, <2>1, <3>1 DEF RunIsSound, Announce
    <3> QED
      BY <1>2, <3>1, <3>2
  <2> QED
    BY <2>2, <2>3
<1> QED
  BY <1>3, <1>4, OnlyAnnounce

\* A run that has just written wrote a revision above those of all other runs
LEMMA WritersDifferKept ==
  ASSUME TypeOK, RecordsReflect, RunsAreSound, WritersDiffer, [Next]_vars
  PROVE  WritersDiffer'
<1> SUFFICES ASSUME NEW t \in Tasks, NEW u \in Tasks, t # u,
                    task'[t].pc = "announce", task'[u].pc = "announce",
                    task'[t].node = task'[u].node
             PROVE  WrittenRev(t)' # WrittenRev(u)'
  BY DEF WritersDiffer
<1>1. ASSUME NEW v \in Tasks, task'[v].pc = "announce"
      PROVE  \/ task'[v] = task[v] /\ WrittenRev(v)' = WrittenRev(v)
             \/ ExecuteCreate(v)
             \/ ExecuteUpdate(v)
  <2>1. ~GetStored(v) /\ ~GetFresh(v) /\ task'[v] # Idle
    BY <1>1, RunAfterStep DEF Idle
  <2>2. ~ \E n \in Nodes, k \in 1..MaxTries, loud \in BOOLEAN :
            task'[v] = Attempt(n, k, loud)
    <3>1. ASSUME NEW n, NEW k, NEW loud
          PROVE  Attempt(n, k, loud).pc # "announce"
      BY DEF Attempt
    <3> QED
      BY <1>1, <3>1
  <2>3. task'[v] = task[v] => WrittenRev(v)' = WrittenRev(v)
    BY DEF WrittenRev
  <2> QED
    BY <2>1, <2>2, <2>3, RunMovesOn
<1>2. ASSUME NEW v \in Tasks, NEW w \in Tasks, v # w,
             ExecuteCreate(v) \/ ExecuteUpdate(v),
             task'[w].pc = "announce", task'[v].node = task'[w].node
      PROVE  WrittenRev(v)' # WrittenRev(w)'
  <2> DEFINE n == task[v].node
  <2>1. /\ task'[w] = task[w]
        /\ task'[v].node = n
        /\ task'[v].stored = task[v].stored
        /\ task'[v].pc = "announce"
    BY <1>2, RunAfterStep
  <2>2. task[w].pc = "announce" /\ task[w].node = n /\ WrittenRev(w)' = WrittenRev(w)
    BY <1>2, <2>1 DEF WrittenRev
  <2>3. task[w] # Idle /\ RunIsSound(w)
    BY <2>2 DEF RunsAreSound, Idle
  <2>4. record[n] # NoRecord /\ WrittenRev(w) <= record[n].rev
    BY <2>2, <2>3 DEF RunIsSound
  <2>5. ~ExecuteCreate(v)
    BY <2>4, CreateWrites
  <2>6. record[n] = task[v].stored /\ record[n] \in Record
    BY <1>2, <2>5, UpdateWrites
  <2>7. WrittenRev(v)' = record[n].rev + 1
    BY <2>1, <2>4, <2>6 DEF WrittenRev
  <2>8. WrittenRev(w) \in Nat
    BY <2>2, <2>3, WrittenRevType DEF Version
  <2>9. record[n].rev \in Nat
    BY <2>6 DEF Record
  <2> QED
    BY <2>2, <2>4, <2>7, <2>8, <2>9
<1>3. CASE /\ task'[t] = task[t] /\ WrittenRev(t)' = WrittenRev(t)
           /\ task'[u] = task[u] /\ WrittenRev(u)' = WrittenRev(u)
  BY <1>3 DEF WritersDiffer
<1> QED
  BY <1>1, <1>2, <1>3

LEMMA KnownKept ==
  ASSUME TypeOK, KnownWasAnnounced, [Next]_vars
  PROVE  KnownWasAnnounced'
<1> SUFFICES ASSUME NEW n \in Nodes, graph'[n].known
             PROVE  graph'[n].version > 0
  BY DEF KnownWasAnnounced
<1>1. graph[n].version \in Nat
  BY DEF TypeOK, Version
<1>2. \/ graph' = graph
      \/ \E m \in Nodes : Announced(m) \/ NodePruned(m)
  BY DEF Next, Quiescent, SyncStep, NodeUpdated, NodeUpdatedUnseen,
         SyncQuietly, GetStored, GetFresh, NothingToDo, ExecuteCreate,
         ExecuteUpdate, Announce, Conflict, CallFails, vars
<1>3. CASE graph'[n] = graph[n]
  BY <1>3 DEF KnownWasAnnounced
<1>4. CASE graph'[n].version = graph[n].version + 1
  BY <1>1, <1>4
<1>5. ASSUME NEW m \in Nodes, Announced(m)
      PROVE  graph'[n] = graph[n] \/ graph'[n].version = graph[n].version + 1
  BY <1>5 DEF Announced, TypeOK
<1>6. ASSUME NEW m \in Nodes, NodePruned(m)
      PROVE  graph'[n] = graph[n]
  BY <1>6 DEF NodePruned, TypeOK
<1> QED
  BY <1>2, <1>3, <1>4, <1>5, <1>6

\* Of two records, the later of which comes before announcement w: if the earlier
\* one shows that announcement, so does the later one, as nothing returns
LEMMA ShowsStill ==
  ASSUME TypeOK, NEW n \in Nodes, NothingReturns(n), NEW w \in 1..MaxVersion,
         NEW s \in Record, NEW r \in Record, Reflects(n, s), Reflects(n, r),
         Earlier(n, s, r), r.asOf <= w, Shows(s, history[n][w])
  PROVE  Shows(r, history[n][w])
<1>1. /\ s.asOf \in Nat /\ s.rev \in Nat /\ s.rev < s.asOf
      /\ r.asOf \in Nat /\ s.asOf <= r.asOf
  BY DEF Record, Version, Reflects, Earlier
<1>2. s.asOf \in 1..MaxVersion /\ r.asOf \in 1..MaxVersion
  BY <1>1
<1>3. history[n][r.asOf].alias = history[n][w].alias
  BY <1>1, <1>2 DEF NothingReturns, Reflects, Shows
<1>4. ASSUME history[n][w].features # {}
      PROVE  r.features = history[n][w].features
  <2> DEFINE F == history[n][w].features
  <2>1. s.features = F
    BY <1>4 DEF Shows
  <2>2. PICK u \in 1..s.asOf : F = history[n][u].features
    BY <2>1 DEF Reflects
  <2>3. \A v \in u..w : history[n][v].features \in {F, {}}
    <3> SUFFICES ASSUME NEW v \in u..w
                 PROVE  history[n][v].features \in {F, {}}
      OBVIOUS
    <3>1. u \in 1..MaxVersion /\ v \in 1..MaxVersion /\ u <= v /\ v <= w
      BY <1>1, <1>2
    <3> QED
      BY <1>4, <2>2, <3>1 DEF NothingReturns
  <2>4. CASE r.features = s.features
    BY <2>1, <2>4
  <2>5. CASE /\ r.features # {}
             /\ \E v \in s.asOf..r.asOf : r.features = history[n][v].features
    <3>1. PICK v \in s.asOf..r.asOf : r.features = history[n][v].features
      BY <2>5
    <3>2. v \in u..w
      BY <1>1
    <3> QED
      BY <2>3, <2>5, <3>1, <3>2
  <2> QED
    BY <2>4, <2>5 DEF Earlier
<1> QED
  BY <1>3, <1>4 DEF Shows, Reflects

\* A run that compares with the latest announcement and finds nothing to do has
\* found that announcement stored, unless something has returned
LEMMA NothingToDoIsInSync ==
  ASSUME TypeOK, KnownWasAnnounced, RecordsReflect, RunsAreSound,
         NEW u \in Tasks, NothingToDo(u),
         graph[task[u].node].known,
         NothingReturns(task[u].node),
         task[u].fresh = graph[task[u].node].version
  PROVE  InSync(task[u].node)
<1> DEFINE n == task[u].node
           s == task[u].stored
           v == graph[n].version
<1>1. task[u] \in Running /\ task[u].pc = "execute" /\ RunIsSound(u)
  BY RunningFields DEF RunsAreSound, NothingToDo, Idle
<1>2. n \in Nodes /\ v \in Version /\ v > 0
  BY <1>1 DEF Running, TypeOK, KnownWasAnnounced
<1>3. v \in 1..MaxVersion
  BY <1>2 DEF Version
<1>4. s # NoRecord /\ s \in Record
  BY <1>1, <1>3 DEF NothingToDo, ShouldCreate, Running
<1>5. NodeUpdate(s, FreshDetails(u)) = [alias |-> s.alias, features |-> s.features]
  BY <1>3, <1>4 DEF NothingToDo, ShouldUpdate
<1>6. Shows(s, history[n][v])
  BY <1>5 DEF NodeUpdate, FreshDetails, Shows
<1>7. /\ Reflects(n, s) /\ Reflects(n, record[n]) /\ Earlier(n, s, record[n])
      /\ record[n] \in Record /\ record[n] # NoRecord
  BY <1>1, <1>2, <1>4 DEF RunIsSound, Earlier, RecordsReflect, TypeOK
<1>8. record[n].asOf <= v
  BY <1>7 DEF Reflects
<1> QED
  BY <1>2, <1>3, <1>4, <1>6, <1>7, <1>8, ShowsStill DEF InSync

\* What shows the latest announcement goes on showing it
LEMMA InSyncKept ==
  ASSUME TypeOK, KnownWasAnnounced, RecordsReflect, RunsAreSound, [Next]_vars,
         NEW n \in Nodes, NothingReturns(n), graph[n].known, InSync(n),
         graph'[n] = graph[n]
  PROVE  InSync(n)'
<1>1. TypeOK' /\ RecordsReflect' /\ history' = history
  BY TypeInductive, RecordsReflectKept, GraphMovesOn
<1>2. /\ record[n] \in Record /\ record[n] # NoRecord /\ Reflects(n, record[n])
      /\ graph[n].version \in 1..MaxVersion
  BY DEF InSync, TypeOK, RecordsReflect, KnownWasAnnounced, Version
<1>3. Earlier(n, record[n], record[n])
  BY <1>2 DEF Earlier, Record, Version
<1>4. Earlier(n, record[n], record'[n])
  BY <1>2, <1>3, EarlierKept
<1>5. /\ record'[n] \in Record /\ record'[n] # NoRecord
  BY <1>1, <1>2, <1>4 DEF Earlier, TypeOK
<1>6. Reflects(n, record'[n]) /\ record'[n].asOf <= graph[n].version
  BY <1>1, <1>5 DEF RecordsReflect, Reflects
<1>7. Shows(record'[n], history[n][graph[n].version])
  BY <1>2, <1>4, <1>5, <1>6, ShowsStill DEF InSync
<1> QED
  BY <1>1, <1>5, <1>7 DEF InSync, Shows

\* The step of a run either leaves it able to catch up, or has caught up, or
\* gives up
LEMMA CatchUpKept ==
  ASSUME TypeOK, KnownWasAnnounced, RecordsReflect, RunsAreSound, [Next]_vars,
         NEW n \in Nodes, NEW u \in Tasks, SyncStep(u) \/ CallFails(u),
         Followed(n), NothingReturns(n), WillCatchUp(u, n)
  PROVE  \/ missed'[n]
         \/ InSync(n)'
         \/ WillCatchUp(u, n)'
<1>1. task[u] \in Running /\ task[u].node = n
  BY RunningFields DEF WillCatchUp
<1>2. RecordsReflect' /\ history' = history
  BY RecordsReflectKept, GraphMovesOn
<1>3. CASE GetStored(u)
  <2>1. task'[u].pc = "getFresh" /\ task'[u].node = n
    BY <1>1, <1>3 DEF GetStored, TypeOK, Running
  <2> QED
    BY <2>1 DEF WillCatchUp, Idle
<1>4. CASE GetFresh(u)
  <2>1. /\ task'[u].pc = "execute"
        /\ task'[u].node = n
        /\ task'[u].fresh = graph[n].version
        /\ graph' = graph
    BY <1>1, <1>4 DEF GetFresh, TypeOK, Running, Followed
  <2> QED
    BY <2>1 DEF WillCatchUp, Idle
<1>5. CASE NothingToDo(u)
  <2>1. task[u].fresh = graph[n].version
    BY <1>5 DEF WillCatchUp, NothingToDo
  <2>2. InSync(n)
    BY <1>1, <1>5, <2>1, NothingToDoIsInSync DEF Followed
  <2> QED
    BY <1>2, <1>5, <2>2 DEF InSync, Shows, NothingToDo
<1>6. CASE ExecuteCreate(u) \/ ExecuteUpdate(u)
  <2>1. task[u].fresh = graph[n].version
    BY <1>6 DEF WillCatchUp, ExecuteCreate, ExecuteUpdate
  <2>2. record'[n] \in Record /\ record'[n].asOf = task[u].fresh
    BY <1>1, <1>6, CreateWrites, UpdateWrites
  <2>3. Shows(record'[n], history[n][task[u].fresh]) /\ graph' = graph
    BY <1>1, <1>6, <2>2, CreateWrites, UpdateWrites
       DEF Reflects, ExecuteCreate, ExecuteUpdate
  <2> QED
    BY <1>2, <2>1, <2>2, <2>3 DEF InSync, Shows
<1>7. CASE Announce(u)
  BY <1>7 DEF Announce, WillCatchUp
<1>8. CASE RetryOrGiveUp(u)
  <2>1. CASE task[u].tries < MaxTries
    <3>1. task'[u] = Attempt(n, task[u].tries + 1, task[u].loud)
      BY <1>1, <1>8, <2>1 DEF RetryOrGiveUp, TypeOK
    <3>2. task'[u].pc = "getStored" /\ task'[u].node = n
      BY <3>1 DEF Attempt
    <3> QED
      BY <3>2 DEF WillCatchUp, Idle
  <2>2. CASE ~(task[u].tries < MaxTries)
    BY <1>1, <1>8, <2>2 DEF RetryOrGiveUp, TypeOK
  <2> QED
    BY <2>1, <2>2
<1> QED
  BY <1>3, <1>4, <1>5, <1>6, <1>7, <1>8 DEF SyncStep, Conflict, CallFails

LEMMA LateIsInHandKept ==
  ASSUME TypeOK, KnownWasAnnounced, RecordsReflect, RunsAreSound,
         LateIsInHand, [Next]_vars
  PROVE  LateIsInHand'
<1> SUFFICES ASSUME NEW n \in Nodes, Followed(n)', NothingReturns(n)', ~InSync(n)'
             PROVE  \E t \in Tasks : WillCatchUp(t, n)'
  BY DEF LateIsInHand
<1>1. NothingReturns(n)
  BY GraphMovesOn DEF NothingReturns
\* Nothing about n changes but its runs: one that can catch up was there before
<1>6. ASSUME graph'[n] = graph[n], missed'[n] = missed[n]
      PROVE  \E t \in Tasks : WillCatchUp(t, n)
  <2>1. Followed(n)
    BY <1>6 DEF Followed
  <2>2. ~InSync(n)
    BY <1>1, <1>6, <2>1, InSyncKept DEF Followed
  <2> QED
    BY <1>1, <2>1, <2>2 DEF LateIsInHand
<1>7. ASSUME NEW t \in Tasks, WillCatchUp(t, n), task'[t] = task[t],
             graph'[n] = graph[n]
      PROVE  WillCatchUp(t, n)'
  BY <1>7 DEF WillCatchUp
<1>8. ASSUME NEW m \in Nodes, NEW loud \in BOOLEAN, Start(m, loud),
             graph'[n] = graph[n], missed'[n] = missed[n]
      PROVE  \E t \in Tasks : WillCatchUp(t, n)'
  <2>1. PICK t \in Tasks : WillCatchUp(t, n)
    BY <1>6, <1>8
  <2>2. task'[t] = task[t]
    BY <1>8, <2>1 DEF Start, WillCatchUp, TypeOK
  <2> QED
    BY <1>7, <1>8, <2>1, <2>2
<1>9. ASSUME NEW m \in Nodes, NodeUpdated(m)
      PROVE  \E t \in Tasks : WillCatchUp(t, n)'
  <2>1. CASE m = n
    <3>1. PICK t \in Tasks : task' = [task EXCEPT ![t] = Attempt(n, 1, TRUE)]
      BY <1>9, <2>1 DEF NodeUpdated, Start
    <3>2. task'[t].pc = "getStored" /\ task'[t].node = n
      BY <3>1 DEF TypeOK, Attempt
    <3> QED
      BY <3>2 DEF WillCatchUp, Idle
  <2>2. CASE m # n
    BY <1>8, <1>9, <2>2 DEF NodeUpdated, Announced, TypeOK
  <2> QED
    BY <2>1, <2>2
<1>10. ASSUME NEW m \in Nodes, NodeUpdatedUnseen(m)
       PROVE  \E t \in Tasks : WillCatchUp(t, n)'
  <2>1. m # n
    BY <1>10 DEF NodeUpdatedUnseen, Followed, TypeOK
  <2>2. graph'[n] = graph[n] /\ missed'[n] = missed[n] /\ task' = task
    BY <1>10, <2>1 DEF NodeUpdatedUnseen, Announced, TypeOK
  <2> QED
    BY <1>6, <1>7, <2>2
<1>11. ASSUME NEW m \in Nodes, NodePruned(m)
       PROVE  \E t \in Tasks : WillCatchUp(t, n)'
  <2>1. m # n
    BY <1>11 DEF NodePruned, Followed, TypeOK
  <2>2. graph'[n] = graph[n] /\ missed' = missed /\ task' = task
    BY <1>11, <2>1 DEF NodePruned, TypeOK
  <2> QED
    BY <1>6, <1>7, <2>2
<1>12. ASSUME NEW m \in Nodes, SyncQuietly(m)
       PROVE  \E t \in Tasks : WillCatchUp(t, n)'
  BY <1>8, <1>12 DEF SyncQuietly
<1>13. ASSUME NEW u \in Tasks, SyncStep(u) \/ CallFails(u)
       PROVE  \E t \in Tasks : WillCatchUp(t, n)'
  <2>1. /\ graph' = graph
        /\ \A t \in Tasks \ {u} : task'[t] = task[t]
        /\ missed'[n] = missed[n] \/ missed'[n] = TRUE
    BY <1>13 DEF SyncStep, GetStored, GetFresh, NothingToDo, ExecuteCreate,
         ExecuteUpdate, Announce, Conflict, CallFails, RetryOrGiveUp, Finish, TypeOK
  <2>2. missed'[n] = missed[n]
    BY <2>1 DEF Followed
  <2>3. PICK t \in Tasks : WillCatchUp(t, n)
    BY <1>6, <2>1, <2>2
  <2>4. CASE t # u
    BY <1>7, <2>1, <2>3, <2>4
  <2>5. CASE t = u
    <3>1. Followed(n) /\ ~missed'[n]
      BY <2>1, <2>2 DEF Followed
    <3> QED
      BY <1>1, <1>13, <2>3, <2>5, <3>1, CatchUpKept
  <2> QED
    BY <2>4, <2>5
<1>14. CASE UNCHANGED vars
  <2>1. graph'[n] = graph[n] /\ missed' = missed /\ task' = task
    BY <1>14 DEF vars
  <2> QED
    BY <1>6, <1>7, <2>1
<1> QED
  BY <1>9, <1>10, <1>11, <1>12, <1>13, <1>14 DEF Next, Quiescent

-----------------------------------------------------------------------------
(* The theorems *)

\* The strengthened invariant: the records reflect announced details, every run
\* holds a record read before its fresh details, no two runs wrote the same
\* revision, and a change not yet stored is in the hands of some run.
THEOREM IInvHolds == Spec => []IInv
<1>1. Init => IInv
  BY DEF Init, IInv, TypeOK, Version, KnownWasAnnounced, RecordsReflect, Reflects,
         RunsAreSound, EventsAreOfRevisions, AnnouncedOnce, WritersDiffer,
         LateIsInHand, Followed, Idle
<1>2. IInv /\ [Next]_vars => IInv'
  BY TypeInductive, KnownKept, RecordsReflectKept, RunsAreSoundKept, EventsKept,
     WritersDifferKept, LateIsInHandKept DEF IInv
<1> QED
  BY <1>1, <1>2, PTL DEF Spec

\* No write of syncNode ever replaces the details of a node by those of an older
\* announcement, however the runs for that node overlap, fail and retry.
THEOREM NeverStale == Spec => NoStaleOverwrite
<1>1. IInv /\ [Next]_vars =>
        [\A n \in Nodes : AsOf(record'[n]) >= AsOf(record[n])]_record
  <2> SUFFICES ASSUME IInv, [Next]_vars, NEW n \in Nodes
               PROVE  AsOf(record'[n]) >= AsOf(record[n])
    OBVIOUS
  <2>1. TypeOK /\ RunsAreSound
    BY DEF IInv
  <2>2. TypeOK'
    BY <2>1, TypeInductive
  <2>3. record[n] \in Record \cup {NoRecord} /\ record'[n] \in Record \cup {NoRecord}
    BY <2>1, <2>2 DEF TypeOK
  <2>4. AsOf(record[n]) \in Nat /\ AsOf(record'[n]) \in Nat
    BY <2>3, AsOfType
  <2> QED
    BY <2>1, <2>3, <2>4, RecordMovesOn DEF AsOf
<1> QED
  BY <1>1, IInvHolds, PTL DEF Spec, NoStaleOverwrite

\* No revision of a node is announced twice by eventNodeUpdated.
THEOREM NeverTwice == Spec => []AnnouncedOnce
BY IInvHolds, PTL DEF IInv

\* Once the handlers of a node are done, its record shows what the node last
\* announced, if that change was seen and not given up, and if the node changed
\* nothing back to what it was before.
THEOREM InSyncOnceDone == Spec => []SyncedAtRest
<1>1. IInv => SyncedAtRest
  <2> SUFFICES ASSUME IInv, NEW n \in Nodes,
                      Followed(n), NothingReturns(n), ~Busy(n)
               PROVE  InSync(n)
    BY DEF SyncedAtRest
  <2> QED
    BY DEF IInv, LateIsInHand, WillCatchUp, Busy
<1> QED
  BY <1>1, IInvHolds, PTL

\* The nodes table implements a replica of the graph: every step of LND and of
\* the handlers publishes a version, refreshes one copy forward, or does neither.
THEOREM NodesTableIsAReplica == Spec => ImplementsReplica
<1> DEFINE source == [n \in Nodes |-> graph[n].version]
           copy == [n \in Nodes |-> AsOf(record[n])]
<1>1. Init => R!ReplicaInit
  BY DEF Init, R!ReplicaInit, AsOf
<1>2. IInv /\ [Next]_vars => [R!ReplicaNext]_(R!replicaVars)
  <2> SUFFICES ASSUME IInv, [Next]_vars
               PROVE  R!ReplicaNext \/ (source' = source /\ copy' = copy)
    BY DEF R!replicaVars
  <2>1. TypeOK /\ RecordsReflect /\ RunsAreSound
    BY DEF IInv
  <2>2. ASSUME NEW m \in Nodes, NodeUpdated(m) \/ NodeUpdatedUnseen(m)
        PROVE  R!Publish(m)
    <3>1. copy' = copy
      BY <2>2 DEF NodeUpdated, NodeUpdatedUnseen
    <3>2. graph' = [graph EXCEPT ![m] = [version |-> graph[m].version + 1, known |-> TRUE]]
      BY <2>2 DEF NodeUpdated, NodeUpdatedUnseen, Announced
    <3>3. source' = [source EXCEPT ![m] = @ + 1]
      <4>1. ASSUME NEW n \in Nodes
            PROVE  source'[n] = [source EXCEPT ![m] = @ + 1][n]
        BY <2>1, <3>2 DEF TypeOK
      <4> QED
        BY <4>1
    <3> QED
      BY <3>1, <3>3 DEF R!Publish
  <2>3. ASSUME NEW m \in Nodes, NodePruned(m)
        PROVE  source' = source /\ copy' = copy
    <3>1. \A n \in Nodes : graph'[n].version = graph[n].version
      BY <2>1, <2>3 DEF NodePruned, TypeOK
    <3>2. record' = record
      BY <2>3 DEF NodePruned
    <3> QED
      BY <3>1, <3>2
  <2>4. ASSUME NEW t \in Tasks, ExecuteCreate(t) \/ ExecuteUpdate(t)
        PROVE  R!Refresh(task[t].node)
    <3> DEFINE n == task[t].node
               v == AsOf(record'[n])
    <3>1. /\ n \in Nodes
          /\ record' = [record EXCEPT ![n] = record'[n]]
          /\ record'[n] \in Record
          /\ Reflects(n, record'[n])
      BY <2>1, <2>4, CreateWrites, UpdateWrites
    <3>2. source' = source
      BY <2>4 DEF ExecuteCreate, ExecuteUpdate
    <3>3. AsOf(record[n]) < v
      BY <2>1, <2>4, CreateWrites, UpdateWrites DEF AsOf
    <3>4. v <= graph[n].version
      BY <3>1 DEF AsOf, Reflects
    <3>5. v \in Nat /\ AsOf(record[n]) \in Nat /\ graph[n].version \in Nat
      BY <2>1, <3>1, AsOfType DEF TypeOK, Version
    <3>6. v \in (copy[n] + 1)..source[n]
      BY <3>1, <3>3, <3>4, <3>5
    <3>7. copy' = [copy EXCEPT ![n] = v]
      <4>1. ASSUME NEW m \in Nodes
            PROVE  copy'[m] = [copy EXCEPT ![n] = v][m]
        <5>1. CASE m = n
          BY <3>1, <5>1
        <5>2. CASE m # n
          <6>1. record'[m] = record[m]
            BY <2>1, <3>1, <5>2 DEF TypeOK
          <6> QED
            BY <5>2, <6>1 DEF AsOf
        <5> QED
          BY <5>1, <5>2
      <4> QED
        BY <4>1
    <3> QED
      BY <3>2, <3>6, <3>7 DEF R!Refresh
  <2>5. ASSUME NEW t \in Tasks,
               \/ GetStored(t) \/ GetFresh(t) \/ NothingToDo(t)
               \/ Announce(t) \/ Conflict(t) \/ CallFails(t)
        PROVE  source' = source /\ copy' = copy
    BY <2>5 DEF GetStored, GetFresh, NothingToDo, Announce, Conflict, CallFails
  <2>6. ASSUME NEW m \in Nodes, SyncQuietly(m)
        PROVE  source' = source /\ copy' = copy
    BY <2>6 DEF SyncQuietly
  <2>7. CASE UNCHANGED vars
    BY <2>7 DEF vars
  <2>8. ASSUME NEW t \in Tasks, ExecuteCreate(t) \/ ExecuteUpdate(t)
        PROVE  task[t].node \in Nodes
    BY <2>1, <2>8, CreateWrites, UpdateWrites
  <2> QED
    BY <2>2, <2>3, <2>4, <2>5, <2>6, <2>7, <2>8
       DEF Next, Quiescent, SyncStep, R!ReplicaNext
<1> QED
  BY <1>1, <1>2, IInvHolds, PTL DEF Spec, ImplementsReplica, R!ReplicaSpec

-----------------------------------------------------------------------------
(* What was written is announced *)

\* t has written revision r of n and is about to say so
Announcer(t, n, r) ==
  task[t].pc = "announce" /\ task[t].node = n /\ WrittenRev(t) = r

\* Without quiet callers every run announces what it writes.
LoudUnlessQuiet == quiet = 0 => \A t \in Tasks : task[t] # Idle => task[t].loud

\* As long as no call failed, every revision is announced or in hand.
WritesAreAnnounced ==
  (quiet = 0 /\ faults = 0) =>
    \A n \in Nodes : record[n] # NoRecord =>
      \A r \in 0..record[n].rev :
        events[n][r] = 1 \/ \E t \in Tasks : Announcer(t, n, r)

AnnouncedInv == IInv /\ LoudUnlessQuiet /\ WritesAreAnnounced

\* Failures and quiet runs are counted, never forgotten.
LEMMA CountsGrow ==
  ASSUME TypeOK, [Next]_vars
  PROVE  /\ quiet' = 0 => quiet = 0
         /\ faults' = 0 => faults = 0
<1>1. quiet \in Nat /\ faults \in Nat
  BY DEF TypeOK
<1>2. \/ quiet' = quiet
      \/ \E n \in Nodes : SyncQuietly(n)
  BY DEF Next, Quiescent, SyncStep, NodeUpdated, NodeUpdatedUnseen, NodePruned,
         GetStored, GetFresh, NothingToDo, ExecuteCreate, ExecuteUpdate, Announce,
         Conflict, CallFails, vars
<1>3. \/ faults' = faults
      \/ \E t \in Tasks : CallFails(t)
  BY DEF Next, Quiescent, SyncStep, NodeUpdated, NodeUpdatedUnseen, NodePruned,
         SyncQuietly, GetStored, GetFresh, NothingToDo, ExecuteCreate, ExecuteUpdate,
         Announce, Conflict, vars
<1>4. (\E n \in Nodes : SyncQuietly(n)) => quiet' = quiet + 1
  BY DEF SyncQuietly
<1>5. (\E t \in Tasks : CallFails(t)) => faults' = faults + 1
  BY DEF CallFails
<1>. QED
  BY <1>1, <1>2, <1>3, <1>4, <1>5

LEMMA LoudKept ==
  ASSUME TypeOK, LoudUnlessQuiet, [Next]_vars
  PROVE  LoudUnlessQuiet'
<1>. SUFFICES ASSUME quiet' = 0, NEW t \in Tasks, task'[t] # Idle
              PROVE  task'[t].loud
  BY DEF LoudUnlessQuiet
<1>1. quiet = 0
  BY CountsGrow
<1>2. CASE task'[t] = task[t]
  BY <1>1, <1>2 DEF LoudUnlessQuiet
<1>3. ASSUME NEW n \in Nodes, NodeUpdated(n) \/ NodeUpdatedUnseen(n) \/ NodePruned(n)
      PROVE  task'[t] = task[t] \/ task'[t].loud
  <2>1. CASE NodeUpdated(n)
    <3>1. PICK u \in Tasks : task' = [task EXCEPT ![u] = Attempt(n, 1, TRUE)]
      BY <2>1 DEF NodeUpdated, Start
    <3>. QED
      BY <3>1 DEF Attempt, TypeOK
  <2>2. CASE NodeUpdatedUnseen(n) \/ NodePruned(n)
    BY <2>2 DEF NodeUpdatedUnseen, NodePruned
  <2>. QED
    BY <1>3, <2>1, <2>2
<1>4. ASSUME NEW n \in Nodes, SyncQuietly(n)
      PROVE  FALSE
  BY <1>4 DEF SyncQuietly, TypeOK
<1>5. ASSUME NEW u \in Tasks, SyncStep(u) \/ CallFails(u)
      PROVE  task'[t] = task[t] \/ task'[t].loud
  <2>1. task[u] # Idle /\ task[u] \in Running
    BY <1>5, RunningFields DEF SyncStep, GetStored, GetFresh, NothingToDo, ExecuteCreate,
       ExecuteUpdate, Announce, Conflict, CallFails, Idle
  <2>2. task[u].loud
    BY <1>1, <2>1 DEF LoudUnlessQuiet
  <2>3. CASE Finish(u)
    BY <2>3 DEF Finish, TypeOK
  <2>4. CASE RetryOrGiveUp(u)
    <3>1. \A m, k : Attempt(m, k, task[u].loud).loud
      BY <2>2 DEF Attempt
    <3>. QED
      BY <2>4, <3>1 DEF RetryOrGiveUp, Finish, TypeOK
  <2>5. CASE GetStored(u) \/ GetFresh(u) \/ ExecuteCreate(u) \/ ExecuteUpdate(u)
    <3>1. t # u => task'[t] = task[t]
      BY <2>5 DEF GetStored, GetFresh, ExecuteCreate, ExecuteUpdate, TypeOK
    <3>2. CASE GetStored(u)
      BY <2>1, <2>2, <3>1, <3>2 DEF GetStored, Running, TypeOK
    <3>3. CASE GetFresh(u)
      BY <2>1, <2>2, <3>1, <3>3 DEF GetFresh, Running, TypeOK
    <3>4. CASE ExecuteCreate(u) \/ ExecuteUpdate(u)
      <4>1. task' = [task EXCEPT ![u].pc = "announce"]
        BY <3>4 DEF ExecuteCreate, ExecuteUpdate
      <4>. QED
        BY <2>1, <2>2, <3>1, <4>1 DEF Running, TypeOK
    <3>. QED
      BY <2>5, <3>2, <3>3, <3>4
  <2>. QED
    BY <1>5, <2>3, <2>4, <2>5 DEF SyncStep, NothingToDo, Announce, Conflict, CallFails
<1>. QED
  BY <1>2, <1>3, <1>4, <1>5 DEF Next, Quiescent, vars

\* A revision that was announced or in hand stays so through every step that
\* neither writes, announces nor fails.
LEMMA HandsKept ==
  ASSUME WritesAreAnnounced, NEW n \in Nodes,
         quiet' = 0 => quiet = 0, faults' = 0 => faults = 0,
         record'[n] = record[n], events'[n] = events[n],
         \A t \in Tasks : task[t].pc = "announce" => task'[t] = task[t],
         quiet' = 0, faults' = 0, record'[n] # NoRecord, NEW r \in 0..record'[n].rev
  PROVE  events'[n][r] = 1 \/ \E t \in Tasks : Announcer(t, n, r)'
<1>1. events[n][r] = 1 \/ \E t \in Tasks : Announcer(t, n, r)
  BY DEF WritesAreAnnounced
<1>. QED
  BY <1>1 DEF Announcer, WrittenRev

LEMMA WritesStayAnnounced ==
  ASSUME AnnouncedInv, [Next]_vars
  PROVE  WritesAreAnnounced'
<1>. SUFFICES ASSUME quiet' = 0, faults' = 0, NEW n \in Nodes, record'[n] # NoRecord,
                     NEW r \in 0..record'[n].rev
              PROVE  events'[n][r] = 1 \/ \E t \in Tasks : Announcer(t, n, r)'
  BY DEF WritesAreAnnounced
<1>1. /\ TypeOK /\ RunsAreSound /\ RecordsReflect /\ LoudUnlessQuiet /\ WritesAreAnnounced
      /\ record[n] \in Record \cup {NoRecord}
  BY DEF AnnouncedInv, IInv, TypeOK
<1>2. quiet = 0 /\ faults = 0
  BY <1>1, CountsGrow
<1>3. ASSUME record' = record, events' = events,
             \A t \in Tasks : task[t].pc = "announce" => task'[t] = task[t]
      PROVE  events'[n][r] = 1 \/ \E t \in Tasks : Announcer(t, n, r)'
  BY <1>1, <1>2, <1>3, HandsKept
<1>4. ASSUME NEW m \in Nodes, \/ NodeUpdated(m) \/ NodeUpdatedUnseen(m)
                              \/ NodePruned(m) \/ SyncQuietly(m)
      PROVE  \A t \in Tasks : task[t].pc = "announce" => task'[t] = task[t]
  <2>1. CASE task' = task
    BY <2>1
  <2>2. ASSUME NEW loud, Start(m, loud)
        PROVE  \A t \in Tasks : task[t].pc = "announce" => task'[t] = task[t]
    <3>1. PICK u \in Tasks : task[u] = Idle /\ task' = [task EXCEPT ![u] = Attempt(m, 1, loud)]
      BY <2>2 DEF Start
    <3>. QED
      BY <1>1, <3>1 DEF Idle, TypeOK
  <2>. QED
    BY <1>4, <2>1, <2>2 DEF NodeUpdated, NodeUpdatedUnseen, NodePruned, SyncQuietly
<1>5. ASSUME NEW u \in Tasks, GetStored(u) \/ GetFresh(u) \/ NothingToDo(u) \/ Conflict(u)
      PROVE  \A t \in Tasks : task[t].pc = "announce" => task'[t] = task[t]
  BY <1>1, <1>5 DEF GetStored, GetFresh, NothingToDo, Conflict, RetryOrGiveUp, Finish, TypeOK
<1>6. ASSUME NEW u \in Tasks, CallFails(u)
      PROVE  FALSE
  BY <1>1, <1>6 DEF CallFails, TypeOK
<1>7. ASSUME NEW u \in Tasks, ExecuteCreate(u) \/ ExecuteUpdate(u)
      PROVE  events'[n][r] = 1 \/ \E t \in Tasks : Announcer(t, n, r)'
  <2>1. /\ events' = events
        /\ task[u].pc = "execute" /\ task[u] \in Running
        /\ \A t \in Tasks : task[t].pc = "announce" => task'[t] = task[t]
    BY <1>1, <1>7, RunningFields DEF ExecuteCreate, ExecuteUpdate, TypeOK, Idle
  <2>2. CASE task[u].node # n
    <3>1. record'[n] = record[n]
      BY <1>1, <1>7, <2>2, CreateWrites, UpdateWrites DEF TypeOK
    <3>. QED
      BY <1>1, <1>2, <2>1, <3>1, HandsKept
  <2>3. CASE task[u].node = n
    <3>1. /\ task'[u].pc = "announce" /\ task'[u].node = n
          /\ task'[u].stored = task[u].stored
      BY <1>1, <1>7, <2>1, <2>3 DEF ExecuteCreate, ExecuteUpdate, TypeOK, Running
    <3>2. CASE ExecuteCreate(u)
      <4>0. record'[n].rev = 0
        BY <1>1, <2>3, <3>2, CreateWrites
      <4>1. r = 0 /\ task[u].stored = NoRecord
        BY <3>2, <4>0 DEF ExecuteCreate, ShouldCreate
      <4>. QED
        BY <3>1, <4>1 DEF Announcer, WrittenRev
    <3>3. CASE ExecuteUpdate(u)
      <4>1. /\ record[n] \in Record /\ record[n] = task[u].stored
            /\ record'[n].rev = record[n].rev + 1
        BY <1>1, <2>3, <3>3, UpdateWrites
      <4>2. record[n].rev \in Nat /\ record[n] # NoRecord
        BY <4>1 DEF Record
      <4>3. CASE r = record[n].rev + 1
        BY <3>1, <4>1, <4>2, <4>3 DEF Announcer, WrittenRev
      <4>4. CASE r \in 0..record[n].rev
        <5>1. events[n][r] = 1 \/ \E t \in Tasks : Announcer(t, n, r)
          BY <1>1, <1>2, <4>2, <4>4 DEF WritesAreAnnounced
        <5>. QED
          BY <2>1, <5>1 DEF Announcer, WrittenRev
      <4>. QED
        BY <4>1, <4>2, <4>3, <4>4
    <3>. QED
      BY <1>7, <3>2, <3>3
  <2>. QED
    BY <2>2, <2>3
<1>8. ASSUME NEW u \in Tasks, Announce(u)
      PROVE  events'[n][r] = 1 \/ \E t \in Tasks : Announcer(t, n, r)'
  <2>1. task[u] # Idle /\ task[u] \in Running /\ task[u].loud
    BY <1>1, <1>2, <1>8, RunningFields DEF Announce, Idle, LoudUnlessQuiet
  <2>2. PICK m \in Nodes, w \in Version :
          /\ m = task[u].node /\ w = WrittenRev(u) /\ events[m][w] = 0
    <3>1. /\ WrittenRev(u) <= record[task[u].node].rev
          /\ events[task[u].node][WrittenRev(u)] = 0
          /\ task[u].node \in Nodes
          /\ record[task[u].node] \in Record
      BY <1>1, <1>8, <2>1 DEF RunsAreSound, RunIsSound, Announce, Running, TypeOK
    <3>2. /\ record[task[u].node].rev < record[task[u].node].asOf
          /\ record[task[u].node].rev \in Nat
          /\ record[task[u].node].asOf \in Version
      BY <1>1, <3>1 DEF RecordsReflect, Reflects, Record
    <3>3. WrittenRev(u) \in Nat
      BY <2>1 DEF WrittenRev, Running, Record
    <3>4. WrittenRev(u) \in Version
      BY <3>1, <3>2, <3>3 DEF Version
    <3>. QED
      BY <3>1, <3>4
  <2>3. events' = [events EXCEPT ![m][w] = events[m][w] + 1]
    BY <1>8, <2>1, <2>2 DEF Announce
  <2>4. events[n] \in [Version -> Nat] /\ events[m] \in [Version -> Nat]
    BY <1>1 DEF TypeOK
  <2>5. CASE m = n /\ w = r
    BY <1>1, <2>2, <2>3, <2>4, <2>5 DEF TypeOK
  <2>6. CASE ~(m = n /\ w = r)
    <3>1. events'[n][r] = events[n][r]
      BY <1>1, <2>3, <2>4, <2>6 DEF TypeOK
    <3>2. record' = record /\ \A t \in Tasks \ {u} : task'[t] = task[t]
      BY <1>1, <1>8 DEF Announce, Finish, TypeOK
    <3>3. events[n][r] = 1 \/ \E t \in Tasks : Announcer(t, n, r)
      BY <1>1, <1>2, <3>2 DEF WritesAreAnnounced
    <3>4. ~Announcer(u, n, r)
      BY <2>2, <2>6 DEF Announcer
    <3>. QED
      BY <3>1, <3>2, <3>3, <3>4 DEF Announcer, WrittenRev
  <2>. QED
    BY <2>5, <2>6
<1>9. CASE UNCHANGED vars
  BY <1>3, <1>9 DEF vars
<1>10. ASSUME \/ \E m \in Nodes : \/ NodeUpdated(m) \/ NodeUpdatedUnseen(m)
                                  \/ NodePruned(m) \/ SyncQuietly(m)
              \/ \E u \in Tasks : \/ GetStored(u) \/ GetFresh(u) \/ NothingToDo(u)
                                  \/ Conflict(u)
       PROVE  record' = record /\ events' = events
  BY <1>10 DEF NodeUpdated, NodeUpdatedUnseen, NodePruned, SyncQuietly, GetStored, GetFresh,
     NothingToDo, Conflict
<1>. QED
  BY <1>3, <1>4, <1>5, <1>6, <1>7, <1>8, <1>9, <1>10 DEF Next, Quiescent, SyncStep

LEMMA AnnouncedInvHolds == Spec => []AnnouncedInv
<1>1. Init => LoudUnlessQuiet /\ WritesAreAnnounced
  BY DEF Init, LoudUnlessQuiet, WritesAreAnnounced
<1>2. IInv => TypeOK
  BY DEF IInv
<1>3. ASSUME IInv, IInv', LoudUnlessQuiet, WritesAreAnnounced, [Next]_vars
      PROVE  LoudUnlessQuiet' /\ WritesAreAnnounced'
  BY <1>2, <1>3, LoudKept, WritesStayAnnounced DEF AnnouncedInv
<1>. QED
  BY <1>1, <1>3, IInvHolds, PTL DEF Spec, AnnouncedInv

\* When only eventNodeUpdated ran syncNode and no call failed, every revision of
\* a node was announced once its handlers are done: none is lost to a conflict
\* or a retry.
THEOREM EveryRevisionAnnounced == Spec => []AnnouncedAtRest
<1>1. AnnouncedInv => AnnouncedAtRest
  BY DEF AnnouncedInv, WritesAreAnnounced, Announcer, AnnouncedAtRest, Busy, Idle
<1>. QED
  BY <1>1, AnnouncedInvHolds, PTL

=============================================================================
