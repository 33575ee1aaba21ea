-------------------------- MODULE ChannelSyncProofs --------------------------
(***************************************************************************)
(* Theorems about ChannelSync, for any channels, nodes, handlers, retries  *)
(* and failures.  The invariant comes in three parts, each proved on top   *)
(* of the types: RowInv, how what a handler has read relates to the row it *)
(* writes; AddedInv, who may still announce a channel; and CloseInv, what  *)
(* is left to do for a channel that closed.                                *)
(***************************************************************************)
EXTENDS ChannelSync, TLAPS

USE ChannelSyncAssumption, NoChannelRecord DEF ChannelSyncAssumption

-----------------------------------------------------------------------------
(* Types *)

\* The step of a handler tells which method it runs
LEMMA PcTells ==
  ASSUME TypeOK, NEW t \in Tasks
  PROVE  /\ IsSync(t) \/ task[t] \in Close \/ task[t] = Idle
         /\ IsSync(t) <=> task[t].pc \in {"getStored", "getFresh", "syncNodes", "announce"}
         /\ task[t] \in Close
              <=> task[t].pc \in {"getStoredToMark", "mark", "announceClosed"}
         /\ task[t] = Idle <=> task[t].pc = "idle"
<1>1. IsSync(t) \/ task[t] \in Close \/ task[t] = Idle
  BY DEF TypeOK, IsSync
<1>2. IsSync(t) => task[t].pc \in {"getStored", "getFresh", "syncNodes", "announce"}
  BY DEF IsSync, Sync
<1>3. task[t] \in Close => task[t].pc \in {"getStoredToMark", "mark", "announceClosed"}
  BY DEF Close
<1>4. task[t] = Idle => task[t].pc = "idle"
  BY DEF Idle
<1>. QED
  BY <1>1, <1>2, <1>3, <1>4

LEMMA FirstTry == 1 \in 1..MaxTries
OBVIOUS

LEMMA AttemptType ==
  ASSUME NEW c \in Channels, NEW k \in 1..MaxTries
  PROVE  Attempt(c, k) \in Sync
BY DEF Attempt, Sync, GraphState

LEMMA MarkingType ==
  ASSUME NEW c \in Channels
  PROVE  Marking(c) \in Close
BY DEF Marking, Close

\* The rows the code derives are rows
LEMMA RowType ==
  ASSUME NEW r \in Record, NEW n \in Nat, NEW b \in BOOLEAN
  PROVE  [r EXCEPT !.rev = n, !.capacity = b] \in Record
BY DEF Record

LEMMA FilledType ==
  ASSUME NEW r \in Record
  PROVE  /\ Filled(r) \in Record
         /\ Filled(r) # NoRecord
         /\ Filled(r).rev = r.rev + 1
         /\ Filled(r).capacity
         /\ Filled(r).closed = r.closed
<1>1. r.rev + 1 \in Nat /\ TRUE \in BOOLEAN
  BY DEF Record
<1>2. Filled(r).rev = r.rev + 1
  BY DEF Filled, Record
<1>3. Filled(r).capacity
  BY DEF Filled, Record
<1>4. Filled(r).closed = r.closed
  BY DEF Filled, Record
<1>5. Filled(r) \in Record
  BY <1>1, RowType, Zenon DEF Filled
<1>6. Filled(r) # NoRecord
  BY <1>5
<1>. QED
  BY <1>2, <1>3, <1>4, <1>5, <1>6

LEMMA NewRowType ==
  ASSUME NEW b \in BOOLEAN
  PROVE  [rev |-> 0, capacity |-> b, closed |-> FALSE] \in Record
BY DEF Record

LEMMA ChannelRecordType ==
  ASSUME NEW g
  PROVE  /\ ChannelRecord(g) \in Record
         /\ ChannelRecord(g) # NoRecord
         /\ ChannelRecord(g).rev = 0
         /\ ~ChannelRecord(g).closed
<1>1. (g = "full") \in BOOLEAN
  OBVIOUS
<1>2. ChannelRecord(g) \in Record
  BY <1>1, NewRowType, Zenon DEF ChannelRecord
<1>3. ChannelRecord(g) # NoRecord
  BY <1>2
<1>4. ChannelRecord(g).rev = 0
  BY DEF ChannelRecord
<1>5. ~ChannelRecord(g).closed
  BY DEF ChannelRecord
<1>. QED
  BY <1>2, <1>3, <1>4, <1>5

-----------------------------------------------------------------------------
(* The inductive invariant *)

\* What a syncChannel that read `seen` may still believe of `row`: the row is
\* there, not older, and if it is the one that was read it lacks its capacity
\* as it did then.
NotNewer(seen, row) ==
  /\ row # NoRecord
  /\ seen.rev <= row.rev
  /\ (seen.rev = row.rev /\ ~seen.capacity) => ~row.capacity

\* A run's update comes after its reads and is for a row without capacity, the
\* reads are no newer than the table, and the nodes it has synced are stored or
\* unknown to LND.
RunIsSound(t) ==
  IsSync(t) =>
    /\ task[t].pc = "getStored" => task[t].write = "none"
    /\ task[t].write = "pending" => /\ task[t].stored # NoRecord
                                    /\ ~task[t].stored.capacity
    /\ task[t].stored # NoRecord => NotNewer(task[t].stored, channel[task[t].channel])
    /\ task[t].synced \subseteq nodes \cup unseen[task[t].channel]

\* The update of an abandoned attempt only fits the row it was computed from.
StrayIsSound(s) ==
  /\ channel[s.channel] # NoRecord
  /\ s.rev <= channel[s.channel].rev
  /\ s.rev = channel[s.channel].rev => ~channel[s.channel].capacity

RowInv ==
  /\ TypeOK
  /\ \A t \in Tasks : RunIsSound(t)
  /\ \A s \in stray : StrayIsSound(s)
  /\ FundingFilledOnce
  /\ NodesFirst

\* Announcing(t): t has created the row and is about to say so
Announcing(t) == task[t].pc = "announce"

\* Only the creator of a row announces it, and there is one creator: until it
\* has announced, nobody has.
AddedInv ==
  /\ \A t \in Tasks : Announcing(t) => /\ Stored(task[t].channel)
                                        /\ added[task[t].channel] = 0
  /\ \A t, u \in Tasks :
       (Announcing(t) /\ Announcing(u) /\ t # u) => task[t].channel # task[u].channel
  /\ \A c \in Channels : added[c] <= 1 /\ (added[c] = 1 => Stored(c))

Marks(t, c) == task[t] \in Close /\ task[t].channel = c

\* Nothing of syncChannel is left for c: neither a run nor an update
Alone(c) ==
  /\ \A t \in Tasks : IsSync(t) => task[t].channel # c
  /\ \A s \in stray : s.channel # c

\* A handler marks only what is gone, and what it read is there still.
MarkerIsSound(t) ==
  task[t] \in Close =>
    /\ graph[task[t].channel] = "gone"
    /\ (task[t].pc = "mark" /\ ~overlap[task[t].channel]) =>
         MayUpdate(channel[task[t].channel], task[t].stored.rev)

\* No syncChannel starts for a channel that is gone.
GoneIsAlone(c) == (graph[c] = "gone" /\ ~overlap[c]) => Alone(c)

\* A mark is followed by its announcement, unless a call failed.
MarkIsAnnounced(c) ==
  (Stored(c) /\ channel[c].closed) =>
    \/ \E t \in Tasks : Marks(t, c) /\ task[t].pc = "announceClosed"
    \/ closed[c] > 0
    \/ faults > 0

\* What is gone is marked or has a handler that will.
GoneIsMarked(c) ==
  (graph[c] = "gone" /\ ~missed[c] /\ ~overlap[c] /\ Stored(c)) =>
    \/ channel[c].closed
    \/ \E t \in Tasks : Marks(t, c) /\ task[t].pc \in {"getStoredToMark", "mark"}

CloseInv ==
  /\ \A t \in Tasks : MarkerIsSound(t)
  /\ \A c \in Channels : GoneIsAlone(c) /\ MarkIsAnnounced(c) /\ GoneIsMarked(c)

-----------------------------------------------------------------------------
(* RowInv is kept by every step *)

LEMMA CountType ==
  ASSUME NEW f \in [Channels -> Nat], NEW c
  PROVE  [f EXCEPT ![c] = @ + 1] \in [Channels -> Nat]
<1>1. ASSUME NEW x \in Channels
      PROVE  [f EXCEPT ![c] = @ + 1][x] \in Nat
  <2>1. f[x] + 1 \in Nat
    OBVIOUS
  <2>. QED
    BY <2>1
<1>. QED
  BY <1>1

LEMMA RetryType ==
  ASSUME TypeOK, NEW t \in Tasks, IsSync(t), RetryOrGiveUp(t),
         task[t].write = "pending" => task[t].stored # NoRecord
  PROVE  /\ task' \in [Tasks -> Sync \cup Close \cup {Idle}]
         /\ stray' \subseteq [channel : Channels, rev : Nat]
         /\ missed' \in [Channels -> BOOLEAN]
<1>1. task[t] \in Sync
  BY DEF IsSync
<1>2. task[t].channel \in Channels
  BY <1>1 DEF Sync
<1>3. stray' \subseteq [channel : Channels, rev : Nat]
  <2>1. task[t].write = "pending" => task[t].stored.rev \in Nat
    BY <1>1 DEF Sync, Record
  <2>. QED
    BY <1>2, <2>1 DEF RetryOrGiveUp, TypeOK
<1>4. CASE task[t].tries < MaxTries
  <2>1. task[t].tries + 1 \in 1..MaxTries
    BY <1>1, <1>4 DEF Sync
  <2>2. Attempt(task[t].channel, task[t].tries + 1) \in Sync
    BY <1>2, <2>1, AttemptType
  <2>. QED
    BY <1>3, <1>4, <2>2 DEF RetryOrGiveUp, TypeOK
<1>5. CASE ~(task[t].tries < MaxTries)
  BY <1>2, <1>3, <1>5 DEF RetryOrGiveUp, Finish, TypeOK
<1>. QED
  BY <1>4, <1>5

\* The channel of a run is a channel, whichever its method
LEMMA ChannelOfTask ==
  ASSUME TypeOK, NEW t \in Tasks, task[t] # Idle
  PROVE  task[t].channel \in Channels
BY DEF TypeOK, Sync, Close

\* Types are kept: one step per action.
LEMMA TypeKeeps == RowInv /\ [Next]_vars => TypeOK'
<1>. SUFFICES ASSUME RowInv, [Next]_vars
              PROVE  TypeOK'
  OBVIOUS
<1>. USE DEF RowInv
<1>1. ASSUME NEW c \in Channels, NEW handler \in Sync \cup Close, Spend(c), Deliver(c, handler)
      PROVE  /\ spent' \in [Channels -> 0..MaxEvents]
             /\ task' \in [Tasks -> Sync \cup Close \cup {Idle}]
             /\ missed' \in [Channels -> BOOLEAN]
  <2>1. spent' \in [Channels -> 0..MaxEvents]
    BY <1>1 DEF Spend, TypeOK
  <2>2. task' \in [Tasks -> Sync \cup Close \cup {Idle}]
    BY <1>1 DEF Deliver, TypeOK
  <2>3. missed' \in [Channels -> BOOLEAN]
    BY <1>1 DEF Deliver, TypeOK
  <2>. QED
    BY <2>1, <2>2, <2>3
<1>2. ASSUME NEW c \in Channels, ChannelUpdated(c)
      PROVE  TypeOK'
  <2>1. Attempt(c, 1) \in Sync
    BY FirstTry, AttemptType
  <2>2. graph' \in [Channels -> GraphState]
    BY <1>2 DEF ChannelUpdated, TypeOK, GraphState, InGraph
  <2>. QED
    BY <1>1, <1>2, <2>1, <2>2 DEF ChannelUpdated, TypeOK, tables, emitted
<1>3. ASSUME NEW c \in Channels, ChannelClosed(c)
      PROVE  TypeOK'
  <2>1. Marking(c) \in Close
    BY MarkingType
  <2>2. graph' \in [Channels -> GraphState]
    BY <1>3 DEF ChannelClosed, TypeOK, GraphState
  <2>3. overlap' \in [Channels -> BOOLEAN]
    BY <1>3 DEF ChannelClosed, TypeOK
  <2>. QED
    BY <1>1, <1>3, <2>1, <2>2, <2>3 DEF ChannelClosed, TypeOK, tables, emitted
<1>4. ASSUME NEW t \in Tasks, GetStored(t)
      PROVE  TypeOK'
  <2>1. task[t] \in Sync
    BY <1>4, PcTells DEF GetStored, IsSync
  <2>2. channel[task[t].channel] \in Record \cup {NoRecord}
    BY <2>1 DEF Sync, TypeOK
  <2>3. [task[t] EXCEPT !.pc = "getFresh", !.stored = channel[task[t].channel]] \in Sync
    BY <2>1, <2>2 DEF Sync
  <2>. QED
    BY <1>4, <2>3 DEF GetStored, TypeOK, tables, emitted, ghosts
<1>5. ASSUME NEW t \in Tasks, GetFresh(t)
      PROVE  TypeOK'
  <2>1. task[t] \in Sync
    BY <1>5, PcTells DEF GetFresh, IsSync
  <2>2. graph[task[t].channel] \in GraphState
    BY <2>1 DEF Sync, TypeOK
  <2>3. ASSUME NEW w \in {"pending", "none"}
        PROVE  [task[t] EXCEPT !.pc = "syncNodes", !.fresh = graph[task[t].channel],
                               !.write = w] \in Sync
    BY <2>1, <2>2 DEF Sync
  <2>4. task' \in [Tasks -> Sync \cup Close \cup {Idle}]
    BY <1>5, <2>3 DEF GetFresh, Finish, TypeOK
  <2>. QED
    BY <1>5, <2>4 DEF GetFresh, TypeOK, tables, emitted, ghosts
<1>6. ASSUME NEW t \in Tasks, SyncNode(t)
      PROVE  TypeOK'
  <2>1. task[t] \in Sync
    BY <1>6, PcTells DEF SyncNode, IsSync
  <2>2. PICK n \in Ends[task[t].channel] \ task[t].synced :
          /\ task' = [task EXCEPT ![t].synced = @ \cup {n}]
          /\ \/ /\ nodes' = nodes \cup {n}
                /\ unseen' = [d \in Channels |-> unseen[d] \ {n}]
             \/ /\ unseen' = [unseen EXCEPT ![task[t].channel] = @ \cup ({n} \ nodes)]
                /\ UNCHANGED nodes
    BY <1>6 DEF SyncNode
  <2>3. n \in Nodes
    BY <2>1 DEF Sync
  <2>4. [task[t] EXCEPT !.synced = task[t].synced \cup {n}] \in Sync
    BY <2>1, <2>3 DEF Sync
  <2>5. nodes' \subseteq Nodes /\ unseen' \in [Channels -> SUBSET Nodes]
    BY <2>2, <2>3 DEF TypeOK
  <2>6. task' \in [Tasks -> Sync \cup Close \cup {Idle}]
    BY <2>2, <2>4 DEF TypeOK
  <2>. QED
    BY <1>6, <2>5, <2>6 DEF SyncNode, TypeOK, emitted, ghosts
<1>7. ASSUME NEW t \in Tasks, ExecuteCreate(t)
      PROVE  TypeOK'
  <2>1. task[t] \in Sync
    BY <1>7, PcTells DEF ExecuteCreate, NodesSynced, IsSync
  <2>2. [task[t] EXCEPT !.pc = "announce"] \in Sync
    BY <2>1 DEF Sync
  <2>3. channel' \in [Channels -> Record \cup {NoRecord}]
    BY <1>7, ChannelRecordType DEF ExecuteCreate, TypeOK
  <2>. QED
    BY <1>7, <2>2, <2>3 DEF ExecuteCreate, TypeOK, emitted, ghosts
<1>8. ASSUME NEW t \in Tasks, ExecuteUpdate(t)
      PROVE  TypeOK'
  <2>1. task[t] \in Sync
    BY <1>8, PcTells DEF ExecuteUpdate, IsSync
  <2>2. [task[t] EXCEPT !.write = "done"] \in Sync
    BY <2>1 DEF Sync
  <2>3. channel[task[t].channel] \in Record
    BY <1>8, <2>1 DEF ExecuteUpdate, MayUpdate, Sync, TypeOK
  <2>4. channel' \in [Channels -> Record \cup {NoRecord}]
    BY <1>8, <2>3, FilledType DEF ExecuteUpdate, TypeOK
  <2>. QED
    BY <1>8, <2>2, <2>4 DEF ExecuteUpdate, TypeOK, emitted, ghosts
<1>9. ASSUME NEW t \in Tasks, Known(t)
      PROVE  TypeOK'
  BY <1>9 DEF Known, Finish, TypeOK, tables, emitted, ghosts
<1>10. ASSUME NEW t \in Tasks, AnnounceAdded(t)
       PROVE  TypeOK'
  <2>1. added' \in [Channels -> Nat]
    BY <1>10, CountType DEF AnnounceAdded, TypeOK
  <2>. QED
    BY <1>10, <2>1 DEF AnnounceAdded, Finish, TypeOK, tables, ghosts
<1>11. ASSUME NEW t \in Tasks, Conflict(t)
       PROVE  TypeOK'
  <2>1. IsSync(t)
    BY <1>11, PcTells DEF Conflict, NodesSynced
  <2>2. task[t].write = "pending" => task[t].stored # NoRecord
    BY <2>1 DEF RunIsSound
  <2>. QED
    BY <1>11, <2>1, <2>2, RetryType DEF Conflict, TypeOK, tables, emitted, ghosts
<1>12. ASSUME NEW t \in Tasks, SyncFails(t)
       PROVE  TypeOK'
  <2>1. task[t].write = "pending" => task[t].stored # NoRecord
    BY <1>12 DEF RunIsSound, SyncFails
  <2>2. faults' \in 0..MaxFaults
    BY <1>12 DEF SyncFails, TypeOK
  <2>. QED
    BY <1>12, <2>1, <2>2, RetryType DEF SyncFails, TypeOK, tables, emitted, ghosts
<1>13. ASSUME StrayLands
       PROVE  TypeOK'
  <2>1. PICK s \in stray :
          /\ stray' = stray \ {s}
          /\ channel' = IF MayUpdate(channel[s.channel], s.rev)
                        THEN [channel EXCEPT ![s.channel] = Filled(@)]
                        ELSE channel
    BY <1>13 DEF StrayLands
  <2>2. s.channel \in Channels
    BY DEF TypeOK
  <2>3. CASE MayUpdate(channel[s.channel], s.rev)
    <3>1. channel[s.channel] \in Record
      BY <2>2, <2>3 DEF MayUpdate, TypeOK
    <3>2. channel' \in [Channels -> Record \cup {NoRecord}]
      BY <2>1, <2>3, <3>1, FilledType DEF TypeOK
    <3>. QED
      BY <1>13, <2>1, <3>2 DEF StrayLands, TypeOK, emitted, ghosts
  <2>4. CASE ~MayUpdate(channel[s.channel], s.rev)
    BY <1>13, <2>1, <2>4 DEF StrayLands, TypeOK, emitted, ghosts
  <2>. QED
    BY <2>3, <2>4
<1>14. ASSUME NEW t \in Tasks, GetStoredToMark(t)
       PROVE  TypeOK'
  <2>1. task[t] \in Close
    BY <1>14, PcTells DEF GetStoredToMark
  <2>2. channel[task[t].channel] \in Record \cup {NoRecord}
    BY <2>1 DEF Close, TypeOK
  <2>3. [task[t] EXCEPT !.pc = "mark", !.stored = channel[task[t].channel]] \in Close
    BY <2>1, <2>2 DEF Close
  <2>4. task' \in [Tasks -> Sync \cup Close \cup {Idle}]
    BY <1>14, <2>3 DEF GetStoredToMark, Finish, TypeOK
  <2>. QED
    BY <1>14, <2>4 DEF GetStoredToMark, TypeOK, tables, emitted, ghosts
<1>15. ASSUME NEW t \in Tasks, Mark(t)
       PROVE  TypeOK'
  <2>1. task[t] \in Close
    BY <1>15, PcTells DEF Mark
  <2>2. [task[t] EXCEPT !.pc = "announceClosed"] \in Close
    BY <2>1 DEF Close
  <2>3. channel[task[t].channel] \in Record
    BY <1>15, <2>1 DEF Mark, MayUpdate, Close, TypeOK
  <2>4. [channel[task[t].channel] EXCEPT !.closed = TRUE] \in Record
    BY <2>3 DEF Record
  <2>5. channel' \in [Channels -> Record \cup {NoRecord}]
    BY <1>15, <2>4 DEF Mark, TypeOK
  <2>. QED
    BY <1>15, <2>2, <2>5 DEF Mark, TypeOK, emitted, ghosts
<1>16. ASSUME NEW t \in Tasks, MarkConflict(t)
       PROVE  TypeOK'
  BY <1>16 DEF MarkConflict, Finish, TypeOK, tables, emitted, ghosts
<1>17. ASSUME NEW t \in Tasks, AnnounceClosed(t)
       PROVE  TypeOK'
  <2>1. closed' \in [Channels -> Nat]
    BY <1>17, CountType DEF AnnounceClosed, TypeOK
  <2>. QED
    BY <1>17, <2>1 DEF AnnounceClosed, Finish, TypeOK, tables, ghosts
<1>18. ASSUME NEW t \in Tasks, MarkFails(t)
       PROVE  TypeOK'
  <2>1. faults' \in 0..MaxFaults
    BY <1>18 DEF MarkFails, TypeOK
  <2>2. missed' \in [Channels -> BOOLEAN]
    BY <1>18 DEF MarkFails, TypeOK
  <2>. QED
    BY <1>18, <2>1, <2>2 DEF MarkFails, Finish, TypeOK, tables, emitted, ghosts
<1>19. CASE UNCHANGED vars
  BY <1>19 DEF vars, TypeOK, tables, emitted, ghosts
<1>. QED
  BY <1>2, <1>3, <1>4, <1>5, <1>6, <1>7, <1>8, <1>9, <1>10, <1>11, <1>12, <1>13,
     <1>14, <1>15, <1>16, <1>17, <1>18, <1>19 DEF Next, Step, Quiescent

\* Only four steps write the table.
LEMMA Writers ==
  ASSUME [Next]_vars
  PROVE  \/ \E t \in Tasks : ExecuteCreate(t) \/ ExecuteUpdate(t) \/ Mark(t)
         \/ StrayLands
         \/ UNCHANGED channel
<1>1. ASSUME NEW c \in Channels, ChannelUpdated(c) \/ ChannelClosed(c)
      PROVE  UNCHANGED channel
  BY <1>1 DEF ChannelUpdated, ChannelClosed, tables
<1>2. ASSUME NEW t \in Tasks, GetStored(t) \/ GetFresh(t) \/ SyncNode(t) \/ Known(t)
      PROVE  UNCHANGED channel
  BY <1>2 DEF GetStored, GetFresh, SyncNode, Known, tables
<1>3. ASSUME NEW t \in Tasks, AnnounceAdded(t) \/ Conflict(t) \/ SyncFails(t) \/ MarkFails(t)
      PROVE  UNCHANGED channel
  BY <1>3 DEF AnnounceAdded, Conflict, SyncFails, MarkFails, tables
<1>4. ASSUME NEW t \in Tasks, GetStoredToMark(t) \/ MarkConflict(t) \/ AnnounceClosed(t)
      PROVE  UNCHANGED channel
  BY <1>4 DEF GetStoredToMark, MarkConflict, AnnounceClosed, tables
<1>5. CASE UNCHANGED vars
  BY <1>5 DEF vars, tables
<1>. QED
  BY <1>1, <1>2, <1>3, <1>4, <1>5 DEF Next, Step, Quiescent

\* A row that is there stays, does not get older, keeps its capacity and its
\* close height, and gets a capacity only with a new revision.
RowKept(c) ==
  Stored(c) =>
    /\ channel'[c] # NoRecord
    /\ channel[c].rev <= channel'[c].rev
    /\ (channel'[c].rev = channel[c].rev /\ ~channel[c].capacity) => ~channel'[c].capacity
    /\ channel[c].capacity => channel'[c].capacity
    /\ channel[c].closed => channel'[c].closed

\* Every write keeps the rows.
LEMMA RowsAreKept ==
  ASSUME RowInv, [Next]_vars, NEW c \in Channels
  PROVE  RowKept(c)
<1>. SUFFICES ASSUME Stored(c)
              PROVE  RowKept(c)
  BY DEF RowKept
<1>1. channel[c] \in Record /\ channel[c].rev \in Nat
  BY DEF RowInv, TypeOK, Stored, Record
<1>2. CASE channel'[c] = channel[c]
  BY <1>1, <1>2 DEF RowKept, Stored
<1>3. CASE channel'[c] = Filled(channel[c])
  BY <1>1, <1>3, FilledType DEF RowKept
<1>4. CASE channel'[c] = [channel[c] EXCEPT !.closed = TRUE]
  <2>1. /\ channel'[c] \in Record
        /\ channel'[c].rev = channel[c].rev
    BY <1>1, <1>4 DEF Record
  <2>2. channel'[c].capacity = channel[c].capacity
    BY <1>1, <1>4 DEF Record
  <2>3. channel'[c].closed
    BY <1>1, <1>4 DEF Record
  <2>. QED
    BY <1>1, <2>1, <2>2, <2>3 DEF RowKept
<1>5. \/ channel'[c] = channel[c]
      \/ channel'[c] = Filled(channel[c])
      \/ channel'[c] = [channel[c] EXCEPT !.closed = TRUE]
  <2>1. ASSUME NEW t \in Tasks, ExecuteCreate(t)
        PROVE  channel'[c] = channel[c]
    <3>1. task[t].channel # c
      BY <2>1 DEF ExecuteCreate, MayPut, Stored
    <3>. QED
      BY <2>1, <3>1 DEF ExecuteCreate, RowInv, TypeOK
  <2>2. ASSUME NEW t \in Tasks, ExecuteUpdate(t)
        PROVE  channel'[c] = channel[c] \/ channel'[c] = Filled(channel[c])
    BY <2>2 DEF ExecuteUpdate, RowInv, TypeOK
  <2>3. ASSUME NEW t \in Tasks, Mark(t)
        PROVE  \/ channel'[c] = channel[c]
               \/ channel'[c] = [channel[c] EXCEPT !.closed = TRUE]
    BY <2>3 DEF Mark, RowInv, TypeOK
  <2>4. ASSUME StrayLands
        PROVE  channel'[c] = channel[c] \/ channel'[c] = Filled(channel[c])
    BY <2>4 DEF StrayLands, RowInv, TypeOK
  <2>. QED
    BY <2>1, <2>2, <2>3, <2>4, Writers
<1>. QED
  BY <1>2, <1>3, <1>4, <1>5

\* A node of a channel that is stored, or was unknown to LND, stays so.
LEMMA NodesGrow ==
  ASSUME TypeOK, [Next]_vars, NEW c \in Channels
  PROVE  nodes \cup unseen[c] \subseteq nodes' \cup unseen'[c]
<1>1. ASSUME NEW t \in Tasks, SyncNode(t)
      PROVE  nodes \cup unseen[c] \subseteq nodes' \cup unseen'[c]
  BY <1>1 DEF SyncNode, TypeOK
<1>2. ASSUME NEW t \in Tasks, ExecuteCreate(t) \/ ExecuteUpdate(t) \/ Mark(t)
      PROVE  nodes \cup unseen[c] \subseteq nodes' \cup unseen'[c]
  BY <1>2 DEF ExecuteCreate, ExecuteUpdate, Mark
<1>3. ASSUME NEW d \in Channels, ChannelUpdated(d) \/ ChannelClosed(d)
      PROVE  nodes \cup unseen[c] \subseteq nodes' \cup unseen'[c]
  BY <1>3 DEF ChannelUpdated, ChannelClosed, tables
<1>4. ASSUME NEW t \in Tasks, GetStored(t) \/ GetFresh(t) \/ Known(t)
      PROVE  nodes \cup unseen[c] \subseteq nodes' \cup unseen'[c]
  BY <1>4 DEF GetStored, GetFresh, Known, tables
<1>5. ASSUME NEW t \in Tasks, AnnounceAdded(t) \/ Conflict(t) \/ SyncFails(t) \/ MarkFails(t)
      PROVE  nodes \cup unseen[c] \subseteq nodes' \cup unseen'[c]
  BY <1>5 DEF AnnounceAdded, Conflict, SyncFails, MarkFails, tables
<1>6. ASSUME NEW t \in Tasks, GetStoredToMark(t) \/ MarkConflict(t) \/ AnnounceClosed(t)
      PROVE  nodes \cup unseen[c] \subseteq nodes' \cup unseen'[c]
  BY <1>6 DEF GetStoredToMark, MarkConflict, AnnounceClosed, tables
<1>7. CASE StrayLands
  BY <1>7 DEF StrayLands
<1>8. CASE UNCHANGED vars
  BY <1>8 DEF vars, tables
<1>. QED
  BY <1>1, <1>2, <1>3, <1>4, <1>5, <1>6, <1>7, <1>8 DEF Next, Step, Quiescent

\* What was no newer than a row that is kept is no newer than it is now.
LEMMA NotNewerKept ==
  ASSUME NEW c \in Channels, NEW r \in Record, channel[c] \in Record, channel'[c] \in Record,
         NotNewer(r, channel[c]), RowKept(c), Stored(c)
  PROVE  NotNewer(r, channel'[c])
BY DEF NotNewer, RowKept, Record

\* A handler that does not move stays sound while others do.
LEMMA UnmovedIsSound ==
  ASSUME RowInv, [Next]_vars, NEW t \in Tasks, task'[t] = task[t]
  PROVE  RunIsSound(t)'
<1>. SUFFICES ASSUME IsSync(t)
              PROVE  /\ task[t].pc = "getStored" => task[t].write = "none"
                     /\ task[t].write = "pending" => /\ task[t].stored # NoRecord
                                                     /\ ~task[t].stored.capacity
                     /\ task[t].stored # NoRecord =>
                          NotNewer(task[t].stored, channel'[task[t].channel])
                     /\ task[t].synced \subseteq nodes' \cup unseen'[task[t].channel]
  BY DEF RunIsSound, IsSync
<1>1. task[t].synced \subseteq nodes' \cup unseen'[task[t].channel]
  <2>1. task[t].channel \in Channels
    BY DEF IsSync, Sync
  <2>. QED
    BY <2>1, NodesGrow DEF RowInv, RunIsSound
<1>2. /\ task[t].write = "pending" => task[t].stored # NoRecord /\ ~task[t].stored.capacity
      /\ task[t].pc = "getStored" => task[t].write = "none"
  BY DEF RowInv, RunIsSound
<1>3. ASSUME task[t].stored # NoRecord
      PROVE  NotNewer(task[t].stored, channel'[task[t].channel])
  <2>1. task[t].channel \in Channels /\ task[t].stored \in Record
    BY <1>3 DEF IsSync, Sync
  <2>2. NotNewer(task[t].stored, channel[task[t].channel])
    BY <1>3 DEF RowInv, RunIsSound
  <2>3. Stored(task[t].channel)
    BY <2>2 DEF NotNewer, Stored
  <2>4. RowKept(task[t].channel)
    BY <2>1, RowsAreKept
  <2>5. channel[task[t].channel] \in Record /\ channel'[task[t].channel] \in Record
    BY <2>1, <2>3, <2>4, TypeKeeps DEF RowInv, TypeOK, Stored, RowKept
  <2>. QED
    BY <2>1, <2>2, <2>3, <2>4, <2>5, NotNewerKept
<1>. QED
  BY <1>1, <1>2, <1>3

\* A new attempt has read nothing yet, and other methods are not runs.
LEMMA FreshIsSound ==
  ASSUME NEW t \in Tasks,
         \/ \E c \in Channels, k \in 1..MaxTries : task'[t] = Attempt(c, k)
         \/ task'[t] \in Close \cup {Idle}
  PROVE  RunIsSound(t)'
<1>1. ASSUME NEW c \in Channels, NEW k \in 1..MaxTries, task'[t] = Attempt(c, k)
      PROVE  RunIsSound(t)'
  BY <1>1 DEF RunIsSound, Attempt
<1>2. ASSUME task'[t] \in Close \cup {Idle}
      PROVE  RunIsSound(t)'
  <2>1. task'[t] \notin Sync
    BY <1>2 DEF Sync, Close, Idle
  <2>. QED
    BY <2>1 DEF RunIsSound, IsSync
<1>. QED
  BY <1>1, <1>2

\* An attempt that is retried is a new one, or ends.
LEMMA RetriedIsFresh ==
  ASSUME TypeOK, NEW t \in Tasks, IsSync(t), RetryOrGiveUp(t)
  PROVE  /\ \/ \E c \in Channels, k \in 1..MaxTries : task'[t] = Attempt(c, k)
            \/ task'[t] = Idle
         /\ \A u \in Tasks \ {t} : task'[u] = task[u]
<1>1. task[t] \in Sync /\ task[t].channel \in Channels
  BY DEF IsSync, Sync
<1>2. CASE task[t].tries < MaxTries
  <2>1. task[t].tries + 1 \in 1..MaxTries
    BY <1>1, <1>2 DEF Sync
  <2>2. task' = [task EXCEPT ![t] = Attempt(task[t].channel, task[t].tries + 1)]
    BY <1>2 DEF RetryOrGiveUp
  <2>. QED
    BY <1>1, <2>1, <2>2 DEF TypeOK
<1>3. CASE ~(task[t].tries < MaxTries)
  BY <1>3 DEF RetryOrGiveUp, Finish, TypeOK
<1>. QED
  BY <1>2, <1>3

LEMMA RetriedPc ==
  ASSUME TypeOK, NEW t \in Tasks, IsSync(t), RetryOrGiveUp(t)
  PROVE  task'[t].pc \in {"getStored", "idle"}
<1>1. ASSUME NEW c \in Channels, NEW k \in 1..MaxTries, task'[t] = Attempt(c, k)
      PROVE  task'[t].pc = "getStored"
  BY <1>1 DEF Attempt
<1>2. ASSUME task'[t] = Idle
      PROVE  task'[t].pc = "idle"
  BY <1>2 DEF Idle
<1>. QED
  BY <1>1, <1>2, RetriedIsFresh

\* Every step leaves every handler sound: one step per action.
LEMMA RunsStaySound == RowInv /\ [Next]_vars => \A u \in Tasks : RunIsSound(u)'
<1>. SUFFICES ASSUME RowInv, [Next]_vars, NEW u \in Tasks, task'[u] # task[u]
              PROVE  RunIsSound(u)'
  BY UnmovedIsSound
<1>. USE DEF RowInv
<1>1. ASSUME NEW c \in Channels, ChannelUpdated(c)
      PROVE  RunIsSound(u)'
  <2>1. task'[u] = Attempt(c, 1)
    BY <1>1 DEF ChannelUpdated, Deliver, TypeOK
  <2>. QED
    BY <2>1, FirstTry, FreshIsSound
<1>2. ASSUME NEW c \in Channels, ChannelClosed(c)
      PROVE  RunIsSound(u)'
  <2>1. task'[u] = Marking(c)
    BY <1>2 DEF ChannelClosed, Deliver, TypeOK
  <2>. QED
    BY <2>1, MarkingType, FreshIsSound
<1>3. ASSUME NEW t \in Tasks, GetStored(t)
      PROVE  RunIsSound(u)'
  <2>1. u = t
    BY <1>3 DEF GetStored, TypeOK
  <2>2. IsSync(u) /\ task[u].channel \in Channels
    BY <1>3, <2>1, PcTells DEF GetStored, IsSync, Sync
  <2>3. /\ task'[u].write = task[u].write
        /\ task'[u].synced = task[u].synced
        /\ task'[u].channel = task[u].channel
        /\ task'[u].stored = channel[task[u].channel]
    BY <1>3, <2>1, <2>2 DEF GetStored, TypeOK, IsSync, Sync
  <2>4. task[u].synced \subseteq nodes \cup unseen[task[u].channel]
    BY <2>2 DEF RunIsSound
  <2>5. task'[u].write # "pending" /\ task'[u].pc # "getStored"
    BY <1>3, <2>1, <2>2, <2>3 DEF RunIsSound, GetStored, TypeOK
  <2>6. ASSUME task'[u].stored # NoRecord
        PROVE  NotNewer(task'[u].stored, channel'[task'[u].channel])
    <3>1. channel[task[u].channel] \in Record
      BY <2>2, <2>3, <2>6 DEF TypeOK
    <3>2. channel' = channel
      BY <1>3 DEF GetStored, tables
    <3>. QED
      BY <2>3, <2>6, <3>1, <3>2 DEF NotNewer, Record
  <2>7. nodes' = nodes /\ unseen' = unseen
    BY <1>3 DEF GetStored, tables
  <2>. QED
    BY <2>3, <2>4, <2>5, <2>6, <2>7 DEF RunIsSound
<1>4. ASSUME NEW t \in Tasks, GetFresh(t)
      PROVE  RunIsSound(u)'
  <2>1. u = t
    BY <1>4 DEF GetFresh, Finish, TypeOK
  <2>2. task[u] \in Sync /\ IsSync(u)
    BY <1>4, <2>1, PcTells DEF GetFresh, IsSync
  <2>3. CASE task'[u] = Idle
    BY <2>3, FreshIsSound
  <2>4. CASE task'[u] # Idle
    <3>1. /\ task'[u].pc = "syncNodes"
          /\ task'[u].synced = task[u].synced
          /\ task'[u].channel = task[u].channel
          /\ task'[u].stored = task[u].stored
          /\ task'[u].write = "pending" =>
               NeedsUpdate(task[u].stored, graph[task[u].channel])
      BY <1>4, <2>1, <2>2, <2>4 DEF GetFresh, Finish, TypeOK, Sync
    <3>2. UNCHANGED <<channel, nodes, unseen>>
      BY <1>4 DEF GetFresh, tables
    <3>. QED
      BY <2>2, <3>1, <3>2 DEF RunIsSound, NeedsUpdate
  <2>. QED
    BY <2>3, <2>4
<1>5. ASSUME NEW t \in Tasks, SyncNode(t)
      PROVE  RunIsSound(u)'
  <2>1. PICK n \in Ends[task[t].channel] \ task[t].synced :
          /\ task' = [task EXCEPT ![t].synced = @ \cup {n}]
          /\ \/ /\ nodes' = nodes \cup {n}
                /\ unseen' = [d \in Channels |-> unseen[d] \ {n}]
             \/ /\ unseen' = [unseen EXCEPT ![task[t].channel] = @ \cup ({n} \ nodes)]
                /\ UNCHANGED nodes
    BY <1>5 DEF SyncNode
  <2>2. u = t
    BY <2>1 DEF TypeOK
  <2>3. task[u] \in Sync /\ IsSync(u)
    BY <1>5, <2>2, PcTells DEF SyncNode, IsSync
  <2>4. /\ task'[u].pc = task[u].pc
        /\ task'[u].synced = task[u].synced \cup {n}
        /\ task'[u].channel = task[u].channel
        /\ task'[u].stored = task[u].stored
        /\ task'[u].write = task[u].write
    BY <2>1, <2>2, <2>3 DEF TypeOK, Sync
  <2>5. channel' = channel
    BY <1>5 DEF SyncNode
  <2>6. task[u].channel \in Channels /\ unseen \in [Channels -> SUBSET Nodes]
    BY <2>3 DEF Sync, TypeOK
  <2>7. task'[u].synced \subseteq nodes' \cup unseen'[task'[u].channel]
    BY <2>1, <2>2, <2>3, <2>4, <2>6 DEF RunIsSound
  <2>. QED
    BY <2>3, <2>4, <2>5, <2>7 DEF RunIsSound
<1>6. ASSUME NEW t \in Tasks, ExecuteCreate(t)
      PROVE  RunIsSound(u)'
  <2>1. u = t
    BY <1>6 DEF ExecuteCreate, TypeOK
  <2>2. task[u] \in Sync /\ IsSync(u)
    BY <1>6, <2>1, PcTells DEF ExecuteCreate, NodesSynced, IsSync
  <2>3. /\ task'[u].pc = "announce"
        /\ task'[u].synced = task[u].synced
        /\ task'[u].channel = task[u].channel
        /\ task'[u].stored = task[u].stored
        /\ task'[u].write = task[u].write
    BY <1>6, <2>1, <2>2 DEF ExecuteCreate, TypeOK, Sync
  <2>4. task[u].stored = NoRecord /\ nodes' = nodes /\ unseen' = unseen
    BY <1>6, <2>1 DEF ExecuteCreate
  <2>. QED
    BY <2>2, <2>3, <2>4 DEF RunIsSound
<1>7. ASSUME NEW t \in Tasks, ExecuteUpdate(t)
      PROVE  RunIsSound(u)'
  <2>1. u = t
    BY <1>7 DEF ExecuteUpdate, TypeOK
  <2>2. task[u] \in Sync /\ IsSync(u)
    BY <1>7, <2>1, PcTells DEF ExecuteUpdate, IsSync
  <2>3. /\ task'[u].pc = "syncNodes"
        /\ task'[u].synced = task[u].synced
        /\ task'[u].channel = task[u].channel
        /\ task'[u].stored = task[u].stored
        /\ task'[u].write = "done"
    BY <1>7, <2>1, <2>2 DEF ExecuteUpdate, TypeOK, Sync
  <2>4. /\ task[u].stored # NoRecord
        /\ NotNewer(task[u].stored, channel[task[u].channel])
    BY <1>7, <2>1, <2>2 DEF RunIsSound, ExecuteUpdate
  <2>5. NotNewer(task[u].stored, channel'[task[u].channel])
    <3>1. task[u].stored \in Record /\ task[u].channel \in Channels
      BY <2>2, <2>4 DEF Sync
    <3>2. Stored(task[u].channel) /\ RowKept(task[u].channel)
      BY <2>4, <3>1, RowsAreKept DEF NotNewer, Stored
    <3>3. /\ channel[task[u].channel] \in Record
          /\ channel'[task[u].channel] \in Record
      BY <3>1, <3>2, TypeKeeps DEF TypeOK, Stored, RowKept
    <3>. QED
      BY <2>4, <3>1, <3>2, <3>3, NotNewerKept
  <2>6. nodes' = nodes /\ unseen' = unseen
    BY <1>7 DEF ExecuteUpdate
  <2>. QED
    BY <2>2, <2>3, <2>5, <2>6 DEF RunIsSound
<1>8. ASSUME NEW t \in Tasks, Known(t) \/ AnnounceAdded(t) \/ MarkConflict(t)
                              \/ AnnounceClosed(t) \/ MarkFails(t)
      PROVE  RunIsSound(u)'
  <2>1. Finish(t)
    BY <1>8 DEF Known, AnnounceAdded, MarkConflict, AnnounceClosed, MarkFails
  <2>2. task'[u] = Idle
    BY <2>1 DEF Finish, TypeOK
  <2>. QED
    BY <2>2, FreshIsSound
<1>9. ASSUME NEW t \in Tasks, Conflict(t) \/ SyncFails(t)
      PROVE  RunIsSound(u)'
  <2>1. IsSync(t) /\ RetryOrGiveUp(t)
    BY <1>9, PcTells DEF Conflict, NodesSynced, SyncFails
  <2>. QED
    BY <2>1, RetriedIsFresh, FreshIsSound
<1>10. ASSUME NEW t \in Tasks, GetStoredToMark(t) \/ Mark(t)
       PROVE  RunIsSound(u)'
  <2>1. u = t
    BY <1>10 DEF GetStoredToMark, Mark, Finish, TypeOK
  <2>2. task[u] \in Close
    BY <1>10, <2>1, PcTells DEF GetStoredToMark, Mark
  <2>3. task'[u] = Idle \/ task'[u].pc \in {"mark", "announceClosed"}
    BY <1>10, <2>1, <2>2 DEF GetStoredToMark, Mark, Finish, TypeOK, Close
  <2>4. task'[u] \in Sync \cup Close \cup {Idle}
    BY TypeKeeps DEF TypeOK
  <2>5. task'[u] \in Close \cup {Idle}
    BY <2>3, <2>4 DEF Sync
  <2>. QED
    BY <2>5, FreshIsSound
<1>11. ASSUME StrayLands
       PROVE  RunIsSound(u)'
  BY <1>11 DEF StrayLands
<1>. QED
  BY <1>1, <1>2, <1>3, <1>4, <1>5, <1>6, <1>7, <1>8, <1>9, <1>10, <1>11
     DEF Next, Step, Quiescent, vars

\* An update that is on its way stays fit for the row it was computed from,
\* or for none.
LEMMA StrayKept ==
  ASSUME RowInv, [Next]_vars, NEW s \in stray
  PROVE  StrayIsSound(s)'
<1>1. s.channel \in Channels /\ s.rev \in Nat
  BY DEF RowInv, TypeOK
<1>2. StrayIsSound(s) /\ Stored(s.channel)
  BY DEF RowInv, StrayIsSound, Stored
<1>3. RowKept(s.channel)
  BY <1>1, RowsAreKept
<1>4. channel[s.channel] \in Record /\ channel'[s.channel] \in Record
  BY <1>1, <1>2, <1>3, TypeKeeps DEF RowInv, TypeOK, Stored, RowKept
<1>. QED
  BY <1>1, <1>2, <1>3, <1>4 DEF StrayIsSound, RowKept, Record

LEMMA StraysStaySound ==
  ASSUME RowInv, [Next]_vars, NEW s \in stray'
  PROVE  StrayIsSound(s)'
<1>1. CASE s \in stray
  BY <1>1, StrayKept
<1>2. CASE s \notin stray
  <2>1. ASSUME NEW t \in Tasks, Conflict(t) \/ SyncFails(t)
        PROVE  StrayIsSound(s)'
    <3>1. IsSync(t) /\ RetryOrGiveUp(t)
      BY <2>1, PcTells DEF RowInv, Conflict, NodesSynced, SyncFails
    <3>2. /\ task[t].write = "pending"
          /\ s.channel = task[t].channel
          /\ s.rev = task[t].stored.rev
      BY <1>2, <3>1 DEF RetryOrGiveUp
    <3>3. /\ task[t].stored # NoRecord
          /\ ~task[t].stored.capacity
          /\ NotNewer(task[t].stored, channel[s.channel])
      BY <3>1, <3>2 DEF RowInv, RunIsSound
    <3>4. channel' = channel
      BY <2>1 DEF Conflict, SyncFails, tables
    <3>. QED
      BY <3>2, <3>3, <3>4 DEF StrayIsSound, NotNewer
  <2>2. ASSUME NEW c \in Channels, ChannelUpdated(c) \/ ChannelClosed(c)
        PROVE  stray' = stray
    BY <2>2 DEF ChannelUpdated, ChannelClosed
  <2>3. ASSUME NEW t \in Tasks, GetStored(t) \/ GetFresh(t) \/ SyncNode(t) \/ Known(t)
        PROVE  stray' = stray
    BY <2>3 DEF GetStored, GetFresh, SyncNode, Known
  <2>4. ASSUME NEW t \in Tasks, ExecuteCreate(t) \/ ExecuteUpdate(t) \/ AnnounceAdded(t)
        PROVE  stray' = stray
    BY <2>4 DEF ExecuteCreate, ExecuteUpdate, AnnounceAdded
  <2>5. ASSUME NEW t \in Tasks, GetStoredToMark(t) \/ Mark(t) \/ MarkConflict(t)
                                \/ AnnounceClosed(t) \/ MarkFails(t)
        PROVE  stray' = stray
    BY <2>5 DEF GetStoredToMark, Mark, MarkConflict, AnnounceClosed, MarkFails
  <2>6. CASE StrayLands
    BY <1>2, <2>6 DEF StrayLands
  <2>7. CASE UNCHANGED vars
    BY <1>2, <2>7 DEF vars
  <2>. QED
    BY <1>2, <2>1, <2>2, <2>3, <2>4, <2>5, <2>6, <2>7 DEF Next, Step, Quiescent
<1>. QED
  BY <1>1, <1>2

\* A filled row gets revision 1: only rows without capacity are filled, and
\* those have revision 0.
LEMMA FilledIsFine ==
  ASSUME NEW c \in Channels, channel[c] \in Record, channel[c].rev <= 1,
         channel[c].rev = 1 => channel[c].capacity, ~channel[c].capacity,
         channel'[c] = Filled(channel[c])
  PROVE  channel'[c].rev <= 1 /\ channel'[c].capacity
BY FilledType DEF Record

\* A write leaves a row with at most one update, which filled its funding, and
\* with both its nodes stored or unknown to LND.
LEMMA RowsStayFine ==
  ASSUME RowInv, [Next]_vars
  PROVE  (FundingFilledOnce /\ NodesFirst)'
<1> DEFINE Fine(row) == row.rev <= 1 /\ (row.rev = 1 => row.capacity)
<1>. SUFFICES ASSUME NEW c \in Channels, channel'[c] # NoRecord
              PROVE  Fine(channel'[c]) /\ Ends[c] \subseteq nodes' \cup unseen'[c]
  BY DEF FundingFilledOnce, NodesFirst, Stored
<1>. USE DEF RowInv
<1>1. ASSUME Stored(c)
      PROVE  /\ channel[c] \in Record
             /\ channel[c].rev <= 1
             /\ channel[c].rev = 1 => channel[c].capacity
             /\ Ends[c] \subseteq nodes' \cup unseen'[c]
  BY <1>1, NodesGrow DEF FundingFilledOnce, NodesFirst, Stored, TypeOK
<1>2. CASE channel'[c] = channel[c]
  BY <1>1, <1>2 DEF Stored
<1>3. ASSUME Stored(c), ~channel[c].capacity, channel'[c] = Filled(channel[c])
      PROVE  Fine(channel'[c]) /\ Ends[c] \subseteq nodes' \cup unseen'[c]
  BY <1>1, <1>3, FilledIsFine
<1>4. ASSUME NEW t \in Tasks, ExecuteCreate(t), channel'[c] # channel[c]
      PROVE  Fine(channel'[c]) /\ Ends[c] \subseteq nodes' \cup unseen'[c]
  <2>1. c = task[t].channel /\ channel'[c] = ChannelRecord(task[t].fresh)
    BY <1>4 DEF ExecuteCreate, TypeOK
  <2>2. IsSync(t) /\ task[t].synced = Ends[c]
    BY <1>4, <2>1, PcTells DEF ExecuteCreate, NodesSynced
  <2>3. Ends[c] \subseteq nodes' \cup unseen'[c]
    BY <2>1, <2>2, NodesGrow DEF RunIsSound
  <2>4. channel'[c].rev = 0
    BY <2>1, ChannelRecordType
  <2>. QED
    BY <2>3, <2>4
<1>5. ASSUME NEW t \in Tasks, ExecuteUpdate(t), channel'[c] # channel[c]
      PROVE  Fine(channel'[c]) /\ Ends[c] \subseteq nodes' \cup unseen'[c]
  <2>1. c = task[t].channel /\ channel'[c] = Filled(channel[c])
    BY <1>5 DEF ExecuteUpdate, TypeOK
  <2>2. IsSync(t) /\ task[t].write = "pending" /\ MayUpdate(channel[c], task[t].stored.rev)
    BY <1>5, <2>1, PcTells DEF ExecuteUpdate
  <2>3. Stored(c) /\ ~channel[c].capacity
    BY <2>1, <2>2 DEF RunIsSound, NotNewer, MayUpdate, Stored
  <2>. QED
    BY <1>3, <2>1, <2>3
<1>6. ASSUME StrayLands, channel'[c] # channel[c]
      PROVE  Fine(channel'[c]) /\ Ends[c] \subseteq nodes' \cup unseen'[c]
  <2>1. PICK s \in stray : /\ s.channel = c
                           /\ MayUpdate(channel[c], s.rev)
                           /\ channel'[c] = Filled(channel[c])
    BY <1>6 DEF StrayLands, TypeOK
  <2>2. Stored(c) /\ ~channel[c].capacity
    BY <2>1 DEF StrayIsSound, MayUpdate, Stored
  <2>. QED
    BY <1>3, <2>1, <2>2
<1>7. ASSUME NEW t \in Tasks, Mark(t), channel'[c] # channel[c]
      PROVE  Fine(channel'[c]) /\ Ends[c] \subseteq nodes' \cup unseen'[c]
  <2>1. /\ Stored(c)
        /\ channel'[c] = [channel[c] EXCEPT !.closed = TRUE]
    BY <1>7 DEF Mark, MayUpdate, Stored, TypeOK
  <2>2. channel'[c].rev = channel[c].rev
    BY <1>1, <2>1 DEF Record
  <2>3. channel'[c].capacity = channel[c].capacity
    BY <1>1, <2>1 DEF Record
  <2>. QED
    BY <1>1, <2>1, <2>2, <2>3
<1>. QED
  BY <1>2, <1>4, <1>5, <1>6, <1>7, Writers

\* RowInv holds of every state.
LEMMA RowInvHolds == Spec => []RowInv
<1>1. Init => RowInv
  <2>. SUFFICES ASSUME Init PROVE RowInv
    OBVIOUS
  <2>1. TypeOK
    BY DEF Init, TypeOK, GraphState
  <2>2. \A t \in Tasks : RunIsSound(t)
    BY DEF Init, RunIsSound, IsSync, Sync, Idle
  <2>3. FundingFilledOnce /\ NodesFirst
    BY DEF Init, FundingFilledOnce, NodesFirst, Stored
  <2>. QED
    BY <2>1, <2>2, <2>3 DEF Init, RowInv
<1>2. RowInv /\ [Next]_vars => RowInv'
  <2>. SUFFICES ASSUME RowInv, [Next]_vars PROVE RowInv'
    OBVIOUS
  <2>. QED
    BY TypeKeeps, RunsStaySound, StraysStaySound, RowsStayFine DEF RowInv
<1>. QED
  BY <1>1, <1>2, PTL DEF Spec

\* The state is well typed: whatever handlers race, no row, attempt or update
\* in flight is malformed.
THEOREM ChannelTypeCorrect == Spec => []TypeOK
BY RowInvHolds, PTL DEF RowInv

\* No write of syncChannel or markChannelClosed, late or on time, takes a row,
\* its capacity or its close height away.
THEOREM NothingIsForgotten == Spec => NothingForgotten
<1>1. RowInv /\ [Next]_vars =>
        [\A c \in Channels : Stored(c) =>
           /\ channel'[c] # NoRecord
           /\ channel[c].capacity => channel'[c].capacity
           /\ channel[c].closed => channel'[c].closed]_channel
  BY RowsAreKept DEF RowKept
<1>. QED
  BY <1>1, RowInvHolds, PTL DEF Spec, NothingForgotten

-----------------------------------------------------------------------------
(* AddedInv: one creator, one announcement *)

\* A step other than the create and the announcement leaves the announcements
\* alone: those made, and those to come.
LEMMA OthersDoNotAnnounce ==
  ASSUME RowInv, [Next]_vars, \A t \in Tasks : ~ExecuteCreate(t) /\ ~AnnounceAdded(t)
  PROVE  /\ added' = added
         /\ \A u \in Tasks : Announcing(u)' => Announcing(u) /\ task'[u] = task[u]
<1>. USE DEF RowInv
<1>1. ASSUME NEW c \in Channels, ChannelUpdated(c) \/ ChannelClosed(c)
      PROVE  /\ added' = added
             /\ \A u \in Tasks : Announcing(u)' => task'[u] = task[u]
  BY <1>1 DEF ChannelUpdated, ChannelClosed, Deliver, Attempt, Marking, Announcing,
              emitted, TypeOK
<1>2. ASSUME NEW t \in Tasks, GetStored(t) \/ GetStoredToMark(t) \/ Mark(t)
      PROVE  /\ added' = added
             /\ \A u \in Tasks : Announcing(u)' => task'[u] = task[u]
  <2>1. IsSync(t) \/ task[t] \in Close
    BY <1>2, PcTells DEF GetStored, GetStoredToMark, Mark
  <2>2. task'[t].pc # "announce"
    BY <1>2, <2>1 DEF GetStored, GetStoredToMark, Mark, Finish, Idle, TypeOK, IsSync,
                      Sync, Close
  <2>. QED
    BY <1>2, <2>2 DEF GetStored, GetStoredToMark, Mark, Finish, Announcing, emitted, TypeOK
<1>3. ASSUME NEW t \in Tasks, GetFresh(t) \/ SyncNode(t) \/ ExecuteUpdate(t)
      PROVE  /\ added' = added
             /\ \A u \in Tasks : Announcing(u)' => task'[u] = task[u]
  <2>1. IsSync(t)
    BY <1>3, PcTells DEF GetFresh, SyncNode, ExecuteUpdate
  <2>2. task'[t].pc # "announce"
    BY <1>3, <2>1 DEF GetFresh, SyncNode, ExecuteUpdate, Finish, Idle, TypeOK, IsSync, Sync
  <2>. QED
    BY <1>3, <2>2 DEF GetFresh, SyncNode, ExecuteUpdate, Finish, Announcing, emitted, TypeOK
<1>4. ASSUME NEW t \in Tasks, Known(t) \/ MarkConflict(t) \/ AnnounceClosed(t) \/ MarkFails(t)
      PROVE  /\ added' = added
             /\ \A u \in Tasks : Announcing(u)' => task'[u] = task[u]
  BY <1>4 DEF Known, MarkConflict, AnnounceClosed, MarkFails, Finish, Idle, Announcing,
              emitted, TypeOK
<1>5. ASSUME NEW t \in Tasks, Conflict(t) \/ SyncFails(t)
      PROVE  /\ added' = added
             /\ \A u \in Tasks : Announcing(u)' => task'[u] = task[u]
  <2>1. IsSync(t) /\ RetryOrGiveUp(t)
    BY <1>5, PcTells DEF Conflict, NodesSynced, SyncFails
  <2>2. task'[t].pc # "announce"
    BY <2>1, RetriedPc
  <2>3. \A u \in Tasks \ {t} : task'[u] = task[u]
    BY <2>1, RetriedIsFresh
  <2>4. added' = added
    BY <1>5 DEF Conflict, SyncFails, emitted
  <2>. QED
    BY <2>2, <2>3, <2>4 DEF Announcing
<1>6. CASE StrayLands
  BY <1>6 DEF StrayLands, Announcing, emitted
<1>7. CASE UNCHANGED vars
  BY <1>7 DEF vars, Announcing, emitted
<1>8. added' = added /\ \A u \in Tasks : Announcing(u)' => task'[u] = task[u]
  BY <1>1, <1>2, <1>3, <1>4, <1>5, <1>6, <1>7 DEF Next, Step, Quiescent
<1>. QED
  BY <1>8 DEF Announcing

\* Rows that were stored are.
LEMMA StoredStays ==
  ASSUME RowInv, [Next]_vars, NEW c \in Channels, Stored(c)
  PROVE  Stored(c)'
BY RowsAreKept DEF RowKept, Stored

\* The create makes a creator of a channel that nobody has announced.
LEMMA CreateKeepsAdded ==
  ASSUME RowInv, AddedInv, [Next]_vars, NEW t \in Tasks, ExecuteCreate(t)
  PROVE  AddedInv'
<1> DEFINE c == task[t].channel
<1>1. task[t] \in Sync /\ c \in Channels
  BY PcTells DEF RowInv, ExecuteCreate, NodesSynced, IsSync, Sync
<1>2. ~Stored(c) /\ Stored(c)'
  BY <1>1, ChannelRecordType DEF ExecuteCreate, MayPut, Stored, RowInv, TypeOK
<1>3. added' = added /\ added[c] = 0
  <2>1. added[c] \in Nat /\ added[c] <= 1 /\ added[c] # 1
    BY <1>1, <1>2 DEF AddedInv, RowInv, TypeOK
  <2>. QED
    BY <2>1 DEF ExecuteCreate, emitted
<1>4. \A u \in Tasks \ {t} : task'[u] = task[u]
  BY DEF ExecuteCreate, RowInv, TypeOK
<1>5. task'[t].channel = c
  BY <1>1 DEF ExecuteCreate, RowInv, TypeOK, Sync
<1>6. ASSUME NEW u \in Tasks \ {t}, Announcing(u)'
      PROVE  /\ Announcing(u)
             /\ task'[u].channel = task[u].channel
             /\ task[u].channel # c
             /\ task[u].channel \in Channels
  <2>1. Announcing(u) /\ task[u] # Idle
    BY <1>4, <1>6 DEF Announcing, Idle
  <2>2. Stored(task[u].channel)
    BY <2>1 DEF AddedInv
  <2>3. task[u].channel \in Channels
    BY <2>1, ChannelOfTask DEF RowInv
  <2>. QED
    BY <1>2, <1>4, <2>1, <2>2, <2>3
<1>7. ASSUME NEW u \in Tasks, Announcing(u)'
      PROVE  Stored(task[u].channel)' /\ added'[task'[u].channel] = 0
  <2>1. CASE u = t
    BY <1>2, <1>3, <1>5, <2>1 DEF Stored
  <2>2. CASE u # t
    <3>1. Announcing(u) /\ task'[u].channel = task[u].channel /\ task[u].channel \in Channels
      BY <1>6, <1>7, <2>2
    <3>2. Stored(task[u].channel) /\ added[task[u].channel] = 0
      BY <3>1 DEF AddedInv
    <3>. QED
      BY <1>3, <3>1, <3>2, StoredStays DEF Stored
  <2>. QED
    BY <2>1, <2>2
<1>8. \A u, w \in Tasks :
        (Announcing(u)' /\ Announcing(w)' /\ u # w) => task'[u].channel # task'[w].channel
  BY <1>4, <1>5, <1>6 DEF AddedInv
<1>9. \A d \in Channels : added'[d] <= 1 /\ (added'[d] = 1 => Stored(d)')
  BY <1>3, StoredStays DEF AddedInv
<1>. QED
  BY <1>4, <1>5, <1>7, <1>8, <1>9 DEF AddedInv, Stored

\* The announcement: its row is stored, and nobody else is about to make one.
LEMMA AnnouncementKeepsAdded ==
  ASSUME RowInv, AddedInv, [Next]_vars, NEW t \in Tasks, AnnounceAdded(t)
  PROVE  AddedInv'
<1> DEFINE c == task[t].channel
<1>1. Announcing(t) /\ c \in Channels
  <2>1. Announcing(t) /\ task[t] # Idle
    BY DEF AnnounceAdded, Announcing, Idle
  <2>. QED
    BY <2>1, ChannelOfTask DEF RowInv
<1>2. Stored(c) /\ added[c] = 0
  BY <1>1 DEF AddedInv
<1>3. \A d \in Channels : added'[d] = IF d = c THEN 1 ELSE added[d]
  BY <1>1, <1>2 DEF AnnounceAdded, RowInv, TypeOK
<1>4. \A u \in Tasks : Announcing(u)' => /\ u # t
                                         /\ Announcing(u)
                                         /\ task'[u] = task[u]
  BY DEF AnnounceAdded, Finish, Idle, Announcing, RowInv, TypeOK
<1>5. \A u \in Tasks : Announcing(u) => task[u].channel \in Channels
  BY ChannelOfTask DEF Announcing, Idle, RowInv
<1>6. \A u \in Tasks : Announcing(u)' => /\ task[u].channel # c
                                         /\ added'[task[u].channel] = 0
                                         /\ Stored(task[u].channel)'
  BY <1>1, <1>3, <1>4, <1>5, StoredStays DEF AddedInv
<1>7. \A d \in Channels : added'[d] <= 1 /\ (added'[d] = 1 => Stored(d)')
  BY <1>2, <1>3, StoredStays DEF AddedInv
<1>. QED
  BY <1>4, <1>6, <1>7 DEF AddedInv, Stored

\* AddedInv holds of every state.
LEMMA AddedInvHolds == Spec => []AddedInv
<1>1. Init => AddedInv
  BY DEF Init, AddedInv, Announcing, Idle
<1>2. RowInv /\ AddedInv /\ [Next]_vars => AddedInv'
  <2>. SUFFICES ASSUME RowInv, AddedInv, [Next]_vars PROVE AddedInv'
    OBVIOUS
  <2>1. CASE \A t \in Tasks : ~ExecuteCreate(t) /\ ~AnnounceAdded(t)
    <3>1. added' = added
      BY <2>1, OthersDoNotAnnounce
    <3>2. ASSUME NEW u \in Tasks, Announcing(u)'
          PROVE  /\ Announcing(u)
                 /\ task'[u] = task[u]
                 /\ Stored(task[u].channel)'
                 /\ added[task[u].channel] = 0
      <4>1. Announcing(u) /\ task'[u] = task[u]
        BY <2>1, <3>2, OthersDoNotAnnounce
      <4>2. task[u].channel \in Channels
        BY <4>1, ChannelOfTask DEF Announcing, Idle, RowInv
      <4>. QED
        BY <4>1, <4>2, StoredStays DEF AddedInv
    <3>3. \A d \in Channels : added'[d] <= 1 /\ (added'[d] = 1 => Stored(d)')
      BY <3>1, StoredStays DEF AddedInv
    <3>. QED
      BY <3>1, <3>2, <3>3 DEF AddedInv, Stored
  <2>. QED
    BY <2>1, CreateKeepsAdded, AnnouncementKeepsAdded
<1>. QED
  BY <1>1, <1>2, RowInvHolds, PTL DEF Spec

\* What ChannelInv says holds of every state, however many handlers of a
\* channel race, are retried or are given up: it is announced once, its funding
\* is filled in once, and it is stored after each of its nodes, or after LND has
\* said that it does not know that node.
THEOREM ChannelInvHolds == Spec => []ChannelInv
<1>1. RowInv /\ AddedInv => ChannelInv
  BY DEF RowInv, AddedInv, ChannelInv, AddedOnce
<1>. QED
  BY <1>1, RowInvHolds, AddedInvHolds, PTL

-----------------------------------------------------------------------------
(* CloseInv: what is gone is marked *)

\* The marks that are under way survive a step that leaves their handlers.
LEMMA MarksKept ==
  ASSUME NEW c \in Channels, NEW t \in Tasks, task'[t] = task[t], Marks(t, c)
  PROVE  Marks(t, c)'
BY DEF Marks

\* Steps on behalf of syncChannel, of a channel d that is not alone: they leave
\* the handlers that mark, and other channels, as they are.
LEMMA SyncStepKeepsClose ==
  ASSUME TypeOK, CloseInv, NEW d \in Channels, ~Alone(d),
         graph' = graph, overlap' = overlap, closed' = closed, faults > 0 => faults' > 0,
         \A c \in Channels \ {d} : channel'[c] = channel[c],
         \A c \in Channels : ~missed'[c] => ~missed[c],
         Stored(d)' /\ channel'[d].closed => Stored(d) /\ channel[d].closed,
         \A s \in stray' : s \in stray \/ s.channel = d,
         \A u \in Tasks : \/ task'[u] = task[u]
                           \/ /\ task[u] \notin Close
                              /\ task'[u] \notin Close
                              /\ IsSync(u)' => task'[u].channel = d
  PROVE  CloseInv'
<1>1. graph[d] # "gone" \/ overlap[d]
  BY DEF CloseInv, GoneIsAlone
<1>2. ASSUME NEW t \in Tasks
      PROVE  MarkerIsSound(t)'
  <2>. SUFFICES ASSUME task'[t] \in Close
                PROVE  MarkerIsSound(t)'
    BY DEF MarkerIsSound
  <2>1. task'[t] = task[t] /\ task[t].channel \in Channels
    BY DEF Close
  <2>2. MarkerIsSound(t)
    BY DEF CloseInv
  <2>. QED
    BY <1>1, <2>1, <2>2 DEF MarkerIsSound
<1>3. ASSUME NEW c \in Channels
      PROVE  GoneIsAlone(c)'
  <2>. SUFFICES ASSUME graph[c] = "gone", ~overlap[c]
                PROVE  Alone(c)'
    BY DEF GoneIsAlone
  <2>1. c # d /\ Alone(c)
    BY <1>1 DEF CloseInv, GoneIsAlone
  <2>. QED
    BY <2>1 DEF Alone, IsSync
<1>4. ASSUME NEW c \in Channels
      PROVE  MarkIsAnnounced(c)'
  <2>. SUFFICES ASSUME Stored(c)', channel'[c].closed
                PROVE  MarkIsAnnounced(c)'
    BY DEF MarkIsAnnounced
  <2>1. Stored(c) /\ channel[c].closed
    BY DEF Stored
  <2>2. CASE closed[c] > 0 \/ faults > 0
    BY <2>2 DEF MarkIsAnnounced
  <2>3. ASSUME NEW t \in Tasks, Marks(t, c), task[t].pc = "announceClosed"
        PROVE  MarkIsAnnounced(c)'
    <3>1. task'[t] = task[t]
      BY <2>3 DEF Marks
    <3>. QED
      BY <2>3, <3>1 DEF MarkIsAnnounced, Marks
  <2>. QED
    BY <2>1, <2>2, <2>3 DEF CloseInv, MarkIsAnnounced
<1>5. ASSUME NEW c \in Channels
      PROVE  GoneIsMarked(c)'
  <2>. SUFFICES ASSUME graph[c] = "gone", ~missed'[c], ~overlap[c], Stored(c)'
                PROVE  GoneIsMarked(c)'
    BY DEF GoneIsMarked
  <2>1. c # d /\ channel'[c] = channel[c] /\ Stored(c)
    BY <1>1 DEF Stored
  <2>2. CASE channel[c].closed
    BY <2>1, <2>2 DEF GoneIsMarked
  <2>3. ASSUME NEW t \in Tasks, Marks(t, c), task[t].pc \in {"getStoredToMark", "mark"}
        PROVE  GoneIsMarked(c)'
    <3>1. task'[t] = task[t]
      BY <2>3 DEF Marks
    <3>. QED
      BY <2>3, <3>1 DEF GoneIsMarked, Marks
  <2>. QED
    BY <2>1, <2>2, <2>3 DEF CloseInv, GoneIsMarked
<1>. QED
  BY <1>2, <1>3, <1>4, <1>5 DEF CloseInv

\* Every step on behalf of syncChannel is one of those.
LEMMA SyncActionsKeepClose ==
  ASSUME RowInv, CloseInv, [Next]_vars, NEW t \in Tasks,
         \/ GetStored(t) \/ GetFresh(t) \/ SyncNode(t) \/ ExecuteCreate(t)
         \/ ExecuteUpdate(t) \/ Known(t) \/ AnnounceAdded(t) \/ Conflict(t) \/ SyncFails(t)
  PROVE  CloseInv'
<1>. USE DEF RowInv
<1>0. PICK d : d = task[t].channel
  OBVIOUS
<1>. USE <1>0
<1>1. IsSync(t) /\ task[t] \in Sync /\ d \in Channels
  BY PcTells DEF GetStored, GetFresh, SyncNode, ExecuteCreate, ExecuteUpdate, Known,
                 AnnounceAdded, Conflict, NodesSynced, SyncFails, IsSync, Sync
<1>2. ~Alone(d) /\ task[t] \notin Close
  BY <1>1 DEF Alone, Sync, Close
<1>3. graph' = graph /\ overlap' = overlap /\ closed' = closed
  BY DEF GetStored, GetFresh, SyncNode, ExecuteCreate, ExecuteUpdate, Known,
         AnnounceAdded, Conflict, SyncFails, emitted, ghosts
<1>4. faults > 0 => faults' > 0
  BY DEF GetStored, GetFresh, SyncNode, ExecuteCreate, ExecuteUpdate, Known,
         AnnounceAdded, Conflict, SyncFails, TypeOK
<1>5. \A c \in Channels \ {d} : channel'[c] = channel[c]
  BY DEF GetStored, GetFresh, SyncNode, ExecuteCreate, ExecuteUpdate, Known,
         AnnounceAdded, Conflict, SyncFails, tables, TypeOK
<1>6. \A c \in Channels : ~missed'[c] => ~missed[c]
  <2>1. CASE Conflict(t) \/ SyncFails(t)
    <3>1. missed' = missed \/ missed' = [missed EXCEPT ![d] = TRUE]
      BY <2>1 DEF Conflict, SyncFails, RetryOrGiveUp
    <3>. QED
      BY <1>1, <3>1 DEF TypeOK
  <2>2. CASE ~(Conflict(t) \/ SyncFails(t))
    BY <2>2 DEF GetStored, GetFresh, SyncNode, ExecuteCreate, ExecuteUpdate, Known,
                AnnounceAdded
  <2>. QED
    BY <2>1, <2>2
<1>7. Stored(d)' /\ channel'[d].closed => Stored(d) /\ channel[d].closed
  <2>1. CASE ExecuteCreate(t)
    BY <1>1, <2>1, ChannelRecordType DEF ExecuteCreate, TypeOK
  <2>2. CASE ExecuteUpdate(t)
    <3>1. channel[d] \in Record /\ Stored(d)
      BY <1>1, <2>2 DEF ExecuteUpdate, MayUpdate, Stored, TypeOK
    <3>2. channel'[d] = Filled(channel[d])
      BY <1>1, <2>2 DEF ExecuteUpdate, TypeOK
    <3>. QED
      BY <3>1, <3>2, FilledType
  <2>3. CASE ~(ExecuteCreate(t) \/ ExecuteUpdate(t))
    BY <2>3 DEF GetStored, GetFresh, SyncNode, Known, AnnounceAdded, Conflict, SyncFails,
                tables, Stored
  <2>. QED
    BY <2>1, <2>2, <2>3
<1>8. \A s \in stray' : s \in stray \/ s.channel = d
  BY DEF GetStored, GetFresh, SyncNode, ExecuteCreate, ExecuteUpdate, Known,
         AnnounceAdded, Conflict, SyncFails, RetryOrGiveUp
<1>9. \A u \in Tasks \ {t} : task'[u] = task[u]
  <2>1. CASE Conflict(t) \/ SyncFails(t)
    BY <1>1, <2>1, RetriedIsFresh DEF Conflict, SyncFails
  <2>2. CASE ~(Conflict(t) \/ SyncFails(t))
    BY <2>2 DEF GetStored, GetFresh, SyncNode, ExecuteCreate, ExecuteUpdate, Known,
                AnnounceAdded, Finish, TypeOK
  <2>. QED
    BY <2>1, <2>2
<1>10. task'[t] \notin Close /\ (IsSync(t)' => task'[t].channel = d)
  <2>1. CASE Conflict(t) \/ SyncFails(t)
    <3>1. task' = [task EXCEPT ![t] = Attempt(d, task[t].tries + 1)] \/ Finish(t)
      BY <2>1 DEF Conflict, SyncFails, RetryOrGiveUp
    <3>2. task'[t] = Attempt(d, task[t].tries + 1) \/ task'[t] = Idle
      BY <3>1 DEF Finish, TypeOK
    <3>3. CASE task'[t] = Attempt(d, task[t].tries + 1)
      <4>1. task'[t].pc = "getStored" /\ task'[t].channel = d
        BY <3>3 DEF Attempt
      <4>. QED
        BY <4>1 DEF Close
    <3>4. CASE task'[t] = Idle
      BY <3>4 DEF Idle, Close, IsSync, Sync
    <3>. QED
      BY <3>2, <3>3, <3>4
  <2>2. CASE Known(t) \/ AnnounceAdded(t)
    <3>1. task'[t] = Idle
      BY <2>2 DEF Known, AnnounceAdded, Finish, TypeOK
    <3>. QED
      BY <3>1 DEF Idle, Close, IsSync, Sync
  <2>3. CASE GetStored(t) \/ SyncNode(t) \/ ExecuteCreate(t) \/ ExecuteUpdate(t)
    <3>1. /\ task'[t].channel = d
          /\ task'[t].pc \in {"getFresh", "syncNodes", "announce"}
      BY <1>1, <2>3 DEF GetStored, SyncNode, ExecuteCreate, ExecuteUpdate, TypeOK, Sync
    <3>. QED
      BY <3>1 DEF Close
  <2>4. CASE GetFresh(t)
    <3>1. \/ task'[t] = Idle
          \/ task'[t].channel = d /\ task'[t].pc = "syncNodes"
      BY <1>1, <2>4 DEF GetFresh, Finish, TypeOK, Sync
    <3>. QED
      BY <3>1 DEF Idle, Close, IsSync, Sync
  <2>. QED
    BY <2>1, <2>2, <2>3, <2>4
<1>11. \A u \in Tasks : \/ task'[u] = task[u]
                        \/ /\ task[u] \notin Close
                           /\ task'[u] \notin Close
                           /\ IsSync(u)' => task'[u].channel = d
  BY <1>2, <1>9, <1>10 DEF IsSync
<1>. QED
  BY <1>1, <1>2, <1>3, <1>4, <1>5, <1>6, <1>7, <1>8, <1>11, SyncStepKeepsClose

\* And so is the landing of an abandoned update.
LEMMA StrayLandsKeepsClose ==
  ASSUME RowInv, CloseInv, StrayLands
  PROVE  CloseInv'
<1>. USE DEF RowInv
<1>1. PICK s \in stray :
        /\ stray' = stray \ {s}
        /\ channel' = IF MayUpdate(channel[s.channel], s.rev)
                      THEN [channel EXCEPT ![s.channel] = Filled(@)]
                      ELSE channel
  BY DEF StrayLands
<1> DEFINE d == s.channel
<1>2. d \in Channels /\ ~Alone(d)
  BY DEF TypeOK, Alone
<1>3. \A c \in Channels \ {d} : channel'[c] = channel[c]
  BY <1>1 DEF TypeOK
<1>4. Stored(d)' /\ channel'[d].closed => Stored(d) /\ channel[d].closed
  <2>1. CASE MayUpdate(channel[d], s.rev)
    <3>1. channel[d] \in Record /\ Stored(d)
      BY <1>2, <2>1 DEF MayUpdate, Stored, TypeOK
    <3>2. channel'[d] = Filled(channel[d])
      BY <1>1, <1>2, <2>1 DEF TypeOK
    <3>. QED
      BY <3>1, <3>2, FilledType
  <2>2. CASE ~MayUpdate(channel[d], s.rev)
    BY <1>1, <2>2 DEF Stored
  <2>. QED
    BY <2>1, <2>2
<1>5. /\ graph' = graph
      /\ overlap' = overlap
      /\ closed' = closed
      /\ faults' = faults
      /\ missed' = missed
      /\ task' = task
  BY DEF StrayLands, emitted, ghosts
<1>6. \A x \in stray' : x \in stray \/ x.channel = d
  BY <1>1
<1>. HIDE DEF d
<1>. QED
  BY <1>2, <1>3, <1>4, <1>5, <1>6, SyncStepKeepsClose

\* An event of an open channel concerns no handler that marks.
LEMMA ChannelUpdatedKeepsClose ==
  ASSUME TypeOK, CloseInv, NEW d \in Channels, ChannelUpdated(d)
  PROVE  CloseInv'
<1>1. graph[d] # "gone" /\ graph'[d] # "gone"
  BY DEF ChannelUpdated, InGraph, TypeOK
<1>2. \A c \in Channels \ {d} : graph'[c] = graph[c] /\ missed'[c] = missed[c]
  BY DEF ChannelUpdated, Deliver, TypeOK
<1>3. \A u \in Tasks : task'[u] = task[u] \/ (task[u] = Idle /\ task'[u] = Attempt(d, 1))
  BY DEF ChannelUpdated, Deliver, TypeOK
<1>4. /\ UNCHANGED <<channel, closed, overlap, faults, stray>>
  BY DEF ChannelUpdated, tables, emitted
<1>5. ASSUME NEW u \in Tasks, task[u] \in Close \/ task'[u] \in Close
      PROVE  task'[u] = task[u] /\ task[u] \in Close
  BY <1>3, <1>5 DEF Close, Attempt, Idle
<1>6. ASSUME NEW u \in Tasks
      PROVE  MarkerIsSound(u)'
  <2>. SUFFICES ASSUME task'[u] \in Close
                PROVE  MarkerIsSound(u)'
    BY DEF MarkerIsSound
  <2>1. task'[u] = task[u] /\ task[u] \in Close /\ task[u].channel \in Channels
    BY <1>5 DEF Close
  <2>2. MarkerIsSound(u)
    BY DEF CloseInv
  <2>3. task[u].channel # d
    BY <1>1, <2>1, <2>2 DEF MarkerIsSound
  <2>. QED
    BY <1>2, <1>4, <2>1, <2>2, <2>3 DEF MarkerIsSound
<1>7. ASSUME NEW c \in Channels
      PROVE  GoneIsAlone(c)'
  <2>. SUFFICES ASSUME graph'[c] = "gone", ~overlap'[c]
                PROVE  Alone(c)'
    BY DEF GoneIsAlone
  <2>1. c # d /\ Alone(c)
    BY <1>1, <1>2, <1>4 DEF CloseInv, GoneIsAlone
  <2>2. ASSUME NEW u \in Tasks, task'[u] \in Sync
        PROVE  task'[u].channel # c
    BY <1>3, <2>1, <2>2 DEF Alone, IsSync, Attempt
  <2>. QED
    BY <1>4, <2>1, <2>2 DEF Alone, IsSync
<1>8. ASSUME NEW c \in Channels
      PROVE  MarkIsAnnounced(c)'
  BY <1>4, <1>5 DEF CloseInv, MarkIsAnnounced, Marks, Stored
<1>9. ASSUME NEW c \in Channels
      PROVE  GoneIsMarked(c)'
  <2>. SUFFICES ASSUME graph'[c] = "gone", ~missed'[c]
                PROVE  GoneIsMarked(c)'
    BY DEF GoneIsMarked
  <2>1. graph[c] = "gone" /\ ~missed[c]
    BY <1>1, <1>2
  <2>. QED
    BY <1>4, <1>5, <2>1 DEF CloseInv, GoneIsMarked, Marks, Stored
<1>. QED
  BY <1>6, <1>7, <1>8, <1>9 DEF CloseInv

\* The close of a channel starts a handler that marks, or is missed; it is an
\* overlap unless the channel is alone.
LEMMA ChannelClosedKeepsClose ==
  ASSUME TypeOK, CloseInv, NEW d \in Channels, ChannelClosed(d)
  PROVE  CloseInv'
<1>1. graph'[d] = "gone" /\ \A c \in Channels \ {d} : graph'[c] = graph[c]
  BY DEF ChannelClosed, TypeOK
<1>2. \A c \in Channels \ {d} : missed'[c] = missed[c]
  BY DEF ChannelClosed, Deliver, TypeOK
<1>3. \A u \in Tasks : task'[u] = task[u] \/ (task[u] = Idle /\ task'[u] = Marking(d))
  BY DEF ChannelClosed, Deliver, TypeOK
<1>4. missed'[d] \/ \E u \in Tasks : task'[u] = Marking(d)
  BY DEF ChannelClosed, Deliver, TypeOK
<1>5. /\ UNCHANGED <<channel, closed, faults, stray>>
  BY DEF ChannelClosed, tables, emitted
<1>6. /\ \A c \in Channels : ~overlap'[c] => ~overlap[c]
      /\ ~overlap'[d] => Alone(d)
  BY DEF ChannelClosed, TypeOK, Alone
<1>7. ASSUME NEW u \in Tasks, task[u] \in Close
      PROVE  task'[u] = task[u]
  BY <1>3, <1>7 DEF Close, Idle
<1>8. Marking(d) \in Close /\ Marking(d).channel = d /\ Marking(d).pc = "getStoredToMark"
  BY MarkingType DEF Marking
<1>9. ASSUME NEW u \in Tasks
      PROVE  MarkerIsSound(u)'
  <2>. SUFFICES ASSUME task'[u] \in Close
                PROVE  MarkerIsSound(u)'
    BY DEF MarkerIsSound
  <2>1. CASE task'[u] = Marking(d)
    BY <1>1, <1>8, <2>1 DEF MarkerIsSound
  <2>2. CASE task'[u] = task[u]
    <3>1. task[u] \in Close /\ task[u].channel \in Channels
      BY <2>2 DEF Close
    <3>2. MarkerIsSound(u)
      BY DEF CloseInv
    <3>. QED
      BY <1>1, <1>5, <1>6, <2>2, <3>1, <3>2 DEF MarkerIsSound
  <2>. QED
    BY <1>3, <2>1, <2>2
<1>10. ASSUME NEW c \in Channels
       PROVE  GoneIsAlone(c)'
  <2>. SUFFICES ASSUME graph'[c] = "gone", ~overlap'[c]
                PROVE  Alone(c)'
    BY DEF GoneIsAlone
  <2>1. Alone(c)
    BY <1>1, <1>6 DEF CloseInv, GoneIsAlone
  <2>2. Marking(d) \notin Sync
    BY <1>8 DEF Sync
  <2>. QED
    BY <1>3, <1>5, <2>1, <2>2 DEF Alone, IsSync
<1>11. ASSUME NEW c \in Channels
       PROVE  MarkIsAnnounced(c)'
  BY <1>5, <1>7 DEF CloseInv, MarkIsAnnounced, Marks, Stored
<1>12. ASSUME NEW c \in Channels
       PROVE  GoneIsMarked(c)'
  <2>1. CASE c = d
    BY <1>4, <1>8, <2>1 DEF GoneIsMarked, Marks
  <2>2. CASE c # d
    BY <1>1, <1>2, <1>5, <1>6, <1>7, <2>2 DEF CloseInv, GoneIsMarked, Marks, Stored
  <2>. QED
    BY <2>1, <2>2
<1>. QED
  BY <1>9, <1>10, <1>11, <1>12 DEF CloseInv

\* What the steps of markChannelClosed have in common: the other handlers, the
\* other channels and syncChannel are left as they are.
LEMMA MarkStep ==
  ASSUME TypeOK, [Next]_vars, NEW t \in Tasks,
         \/ GetStoredToMark(t) \/ Mark(t) \/ MarkConflict(t) \/ AnnounceClosed(t)
         \/ MarkFails(t)
  PROVE  /\ task[t] \in Close
         /\ UNCHANGED <<graph, overlap, stray>>
         /\ \A u \in Tasks \ {t} : task'[u] = task[u]
         /\ task'[t] \in Close \cup {Idle}
         /\ task'[t] \in Close => task'[t].channel = task[t].channel
<1>1. task[t] \in Close
  BY PcTells DEF GetStoredToMark, Mark, MarkConflict, AnnounceClosed, MarkFails
<1>2. UNCHANGED <<graph, overlap, stray>>
  BY DEF GetStoredToMark, Mark, MarkConflict, AnnounceClosed, MarkFails, ghosts
<1>3. \A u \in Tasks \ {t} : task'[u] = task[u]
  BY DEF GetStoredToMark, Mark, MarkConflict, AnnounceClosed, MarkFails, Finish, TypeOK
<1>4. \/ task'[t] = Idle
      \/ task'[t] = [task[t] EXCEPT !.pc = "mark", !.stored = channel[task[t].channel]]
      \/ task'[t] = [task[t] EXCEPT !.pc = "announceClosed"]
  BY DEF GetStoredToMark, Mark, MarkConflict, AnnounceClosed, MarkFails, Finish, TypeOK
<1>5. channel[task[t].channel] \in Record \cup {NoRecord}
  BY <1>1 DEF Close, TypeOK
<1>6. /\ task'[t] \in Close \cup {Idle}
      /\ task'[t] # Idle => task'[t].channel = task[t].channel
  BY <1>1, <1>4, <1>5 DEF Close
<1>7. Idle \notin Close
  BY DEF Idle, Close
<1>. QED
  BY <1>1, <1>2, <1>3, <1>6, <1>7

\* So they leave syncChannel's part of the invariant to itself.
LEMMA MarkStepKeepsAlone ==
  ASSUME TypeOK, CloseInv, [Next]_vars, NEW t \in Tasks,
         \/ GetStoredToMark(t) \/ Mark(t) \/ MarkConflict(t) \/ AnnounceClosed(t)
         \/ MarkFails(t),
         NEW c \in Channels
  PROVE  GoneIsAlone(c)'
<1>. SUFFICES ASSUME graph'[c] = "gone", ~overlap'[c]
              PROVE  Alone(c)'
  BY DEF GoneIsAlone
<1>1. Alone(c)
  BY MarkStep DEF CloseInv, GoneIsAlone
<1>2. task'[t] \notin Sync
  BY MarkStep DEF Close, Idle, Sync
<1>3. \A u \in Tasks \ {t} : task'[u] = task[u]
  BY MarkStep
<1>4. stray' = stray
  BY MarkStep
<1>. QED
  BY <1>1, <1>2, <1>3, <1>4 DEF Alone, IsSync

\* The other handlers stay sound: a mark does not move the revision.
LEMMA MarkStepKeepsOthers ==
  ASSUME TypeOK, CloseInv, [Next]_vars, NEW t \in Tasks,
         \/ GetStoredToMark(t) \/ Mark(t) \/ MarkConflict(t) \/ AnnounceClosed(t)
         \/ MarkFails(t),
         NEW u \in Tasks \ {t}
  PROVE  MarkerIsSound(u)'
<1>. SUFFICES ASSUME task[u] \in Close
              PROVE  MarkerIsSound(u)'
  BY MarkStep DEF MarkerIsSound
<1>1. MarkerIsSound(u) /\ task'[u] = task[u] /\ task[u].channel \in Channels
  BY MarkStep DEF CloseInv, Close
<1>2. graph' = graph /\ overlap' = overlap
  BY MarkStep
<1>3. ASSUME NEW r, MayUpdate(channel[task[u].channel], r)
      PROVE  MayUpdate(channel'[task[u].channel], r)
  <2>1. CASE Mark(t)
    <3>1. channel[task[u].channel] \in Record
      BY <1>1, <1>3 DEF MayUpdate, TypeOK
    <3>2. [channel[task[u].channel] EXCEPT !.closed = TRUE] \in Record
      BY <3>1 DEF Record
    <3>3. [channel[task[u].channel] EXCEPT !.closed = TRUE].rev = channel[task[u].channel].rev
      BY <3>1 DEF Record
    <3>4. \/ channel'[task[u].channel] = channel[task[u].channel]
          \/ channel'[task[u].channel] = [channel[task[u].channel] EXCEPT !.closed = TRUE]
      BY <1>1, <2>1 DEF Mark, TypeOK
    <3>. QED
      BY <1>3, <3>2, <3>3, <3>4 DEF MayUpdate
  <2>2. CASE ~Mark(t)
    BY <1>3, <2>2 DEF GetStoredToMark, MarkConflict, AnnounceClosed, MarkFails, tables
  <2>. QED
    BY <2>1, <2>2
<1>. QED
  BY <1>1, <1>2, <1>3 DEF MarkerIsSound

\* A handler that stops at the read has found no row, or a closed one.
LEMMA GetStoredToMarkKeepsClose ==
  ASSUME TypeOK, CloseInv, [Next]_vars, NEW t \in Tasks, GetStoredToMark(t)
  PROVE  CloseInv'
<1>0. PICK d : d = task[t].channel
  OBVIOUS
<1>1. task[t] \in Close /\ d \in Channels /\ task[t].pc = "getStoredToMark"
  BY <1>0, MarkStep DEF Close, GetStoredToMark
<1>2. UNCHANGED <<channel, closed, missed, faults, graph, overlap>>
  BY DEF GetStoredToMark, tables, emitted, ghosts
<1>3. \A u \in Tasks \ {t} : task'[u] = task[u]
  BY MarkStep
<1>4. \/ task'[t] = Idle /\ (Stored(d) => channel[d].closed)
      \/ /\ Stored(d)
         /\ task'[t] = [task[t] EXCEPT !.pc = "mark", !.stored = channel[d]]
  BY <1>0 DEF GetStoredToMark, Finish, Stored, TypeOK
<1>5. MarkerIsSound(t)'
  <2>1. CASE task'[t] = Idle
    BY <2>1 DEF MarkerIsSound, Idle, Close
  <2>2. CASE Stored(d) /\ task'[t] = [task[t] EXCEPT !.pc = "mark", !.stored = channel[d]]
    <3>1. task'[t].channel = d /\ task'[t].stored = channel[d]
      BY <1>0, <1>1, <2>2 DEF Close
    <3>2. graph[d] = "gone"
      BY <1>0, <1>1 DEF CloseInv, MarkerIsSound
    <3>. QED
      BY <1>2, <2>2, <3>1, <3>2 DEF MarkerIsSound, MayUpdate, Stored
  <2>. QED
    BY <1>4, <2>1, <2>2
<1>6. ASSUME NEW c \in Channels
      PROVE  MarkIsAnnounced(c)'
  <2>1. \A u \in Tasks : Marks(u, c) /\ task[u].pc = "announceClosed" => u # t
    BY <1>1
  <2>. QED
    BY <1>2, <1>3, <2>1 DEF CloseInv, MarkIsAnnounced, Marks, Stored
<1>7. ASSUME NEW c \in Channels
      PROVE  GoneIsMarked(c)'
  <2>. SUFFICES ASSUME graph[c] = "gone", ~missed[c], ~overlap[c], Stored(c), ~channel[c].closed
                PROVE  \E u \in Tasks : /\ Marks(u, c)'
                                        /\ task'[u].pc \in {"getStoredToMark", "mark"}
    BY <1>2 DEF GoneIsMarked, Stored
  <2>1. PICK u \in Tasks : Marks(u, c) /\ task[u].pc \in {"getStoredToMark", "mark"}
    BY DEF CloseInv, GoneIsMarked
  <2>2. CASE u # t
    BY <1>3, <2>1, <2>2 DEF Marks
  <2>3. CASE u = t
    <3>1. c = d /\ task'[t] = [task[t] EXCEPT !.pc = "mark", !.stored = channel[d]]
      BY <1>0, <1>4, <2>1, <2>3 DEF Marks
    <3>2. task'[t].pc = "mark" /\ task'[t].channel = d /\ task'[t] # Idle
      BY <1>0, <1>1, <3>1 DEF Close, Idle
    <3>3. task'[t] \in Close
      BY <3>2, MarkStep
    <3>. QED
      BY <3>1, <3>2, <3>3 DEF Marks
  <2>. QED
    BY <2>2, <2>3
<1>. QED
  BY <1>3, <1>5, <1>6, <1>7, MarkStepKeepsAlone, MarkStepKeepsOthers DEF CloseInv

\* The mark goes through for a channel that is alone, and is to be announced.
LEMMA MarkKeepsClose ==
  ASSUME TypeOK, CloseInv, [Next]_vars, NEW t \in Tasks, Mark(t)
  PROVE  CloseInv'
<1>0. PICK d : d = task[t].channel
  OBVIOUS
<1>1. task[t] \in Close /\ d \in Channels /\ task[t].pc = "mark"
  BY <1>0, MarkStep DEF Close, Mark
<1>2. UNCHANGED <<closed, missed, faults, graph, overlap>>
  BY DEF Mark, emitted, ghosts
<1>3. \A u \in Tasks \ {t} : task'[u] = task[u]
  BY MarkStep
<1>4. task'[t] = [task[t] EXCEPT !.pc = "announceClosed"]
  BY DEF Mark, TypeOK
<1>5. /\ task'[t] \in Close
      /\ task'[t].channel = d
      /\ task'[t].pc = "announceClosed"
  BY <1>0, <1>1, <1>4 DEF Close
<1>6. \A c \in Channels \ {d} : channel'[c] = channel[c]
  BY <1>0 DEF Mark, TypeOK
<1>7. channel'[d].closed
  <2>1. channel'[d] = [channel[d] EXCEPT !.closed = TRUE]
    BY <1>0, <1>1 DEF Mark, TypeOK
  <2>2. channel[d] \in Record
    BY <1>0, <1>1 DEF Mark, MayUpdate, TypeOK
  <2>. QED
    BY <2>1, <2>2 DEF Record
<1>8. MarkerIsSound(t)'
  <2>1. graph[d] = "gone"
    BY <1>0, <1>1 DEF CloseInv, MarkerIsSound
  <2>. QED
    BY <1>2, <1>5, <2>1 DEF MarkerIsSound
<1>9. ASSUME NEW c \in Channels
      PROVE  MarkIsAnnounced(c)'
  <2>1. CASE c = d
    BY <1>5, <2>1 DEF MarkIsAnnounced, Marks
  <2>2. CASE c # d
    <3>1. channel'[c] = channel[c]
      BY <1>6, <2>2
    <3>2. \A u \in Tasks : Marks(u, c) => u # t
      BY <1>0, <2>2 DEF Marks
    <3>. QED
      BY <1>2, <1>3, <3>1, <3>2 DEF CloseInv, MarkIsAnnounced, Marks, Stored
  <2>. QED
    BY <2>1, <2>2
<1>10. ASSUME NEW c \in Channels
       PROVE  GoneIsMarked(c)'
  <2>1. CASE c = d
    BY <1>7, <2>1 DEF GoneIsMarked
  <2>2. CASE c # d
    <3>1. channel'[c] = channel[c]
      BY <1>6, <2>2
    <3>2. \A u \in Tasks : Marks(u, c) => u # t
      BY <1>0, <2>2 DEF Marks
    <3>. QED
      BY <1>2, <1>3, <3>1, <3>2 DEF CloseInv, GoneIsMarked, Marks, Stored
  <2>. QED
    BY <2>1, <2>2
<1>. QED
  BY <1>3, <1>8, <1>9, <1>10, MarkStepKeepsAlone, MarkStepKeepsOthers DEF CloseInv

\* Another revision is found only when the channel was not alone.
LEMMA MarkConflictKeepsClose ==
  ASSUME TypeOK, CloseInv, [Next]_vars, NEW t \in Tasks, MarkConflict(t)
  PROVE  CloseInv'
<1>1. task[t] \in Close /\ task[t].pc = "mark" /\ task'[t] = Idle
  BY MarkStep DEF MarkConflict, Finish, TypeOK
<1>2. UNCHANGED <<channel, closed, missed, faults, graph, overlap>>
  BY DEF MarkConflict, tables, emitted, ghosts
<1>3. \A u \in Tasks \ {t} : task'[u] = task[u]
  BY MarkStep
<1>4. MarkerIsSound(t)'
  BY <1>1 DEF MarkerIsSound, Idle, Close
<1>5. ASSUME NEW c \in Channels
      PROVE  MarkIsAnnounced(c)'
  <2>1. \A u \in Tasks : Marks(u, c) /\ task[u].pc = "announceClosed" => u # t
    BY <1>1
  <2>. QED
    BY <1>2, <1>3, <2>1 DEF CloseInv, MarkIsAnnounced, Marks, Stored
<1>6. ASSUME NEW c \in Channels
      PROVE  GoneIsMarked(c)'
  <2>1. CASE overlap[c]
    BY <1>2, <2>1 DEF GoneIsMarked
  <2>2. CASE ~overlap[c]
    <3>1. \A u \in Tasks : Marks(u, c) => u # t
      <4>1. task[t].channel # c
        BY <1>1, <2>2 DEF CloseInv, MarkerIsSound, MarkConflict
      <4>. QED
        BY <4>1 DEF Marks
    <3>. QED
      BY <1>2, <1>3, <3>1 DEF CloseInv, GoneIsMarked, Marks, Stored
  <2>. QED
    BY <2>1, <2>2
<1>. QED
  BY <1>3, <1>4, <1>5, <1>6, MarkStepKeepsAlone, MarkStepKeepsOthers DEF CloseInv

\* The announcement takes the place of the handler that was to make it.
LEMMA AnnounceClosedKeepsClose ==
  ASSUME TypeOK, CloseInv, [Next]_vars, NEW t \in Tasks, AnnounceClosed(t)
  PROVE  CloseInv'
<1>0. PICK d : d = task[t].channel
  OBVIOUS
<1>1. task[t] \in Close /\ d \in Channels /\ task[t].pc = "announceClosed" /\ task'[t] = Idle
  BY <1>0, MarkStep DEF AnnounceClosed, Finish, Close, TypeOK
<1>2. UNCHANGED <<channel, missed, faults, graph, overlap>>
  BY DEF AnnounceClosed, tables, ghosts
<1>3. \A u \in Tasks \ {t} : task'[u] = task[u]
  BY MarkStep
<1>4. MarkerIsSound(t)'
  BY <1>1 DEF MarkerIsSound, Idle, Close
<1>5. closed'[d] > 0 /\ \A c \in Channels \ {d} : closed'[c] = closed[c]
  <2>1. closed[d] \in Nat /\ closed'[d] = closed[d] + 1
    BY <1>0, <1>1 DEF AnnounceClosed, TypeOK
  <2>2. \A c \in Channels \ {d} : closed'[c] = closed[c]
    BY <1>0 DEF AnnounceClosed, TypeOK
  <2>. QED
    BY <2>1, <2>2
<1>6. ASSUME NEW c \in Channels
      PROVE  MarkIsAnnounced(c)'
  <2>1. CASE c = d
    BY <1>5, <2>1 DEF MarkIsAnnounced
  <2>2. CASE c # d
    <3>1. \A u \in Tasks : Marks(u, c) => u # t
      BY <1>0, <2>2 DEF Marks
    <3>2. closed'[c] = closed[c]
      BY <1>5, <2>2
    <3>. QED
      BY <1>2, <1>3, <3>1, <3>2 DEF CloseInv, MarkIsAnnounced, Marks, Stored
  <2>. QED
    BY <2>1, <2>2
<1>7. ASSUME NEW c \in Channels
      PROVE  GoneIsMarked(c)'
  <2>1. \A u \in Tasks : task[u].pc \in {"getStoredToMark", "mark"} => u # t
    BY <1>1
  <2>. QED
    BY <1>2, <1>3, <2>1 DEF CloseInv, GoneIsMarked, Marks, Stored
<1>. QED
  BY <1>3, <1>4, <1>6, <1>7, MarkStepKeepsAlone, MarkStepKeepsOthers DEF CloseInv

\* A failure is counted, and the event of the channel counts as missed.
LEMMA MarkFailsKeepsClose ==
  ASSUME TypeOK, CloseInv, [Next]_vars, NEW t \in Tasks, MarkFails(t)
  PROVE  CloseInv'
<1>0. PICK d : d = task[t].channel
  OBVIOUS
<1>1. task[t] \in Close /\ d \in Channels /\ task'[t] = Idle
  BY <1>0, MarkStep DEF MarkFails, Finish, Close, TypeOK
<1>2. UNCHANGED <<channel, graph, overlap>>
  BY DEF MarkFails, tables, ghosts
<1>3. \A u \in Tasks \ {t} : task'[u] = task[u]
  BY MarkStep
<1>4. MarkerIsSound(t)'
  BY <1>1 DEF MarkerIsSound, Idle, Close
<1>5. faults' > 0
  BY DEF MarkFails, TypeOK
<1>6. missed'[d]
  BY <1>0, <1>1 DEF MarkFails, TypeOK
<1>7. \A c \in Channels \ {d} : missed'[c] = missed[c]
  BY <1>0 DEF MarkFails, TypeOK
<1>8. ASSUME NEW c \in Channels
      PROVE  MarkIsAnnounced(c)' /\ GoneIsMarked(c)'
  <2>1. MarkIsAnnounced(c)'
    BY <1>5 DEF MarkIsAnnounced
  <2>2. CASE c = d
    BY <1>6, <2>1, <2>2 DEF GoneIsMarked
  <2>3. CASE c # d
    <3>1. \A u \in Tasks : Marks(u, c) => u # t
      BY <1>0, <2>3 DEF Marks
    <3>2. missed'[c] = missed[c]
      BY <1>7, <2>3
    <3>3. GoneIsMarked(c)'
      BY <1>2, <1>3, <3>1, <3>2 DEF CloseInv, GoneIsMarked, Marks, Stored
    <3>. QED
      BY <2>1, <3>3
  <2>. QED
    BY <2>2, <2>3
<1>. QED
  BY <1>3, <1>4, <1>8, MarkStepKeepsAlone, MarkStepKeepsOthers DEF CloseInv

\* CloseInv holds of every state.
LEMMA CloseInvHolds == Spec => []CloseInv
<1>1. Init => CloseInv
  BY DEF Init, CloseInv, MarkerIsSound, Idle, Close, GoneIsAlone, MarkIsAnnounced,
         GoneIsMarked, Stored
<1>2. RowInv /\ CloseInv /\ [Next]_vars => CloseInv'
  <2>. SUFFICES ASSUME RowInv, TypeOK, CloseInv, [Next]_vars PROVE CloseInv'
    BY DEF RowInv
  <2>1. CASE UNCHANGED vars
    BY <2>1 DEF vars, tables, emitted, ghosts, CloseInv, MarkerIsSound, GoneIsAlone, Alone,
                MarkIsAnnounced, GoneIsMarked, Marks, Stored, IsSync
  <2>. QED
    BY <2>1, ChannelUpdatedKeepsClose, ChannelClosedKeepsClose, SyncActionsKeepClose,
       StrayLandsKeepsClose, GetStoredToMarkKeepsClose, MarkKeepsClose,
       MarkConflictKeepsClose, AnnounceClosedKeepsClose, MarkFailsKeepsClose
       DEF Next, Step, Quiescent
<1>. QED
  BY <1>1, <1>2, RowInvHolds, PTL DEF Spec

\* A channel whose close came while no syncChannel of it was under way is
\* marked once its handlers are done, and announced unless a call failed,
\* however many handlers mark it and however often the close is delivered.
THEOREM ClosedWhenAloneHolds == Spec => []ClosedWhenAlone
<1>1. CloseInv => ClosedWhenAlone
  <2>. SUFFICES ASSUME CloseInv, NEW c \in Channels, graph[c] = "gone", ~missed[c],
                       ~overlap[c], ~Busy(c), Stored(c)
                PROVE  channel[c].closed /\ (faults = 0 => closed[c] > 0)
    BY DEF ClosedWhenAlone
  <2>1. \A t \in Tasks : ~Marks(t, c)
    BY DEF Busy, Marks, Close, Idle
  <2>2. channel[c].closed
    BY <2>1 DEF CloseInv, GoneIsMarked
  <2>. QED
    BY <2>1, <2>2 DEF CloseInv, MarkIsAnnounced
<1>. QED
  BY <1>1, CloseInvHolds, PTL

=============================================================================
