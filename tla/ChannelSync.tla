---------------------------- MODULE ChannelSync ----------------------------
(***************************************************************************)
(* The channels table: eventCreateChannel, which runs syncChannel under a  *)
(* retry loop when the graph reports a channel_updated, and                *)
(* eventChannelClosed, which runs markChannelClosed once when it reports a *)
(* channel_closed.  The two handlers of a channel run side by side and     *)
(* write the same record.                                                  *)
(***************************************************************************)
EXTENDS Naturals, FiniteSets, Database

CONSTANTS
  Channels,     \* channel ids
  Nodes,        \* public keys
  Ends,         \* Ends[c]: the public keys of c's two policies
  Obscure,      \* keys that LND may not know when asked
  Tasks,        \* handlers that can be in flight at once
  MaxTries,     \* attempts of asyncRetry: 1e3 in the code
  MaxFaults,    \* bound on calls to LND, the database or syncNode that fail
  MaxEvents     \* bound on the events of a channel

ASSUME ChannelSyncAssumption ==
  /\ Ends \in [Channels -> SUBSET Nodes]
  /\ MaxTries \in Nat \ {0}
  /\ MaxFaults \in Nat
  /\ MaxEvents \in Nat

VARIABLES
  graph,     \* what getChannel knows of a channel
  channel,   \* the channels table
  nodes,     \* the keys with a record in the nodes table
  unseen,    \* unseen[c]: those without one that LND did not know when asked for c
  task,      \* the handlers in flight
  stray,     \* updates of abandoned attempts that are still on their way
  added,     \* added[c]: 'channel_added' events
  closed,    \* closed[c]: 'channel_closed' events
  spent,     \* events of a channel so far
  missed,    \* the last event had no listener, or a handler gave up since
  overlap,   \* the channel closed while a syncChannel of it was in flight
  faults     \* failed calls so far

tables == <<channel, nodes, unseen>>
emitted == <<added, closed>>
ghosts == <<spent, overlap>>
vars == <<graph, tables, task, stray, emitted, ghosts, missed, faults>>

\* "bare": an announcement without its funding transaction; "gone": closed
GraphState == {"unknown", "bare", "full", "gone"}
InGraph == {"bare", "full"}

\* capacity: are the capacity and the funding outpoint known
Record == [rev : Nat, capacity : BOOLEAN, closed : BOOLEAN]

ASSUME NoChannelRecord == NoRecord \notin Record

Idle == [pc |-> "idle"]

Sync == [pc : {"getStored", "getFresh", "syncNodes", "announce"},
         channel : Channels, stored : Record \cup {NoRecord},
         fresh : GraphState, synced : SUBSET Nodes,
         write : {"none", "pending", "done"}, tries : 1..MaxTries]

Close == [pc : {"getStoredToMark", "mark", "announceClosed"},
          channel : Channels, stored : Record \cup {NoRecord}]

TypeOK ==
  /\ graph \in [Channels -> GraphState]
  /\ channel \in [Channels -> Record \cup {NoRecord}]
  /\ nodes \subseteq Nodes
  /\ unseen \in [Channels -> SUBSET Nodes]
  /\ task \in [Tasks -> Sync \cup Close \cup {Idle}]
  /\ stray \subseteq [channel : Channels, rev : Nat]
  /\ added \in [Channels -> Nat]
  /\ closed \in [Channels -> Nat]
  /\ spent \in [Channels -> 0..MaxEvents]
  /\ missed \in [Channels -> BOOLEAN]
  /\ overlap \in [Channels -> BOOLEAN]
  /\ faults \in 0..MaxFaults

Init ==
  /\ graph = [c \in Channels |-> "unknown"]
  /\ channel = [c \in Channels |-> NoRecord]
  /\ nodes = {}
  /\ unseen = [c \in Channels |-> {}]
  /\ task = [t \in Tasks |-> Idle]
  /\ stray = {}
  /\ added = [c \in Channels |-> 0]
  /\ closed = [c \in Channels |-> 0]
  /\ spent = [c \in Channels |-> 0]
  /\ missed = [c \in Channels |-> FALSE]
  /\ overlap = [c \in Channels |-> FALSE]
  /\ faults = 0

-----------------------------------------------------------------------------
(* Events of the graph subscription *)

Attempt(c, tries) ==
  [pc |-> "getStored", channel |-> c, stored |-> NoRecord, fresh |-> "unknown",
   synced |-> {}, write |-> "none", tries |-> tries]

Marking(c) == [pc |-> "getStoredToMark", channel |-> c, stored |-> NoRecord]

IsSync(t) == task[t] \in Sync

\* The handler of an event of c starts, unless no subscription is up
Deliver(c, handler) ==
  \/ /\ \E t \in Tasks : /\ task[t] = Idle
                         /\ task' = [task EXCEPT ![t] = handler]
     /\ missed' = [missed EXCEPT ![c] = FALSE]
  \/ /\ missed' = [missed EXCEPT ![c] = TRUE]
     /\ UNCHANGED task

Spend(c) ==
  /\ spent[c] < MaxEvents
  /\ spent' = [spent EXCEPT ![c] = @ + 1]

\* channel_updated: the channel is announced, completed, or has a new policy
ChannelUpdated(c) ==
  /\ Spend(c)
  /\ graph[c] # "gone"
  /\ \E g \in InGraph : /\ graph[c] = "full" => g = "full"
                        /\ graph' = [graph EXCEPT ![c] = g]
  /\ Deliver(c, Attempt(c, 1))
  /\ UNCHANGED <<tables, stray, emitted, overlap, faults>>

\* channel_closed, which may be delivered again
ChannelClosed(c) ==
  /\ Spend(c)
  /\ graph[c] # "unknown"
  /\ graph' = [graph EXCEPT ![c] = "gone"]
  /\ Deliver(c, Marking(c))
  /\ overlap' = [overlap EXCEPT ![c] =
                   \/ @
                   \/ \E t \in Tasks : IsSync(t) /\ task[t].channel = c
                   \/ \E s \in stray : s.channel = c]
  /\ UNCHANGED <<tables, stray, emitted, faults>>

-----------------------------------------------------------------------------
(* syncChannel, one step per wait *)

Finish(t) == task' = [task EXCEPT ![t] = Idle]

\* getStored
GetStored(t) ==
  /\ task[t].pc = "getStored"
  /\ task' = [task EXCEPT ![t].pc = "getFresh",
                          ![t].stored = channel[task[t].channel]]
  /\ UNCHANGED <<graph, tables, stray, emitted, ghosts, missed, faults>>

\* channelUpdate: only a capacity that is missing is filled in
NeedsUpdate(stored, fresh) ==
  /\ stored # NoRecord
  /\ fresh = "full"
  /\ ~stored.capacity

\* getFresh: without a channel (404) there is nothing to do; otherwise the
\* update is sent and the nodes are synced, neither waits for the other
GetFresh(t) ==
  LET fresh == graph[task[t].channel]
  IN  /\ task[t].pc = "getFresh"
      /\ IF fresh \notin InGraph
         THEN Finish(t)
         ELSE task' = [task EXCEPT
                ![t].pc = "syncNodes",
                ![t].fresh = fresh,
                ![t].write = IF NeedsUpdate(task[t].stored, fresh)
                             THEN "pending" ELSE "none"]
      /\ UNCHANGED <<graph, tables, stray, emitted, ghosts, missed, faults>>

\* syncNodes: one syncNode returns. Its node is in the table now, unless LND
\* answers that it does not know the node (404), which is not an error
SyncNode(t) ==
  LET c == task[t].channel
  IN  /\ task[t].pc = "syncNodes"
      /\ \E n \in Ends[c] \ task[t].synced :
           /\ task' = [task EXCEPT ![t].synced = @ \cup {n}]
           /\ \/ /\ nodes' = nodes \cup {n}
                 /\ unseen' = [d \in Channels |-> unseen[d] \ {n}]
              \/ /\ n \in Obscure
                 /\ unseen' = [unseen EXCEPT ![c] = @ \cup ({n} \ nodes)]
                 /\ UNCHANGED nodes
      /\ UNCHANGED <<graph, channel, stray, emitted, ghosts, missed, faults>>

NodesSynced(t) ==
  /\ task[t].pc = "syncNodes"
  /\ task[t].synced = Ends[task[t].channel]

\* channelRecord
ChannelRecord(fresh) ==
  [rev |-> 0, capacity |-> fresh = "full", closed |-> FALSE]

\* create and executeCreate: after the nodes
ExecuteCreate(t) ==
  LET c == task[t].channel
  IN  /\ NodesSynced(t)
      /\ task[t].stored = NoRecord
      /\ MayPut(channel[c])
      /\ channel' = [channel EXCEPT ![c] = ChannelRecord(task[t].fresh)]
      /\ task' = [task EXCEPT ![t].pc = "announce"]
      /\ UNCHANGED <<graph, nodes, unseen, stray, emitted, ghosts, missed, faults>>

\* A mistake: the whole record is put back
FilledAnew(r) == [rev |-> r.rev + 1, capacity |-> TRUE, closed |-> FALSE]

\* The changes of channelUpdate, applied to the record that is there
Filled(r) == [r EXCEPT !.rev = @ + 1, !.capacity = TRUE]

\* executeUpdate: the write goes through, whether or not the nodes are synced
ExecuteUpdate(t) ==
  LET c == task[t].channel
  IN  /\ task[t].pc = "syncNodes"
      /\ task[t].write = "pending"
      /\ MayUpdate(channel[c], task[t].stored.rev)
      /\ channel' = [channel EXCEPT ![c] = Filled(@)]
      /\ task' = [task EXCEPT ![t].write = "done"]
      /\ UNCHANGED <<graph, nodes, unseen, stray, emitted, ghosts, missed, faults>>

\* A mistake: 'channel_added' for a channel that was known already
KnownIsAdded(t) ==
  /\ NodesSynced(t)
  /\ task[t].stored # NoRecord
  /\ task[t].write # "pending"
  /\ added' = [added EXCEPT ![task[t].channel] = @ + 1]
  /\ Finish(t)
  /\ UNCHANGED <<graph, tables, stray, closed, ghosts, missed, faults>>

\* The channel was known already: no event
Known(t) ==
  /\ NodesSynced(t)
  /\ task[t].stored # NoRecord
  /\ task[t].write # "pending"
  /\ Finish(t)
  /\ UNCHANGED <<graph, tables, stray, emitted, ghosts, missed, faults>>

\* The create is confirmed: eventCreateChannel emits 'channel_added'
AnnounceAdded(t) ==
  /\ task[t].pc = "announce"
  /\ added' = [added EXCEPT ![task[t].channel] = @ + 1]
  /\ Finish(t)
  /\ UNCHANGED <<graph, tables, stray, closed, ghosts, missed, faults>>

\* A mistake: no retry
LetGo(t) == Finish(t) /\ UNCHANGED <<stray, missed>>

\* asyncRetry starts over or gives up; a pending update is not called back
RetryOrGiveUp(t) ==
  LET run == task[t]
      c == run.channel
  IN  /\ stray' = IF run.write = "pending"
                  THEN stray \cup {[channel |-> c, rev |-> run.stored.rev]}
                  ELSE stray
      /\ IF run.tries < MaxTries
         THEN /\ task' = [task EXCEPT ![t] = Attempt(c, run.tries + 1)]
              /\ UNCHANGED missed
         ELSE /\ Finish(t)
              /\ missed' = [missed EXCEPT ![c] = TRUE]

\* putItem finds a record, or updateItem another revision
Conflict(t) ==
  LET run == task[t]
      stored == channel[run.channel]
  IN  /\ \/ NodesSynced(t) /\ run.stored = NoRecord /\ ~MayPut(stored)
         \/ /\ run.pc = "syncNodes"
            /\ run.write = "pending"
            /\ ~MayUpdate(stored, run.stored.rev)
      /\ RetryOrGiveUp(t)
      /\ UNCHANGED <<graph, tables, emitted, ghosts, faults>>

\* A call of the attempt fails, its effect or not; or a syncNode of it does
SyncFails(t) ==
  /\ IsSync(t)
  /\ faults < MaxFaults
  /\ faults' = faults + 1
  /\ RetryOrGiveUp(t)
  /\ UNCHANGED <<graph, tables, emitted, ghosts>>

\* The update of an abandoned attempt reaches the database
StrayLands ==
  \E s \in stray :
    /\ stray' = stray \ {s}
    /\ channel' = IF MayUpdate(channel[s.channel], s.rev)
                  THEN [channel EXCEPT ![s.channel] = Filled(@)]
                  ELSE channel
    /\ UNCHANGED <<graph, nodes, unseen, task, emitted, ghosts, missed, faults>>

-----------------------------------------------------------------------------
(* markChannelClosed *)

\* A mistake: the test of close_height is the wrong way round
GetStoredOfClosed(t) ==
  LET stored == channel[task[t].channel]
  IN  /\ task[t].pc = "getStoredToMark"
      /\ IF stored # NoRecord /\ stored.closed
         THEN task' = [task EXCEPT ![t].pc = "mark", ![t].stored = stored]
         ELSE Finish(t)
      /\ UNCHANGED <<graph, tables, stray, emitted, ghosts, missed, faults>>

\* getStored: an absent or closed channel is left alone
GetStoredToMark(t) ==
  LET stored == channel[task[t].channel]
  IN  /\ task[t].pc = "getStoredToMark"
      /\ IF stored = NoRecord \/ (stored # NoRecord /\ stored.closed)
         THEN Finish(t)
         ELSE task' = [task EXCEPT ![t].pc = "mark", ![t].stored = stored]
      /\ UNCHANGED <<graph, tables, stray, emitted, ghosts, missed, faults>>

\* The close height is set, the revision is expected but not increased
Mark(t) ==
  LET c == task[t].channel
  IN  /\ task[t].pc = "mark"
      /\ MayUpdate(channel[c], task[t].stored.rev)
      /\ channel' = [channel EXCEPT ![c].closed = TRUE]
      /\ task' = [task EXCEPT ![t].pc = "announceClosed"]
      /\ UNCHANGED <<graph, nodes, unseen, stray, emitted, ghosts, missed, faults>>

\* Another revision is there: the error is emitted and the event is done with
MarkConflict(t) ==
  /\ task[t].pc = "mark"
  /\ ~MayUpdate(channel[task[t].channel], task[t].stored.rev)
  /\ Finish(t)
  /\ UNCHANGED <<graph, tables, stray, emitted, ghosts, missed, faults>>

AnnounceClosed(t) ==
  /\ task[t].pc = "announceClosed"
  /\ closed' = [closed EXCEPT ![task[t].channel] = @ + 1]
  /\ Finish(t)
  /\ UNCHANGED <<graph, tables, stray, added, ghosts, missed, faults>>

\* A call to the database fails, its effect or not: there is no retry
MarkFails(t) ==
  /\ task[t] \in Close
  /\ faults < MaxFaults
  /\ faults' = faults + 1
  /\ missed' = [missed EXCEPT ![task[t].channel] = TRUE]
  /\ Finish(t)
  /\ UNCHANGED <<graph, tables, stray, emitted, ghosts>>

-----------------------------------------------------------------------------

Step(t) ==
  \/ GetStored(t)
  \/ GetFresh(t)
  \/ SyncNode(t)
  \/ ExecuteCreate(t)
  \/ ExecuteUpdate(t)
  \/ Known(t)
  \/ AnnounceAdded(t)
  \/ Conflict(t)
  \/ GetStoredToMark(t)
  \/ Mark(t)
  \/ MarkConflict(t)
  \/ AnnounceClosed(t)

\* No handler has work: the subscription waits for another event
Quiescent ==
  /\ \A t \in Tasks : task[t] = Idle
  /\ stray = {}
  /\ UNCHANGED vars

Next ==
  \/ Quiescent
  \/ StrayLands
  \/ \E c \in Channels : ChannelUpdated(c) \/ ChannelClosed(c)
  \/ \E t \in Tasks : Step(t) \/ SyncFails(t) \/ MarkFails(t)

Spec == Init /\ [][Next]_vars

\* Every call to LND and to the database is answered in the end
FairSpec ==
  /\ Spec
  /\ WF_vars(StrayLands)
  /\ \A t \in Tasks : WF_vars(Step(t))

-----------------------------------------------------------------------------
(* Properties *)

Busy(c) ==
  \/ \E t \in Tasks : task[t] # Idle /\ task[t].channel = c
  \/ \E s \in stray : s.channel = c

Stored(c) == channel[c] # NoRecord

\* markChannelClosed and syncChannel write one record from what they read
\* earlier, and closing does not move the revision: still no write takes the
\* record, its capacity or its close height away again.
NothingForgotten ==
  [][\A c \in Channels : Stored(c) =>
       /\ channel'[c] # NoRecord
       /\ channel[c].capacity => channel'[c].capacity
       /\ channel[c].closed => channel'[c].closed]_channel

\* However many handlers of a channel race and retry, one of them creates it:
\* 'channel_added' is never emitted twice.
AddedOnce == \A c \in Channels : added[c] <= 1

\* The funding of a channel is filled in once: a second update, or one of an
\* abandoned attempt, does not get through.
FundingFilledOnce ==
  \A c \in Channels : Stored(c) =>
    /\ channel[c].rev <= 1
    /\ channel[c].rev = 1 => channel[c].capacity

\* A channel is in its table only when each of its nodes is in theirs, or LND
\* was asked for that node on behalf of the channel and did not know it, though
\* the nodes are synced by calls that fail and are tried again on their own.
NodesFirst == \A c \in Channels : Stored(c) => Ends[c] \subseteq nodes \cup unseen[c]

\* What holds of the tables and the announcements at every moment, whatever
\* attempts collide, fail or are given up while their update is on its way.
ChannelInv == TypeOK /\ AddedOnce /\ FundingFilledOnce /\ NodesFirst

\* A channel that closed while no syncChannel of it was under way, and whose
\* events were seen to, is marked once its handlers are done, and announced
\* unless a call failed.
ClosedWhenAlone ==
  \A c \in Channels :
    (graph[c] = "gone" /\ ~missed[c] /\ ~overlap[c] /\ ~Busy(c) /\ Stored(c))
      => channel[c].closed /\ (faults = 0 => closed[c] > 0)

\* The same without the proviso: "Mark channels as closed"
\* (src/events/sync_from_data_events.js:93).
ClosedIsMarked ==
  \A c \in Channels :
    (graph[c] = "gone" /\ ~missed[c] /\ ~Busy(c) /\ Stored(c))
      => channel[c].closed

\* An open channel whose events were seen to is stored in the end, with its
\* funding when the graph has it.
EventuallyStored ==
  \A c \in Channels :
    <>[]((graph[c] \in InGraph /\ ~missed[c]) =>
           /\ Stored(c)
           /\ graph[c] = "full" => channel[c].capacity)

=============================================================================
