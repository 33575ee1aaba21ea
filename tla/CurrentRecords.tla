---------------------------- MODULE CurrentRecords ----------------------------
(***************************************************************************)
(* The calls that fill the tables without a subscription. syncCurrentRecords *)
(* lists what LND knows and syncs it, in four series side by side; what a  *)
(* sync does to its row is in NodeSync, ChannelSync and LinkSync.          *)
(* eventBlockMined stores a block and tells of it.                         *)
(***************************************************************************)
EXTENDS Naturals, FiniteSets

CONSTANTS
  Edges,      \* channels of the graph, each with its policies
  Keys,       \* nodes of the graph
  Contacts,   \* connected peers
  MaxTries,   \* attempts of a sync
  Blocks,
  Miners      \* handlers of mined blocks

RecordsAssumption == MaxTries \in Nat \ {0}

VARIABLES
  lists,    \* what LND knows
  passes,   \* syncCurrentRecords: its lookups and its answers
  series,   \* its four series
  synced,   \* what they synced
  blocks,   \* the table of blocks
  miner,    \* a handler of a block
  added     \* how often each block was told of

vars == <<lists, passes, series, synced, blocks, miner, added>>

pass == <<lists, passes, series, synced>>
mining == <<blocks, miner, added>>

Kinds == {"channels", "nodes", "peers", "policies"}
OfGraph == Kinds \ {"peers"}

\* A policy of each channel stands for both
Listed(kind) ==
  {<<kind, x>> : x \in CASE kind \in {"channels", "policies"} -> lists \cap Edges
                         [] kind = "nodes" -> lists \cap Keys
                         [] kind = "peers" -> lists \cap Contacts}

Waiting == [at |-> "waiting", listed |-> {}, left |-> {}, tries |-> 0]

NotCalled ==
  /\ passes = [at |-> "idle", graph |-> "none", peers |-> "none", answers |-> <<>>]
  /\ series = [k \in Kinds |-> Waiting]
  /\ synced = {}
  /\ blocks = {}
  /\ miner = [w \in Miners |-> [at |-> "idle", stored |-> FALSE]]
  /\ added = [b \in Blocks |-> 0]

Init == lists \in SUBSET (Edges \cup Keys \cup Contacts) /\ NotCalled

(***************************************************************************)
(* syncCurrentRecords                                                      *)
(***************************************************************************)
Learn ==
  /\ passes.at = "running"
  /\ \E x \in (Edges \cup Keys \cup Contacts) \ lists : lists' = lists \cup {x}
  /\ UNCHANGED <<passes, series, synced, mining>>

Start ==
  /\ passes.at = "idle"
  /\ \A w \in Miners : miner[w].at = "idle"
  /\ passes' = [passes EXCEPT !.at = "running", !.graph = "asked", !.peers = "asked"]
  /\ UNCHANGED <<lists, series, synced, mining>>

\* asyncAuto calls back once; after an error it starts nothing any more, while
\* the series that run go on
Ended(result) ==
  IF passes.at = "running"
  THEN [passes EXCEPT !.at = "answered", !.answers = <<result>>]
  ELSE passes

\* The rows are gone through in an order that is shuffled
Begin(S) ==
  [k \in Kinds |->
     IF k \in S
     THEN [Waiting EXCEPT !.at = IF Listed(k) = {} THEN "done" ELSE "syncing",
                          !.listed = Listed(k), !.left = Listed(k)]
     ELSE series[k]]

Lookup(call, S) ==
  /\ passes[call] = "asked"
  /\ passes' = [passes EXCEPT ![call] = "known"]
  /\ series' = IF passes.at = "running" THEN Begin(S) ELSE series
  /\ UNCHANGED <<lists, synced, mining>>

GetGraph == Lookup("graph", OfGraph)
GetPeers == Lookup("peers", {"peers"})

LookupFails(call) ==
  /\ passes[call] = "asked"
  /\ passes' = [Ended("failed") EXCEPT ![call] = "failed"]
  /\ UNCHANGED <<lists, series, synced, mining>>

\* One sync after another: an attempt that works goes on to the next row
SyncOne(k) ==
  /\ series[k].at = "syncing"
  /\ \E x \in series[k].left :
       /\ synced' = synced \cup {x}
       /\ series' = [series EXCEPT
            ![k].left = @ \ {x}, ![k].tries = 0,
            ![k].at = IF series[k].left = {x} THEN "done" ELSE "syncing"]
  /\ UNCHANGED <<lists, passes, mining>>

\* A mistake: a row that cannot be synced is passed over
PassesOver(k) ==
  /\ \E x \in series[k].left :
       series' = [series EXCEPT
         ![k].left = @ \ {x}, ![k].tries = 0,
         ![k].at = IF series[k].left = {x} THEN "done" ELSE "syncing"]
  /\ UNCHANGED passes

\* The series ends with the error of its row, and so does the call
GivesUp(k) ==
  /\ series' = [series EXCEPT ![k].at = "failed"]
  /\ passes' = Ended("failed")

SyncFails(k) ==
  /\ series[k].at = "syncing"
  /\ IF series[k].tries + 1 < MaxTries
     THEN /\ series' = [series EXCEPT ![k].tries = @ + 1]
          /\ UNCHANGED passes
     ELSE GivesUp(k)
  /\ UNCHANGED <<lists, synced, mining>>

AllDone ==
  /\ passes.at = "running"
  /\ \A k \in Kinds : series[k].at = "done"
  /\ passes' = Ended("ok")
  /\ UNCHANGED <<lists, series, synced, mining>>

(***************************************************************************)
(* eventBlockMined and syncBlock                                           *)
(***************************************************************************)
Miner(w, m) == miner' = [miner EXCEPT ![w] = m]

\* Handlers of one block may run side by side
BlockMined(w, b) ==
  /\ miner[w].at = "idle"
  /\ passes.at = "idle"
  /\ Miner(w, [at |-> "reading", block |-> b, stored |-> FALSE])
  /\ UNCHANGED <<pass, blocks, added>>

GetStoredBlock(w) ==
  /\ miner[w].at = "reading"
  /\ Miner(w, [miner[w] EXCEPT !.at = "writing", !.stored = miner[w].block \in blocks])
  /\ UNCHANGED <<pass, blocks, added>>

\* A block that is there is not told of; the database refuses to put it twice
CreateBlock(w) ==
  /\ miner[w].at = "writing"
  /\ IF miner[w].stored \/ miner[w].block \in blocks
     THEN /\ Miner(w, [at |-> "done", stored |-> TRUE])
          /\ UNCHANGED <<blocks, added>>
     ELSE /\ blocks' = blocks \cup {miner[w].block}
          /\ added' = [added EXCEPT ![miner[w].block] = @ + 1]
          /\ Miner(w, [at |-> "done", stored |-> TRUE])
  /\ UNCHANGED pass

\* A put whose reply is lost stores the block, which nobody is told of then
BlockFails(w) ==
  /\ miner[w].at \in {"reading", "writing"}
  /\ \/ UNCHANGED blocks
     \/ miner[w].at = "writing" /\ ~miner[w].stored /\ blocks' = blocks \cup {miner[w].block}
  /\ Miner(w, [at |-> "done", stored |-> FALSE])
  /\ UNCHANGED <<pass, added>>

PassStep ==
  \/ GetGraph \/ GetPeers \/ AllDone
  \/ \E k \in Kinds : SyncOne(k) \/ SyncFails(k)

Next ==
  \/ Learn \/ Start \/ PassStep
  \/ \E call \in {"graph", "peers"} : LookupFails(call)
  \/ \E w \in Miners :
       \/ \E b \in Blocks : BlockMined(w, b)
       \/ GetStoredBlock(w) \/ CreateBlock(w) \/ BlockFails(w)

-----------------------------------------------------------------------------
TypeOK ==
  /\ lists \subseteq Edges \cup Keys \cup Contacts
  /\ passes \in [at : {"idle", "running", "answered"},
                 graph : {"none", "asked", "known", "failed"},
                 peers : {"none", "asked", "known", "failed"},
                 answers : {<<>>, <<"ok">>, <<"failed">>}]
  /\ \A k \in Kinds : series[k].left \subseteq series[k].listed /\ series[k].tries < MaxTries
  /\ blocks \subseteq Blocks

\* A call that succeeds has synced every row LND listed for it and leaves no
\* series running; one that fails may leave series that go on
PassIsWhole ==
  passes.answers = <<"ok">> =>
    \A k \in Kinds : series[k].at = "done" /\ series[k].listed \subseteq synced

\* A block is told of once at most, and only one that is stored
BlocksAreToldOnce ==
  \A b \in Blocks : added[b] <= 1 /\ (added[b] = 1 => b \in blocks)

CurrentInv == TypeOK /\ PassIsWhole /\ BlocksAreToldOnce

\* Every call ends
PassEnds == passes.at = "running" ~> passes.at = "answered"

Fairness == WF_vars(PassStep)

Spec == Init /\ [][Next]_vars /\ Fairness
=============================================================================
