----------------------------- MODULE MCLndCalls -----------------------------
(***************************************************************************)
(* The modules about calls to LND and of those that read all it knows,     *)
(* checked beside one another: they share nothing but LND, so that one of  *)
(* them, the subject of a behaviour, moves and the others are not called.  *)
(***************************************************************************)
EXTENDS Naturals, Sequences

CONSTANTS
  Peers, Peer, Waits, Dials, Probes, MaxSockets, MaxMoves,
  Updates, Fields, Checked, FeeRate, Values,
  Channels, Target, Elsewhere, Times,
  Locktimes, ByTime, Fuzz, MaxHeight, MaxDeposits,
  Lnds, Limit, MaxTime, MaxRows, MaxNews,
  Edges, Keys, Contacts, MaxTries, Blocks, Miners

VARIABLES
  subject,
  linked, moves, wait, dial, probe, proposals,
  channel, policy, update,
  life, heard, monitor, told, stop, young, passed, hunt,
  height, tx, cast, find, deposits,
  clock, slipped, invoices, payments, query, reader,
  lists, passes, series, synced, blocks, miner, added

MCValues == [f \in Fields |-> IF f = FeeRate THEN 0..2 ELSE 0..1]

Connection == INSTANCE PeerConnection
Fees == INSTANCE FeeUpdate
Watch == INSTANCE ChannelWatch
Casting == INSTANCE Broadcast
Pages == INSTANCE Paging
Current == INSTANCE CurrentRecords

ASSUME LndCallsAssumption ==
  /\ Connection!ConnectionAssumption
  /\ Fees!FeeAssumption
  /\ Watch!WatchAssumption
  /\ Casting!BroadcastAssumption
  /\ Pages!PagingAssumption
  /\ Current!RecordsAssumption

connection == <<linked, moves, wait, dial, probe, proposals>>
fees == <<channel, policy, update>>
watch == <<life, heard, monitor, told, stop, young, passed, hunt>>
casting == <<height, tx, cast, find, deposits>>

paging == <<clock, slipped, invoices, payments, query, reader>>
current == <<lists, passes, series, synced, blocks, miner, added>>

mcvars == <<subject, connection, fees, watch, casting, paging, current>>

\* The state of a module that is not the subject
NoConnection == linked = {} /\ Connection!NotCalled
NoFees == Fees!Init
NoWatch == life = [k \in Channels |-> "none"] /\ heard = FALSE /\ Watch!Running("none")
NoCasting ==
  /\ tx = [lock |-> ByTime, final |-> TRUE, sent |-> FALSE, mined |-> 0]
  /\ Casting!NotCalled

NoPaging == Pages!Init
NoCurrent == lists = {} /\ Current!NotCalled

MCInit ==
  \/ /\ subject \in {"fees", "paging"}
     /\ NoConnection /\ NoFees /\ NoWatch /\ NoCasting /\ NoPaging /\ NoCurrent
  \/ /\ subject = "connection"
     /\ Connection!Init /\ NoFees /\ NoWatch /\ NoCasting /\ NoPaging /\ NoCurrent
  \/ /\ subject = "watch"
     /\ Watch!Init /\ NoConnection /\ NoFees /\ NoCasting /\ NoPaging /\ NoCurrent
  \/ /\ subject = "broadcast"
     /\ Casting!Init /\ NoConnection /\ NoFees /\ NoWatch /\ NoPaging /\ NoCurrent
  \/ /\ subject = "current"
     /\ Current!Init /\ NoConnection /\ NoFees /\ NoWatch /\ NoCasting /\ NoPaging

MCNext ==
  \/ /\ subject = "connection"
     /\ Connection!Next
     /\ UNCHANGED <<subject, fees, watch, casting, paging, current>>
  \/ /\ subject = "fees"
     /\ Fees!Next
     /\ UNCHANGED <<subject, connection, watch, casting, paging, current>>
  \/ /\ subject = "watch"
     /\ Watch!Next
     /\ UNCHANGED <<subject, connection, fees, casting, paging, current>>
  \/ /\ subject = "broadcast"
     /\ Casting!Next
     /\ UNCHANGED <<subject, connection, fees, watch, paging, current>>
  \/ /\ subject = "paging"
     /\ Pages!Next
     /\ UNCHANGED <<subject, connection, fees, watch, casting, current>>
  \/ /\ subject = "current"
     /\ Current!Next
     /\ UNCHANGED <<subject, connection, fees, watch, casting, paging>>

MCSpec ==
  /\ MCInit /\ [][MCNext]_mcvars
  /\ Connection!Fairness
  /\ Watch!Fairness
  /\ Casting!Fairness
  /\ Pages!Fairness
  /\ Current!Fairness

\* The invariants of the modules; that what was asked for is all there is the
\* question of the two that read row after row
ConnectionInv == Connection!ConnectionInv
WatchInv == Watch!WatchInv
BroadcastInv == Casting!BroadcastInv
AnswersAreWhole == Pages!PagingInv /\ Current!CurrentInv

\* An update that ran alone is kept, and keeps the rest
FeeChangeIsKept == Fees!FeeChangeIsKept

\* A closing that lasts is told
ClosingIsTold == Watch!ClosingIsTold

\* Every call that waits, polls or goes on comes to its end
CallsEnd ==
  /\ Connection!ConnectionCallsEnd
  /\ Watch!WatchCallsEnd
  /\ Casting!BroadcastGoesOn
  /\ Pages!PagingEnds
  /\ Current!PassEnds
=============================================================================
