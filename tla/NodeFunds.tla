------------------------------ MODULE NodeFunds ------------------------------
(***************************************************************************)
(* getNodeFunds: five calls to LND whose answers are added up by category, *)
(* while coins and a channel move on. The wallet's coins are created and   *)
(* spent by transactions of which several versions may be known; the       *)
(* channel goes through its life. Both are LND's and external.             *)
(***************************************************************************)
EXTENDS Integers, Sequences, FiniteSetsExt

CONSTANTS
  Coins, Worth,       \* outputs of the wallet, and their tokens
  Txs,
  Spends, Creates,    \* the coins each transaction takes and makes
  Funding, Sweep,     \* the transactions that open and close the channel
  Scenes,             \* the transactions of a behaviour
  Mined,              \* those that are mined at the start
  Local, CommitFee, Anchor, Htlc,
  Unknown

NodeFundsAssumption ==
  /\ IsFiniteSet(Coins)
  /\ Worth \in [Coins -> Nat]
  /\ Spends \in [Txs -> SUBSET Coins]
  /\ Creates \in [Txs -> SUBSET Coins]
  /\ \A t, u \in Txs : t # u => Creates[t] \cap Creates[u] = {}
  /\ \A u \in Coins : \E t \in Txs : u \in Creates[t]
  /\ Funding # Sweep
  /\ {Funding, Sweep} \subseteq Txs \ Mined
  /\ Scenes \subseteq SUBSET Txs
  /\ {Local, CommitFee, Anchor, Htlc} \subseteq Nat

VARIABLES scene, stage, locks, chan, staked, query

vars == <<scene, stage, locks, chan, staked, query>>

\* The orders of a set, and one of them
Orders(S) == Injection(1..Cardinality(S), S)
AnOrder(S) == CHOOSE o \in [1..Cardinality(S) -> S] : IsInjective(o)

Tokens(S) == MapThenSumSet(LAMBDA u : Worth[u], S)
CreatorOf(u) == CHOOSE t \in Txs : u \in Creates[t]
Known(t) == stage[t] \in {"pool", "mined"}
IsSpent(u) == \E t \in Txs : Known(t) /\ u \in Spends[t]
Exists(u) == Known(CreatorOf(u)) /\ ~IsSpent(u)
Confirmed(u) == stage[CreatorOf(u)] = "mined"

(***************************************************************************)
(* The wallet and the channel. `staked' is the ledger of the channel: what *)
(* of our tokens it holds, by what went in and out.                        *)
(***************************************************************************)
NoQuery ==
  [at |-> "idle", still |-> TRUE, moved |-> 0, lockedFailed |-> FALSE, channels |-> Unknown, pending |-> Unknown,
   tx |-> Unknown, utxos |-> Unknown, locked |-> Unknown, answer |-> Unknown]

\* A query under way sees one move at most, of so many tokens
Moves(tokens) ==
  /\ \/ query.at = "idle"
     \/ query.at = "asked" /\ query.still
  /\ query' = IF query.at = "asked"
              THEN [query EXCEPT !.still = FALSE, !.moved = tokens]
              ELSE query
  /\ UNCHANGED scene

Of(t) == Tokens(Spends[t]) + Tokens(Creates[t])

Conflicts(t) == {u \in Txs \ {t} : Known(u) /\ Spends[u] \cap Spends[t] # {}}

\* A transaction is seen: a deposit, a payment, or another version of one
Broadcast(t) ==
  /\ Moves(Of(t))
  /\ t \in scene \ {Funding, Sweep}
  /\ stage[t] = "none"
  /\ \A u \in Spends[t] : Known(CreatorOf(u)) /\ u \notin locks
  /\ \A u \in Conflicts(t) : stage[u] = "pool"
  /\ stage' = [stage EXCEPT ![t] = "pool"]
  /\ UNCHANGED <<locks, chan, staked>>

Mine(t) ==
  /\ Moves(Of(t))
  /\ stage[t] = "pool"
  /\ \A u \in Spends[t] : Confirmed(u)
  /\ \A u \in Conflicts(t) : stage[u] = "pool"
  /\ stage' = [stage EXCEPT ![t] = "mined"]
  /\ chan' = IF t = Sweep THEN [chan EXCEPT !.recovered = Tokens(Creates[t])] ELSE chan
  /\ staked' = IF t = Sweep THEN staked - Tokens(Creates[t]) ELSE staked
  /\ UNCHANGED locks

\* LND forgets a transaction that cannot be mined any more
Forget(t) ==
  /\ Moves(Of(t))
  /\ stage[t] = "pool"
  /\ \E u \in Conflicts(t) : stage[u] = "mined"
  /\ stage' = [stage EXCEPT ![t] = "gone"]
  /\ locks' = locks \ Creates[t]
  /\ UNCHANGED <<chan, staked>>

LockCoin(u) ==
  /\ Moves(Worth[u])
  /\ Exists(u) /\ u \notin locks
  /\ locks' = locks \cup {u}
  /\ UNCHANGED <<stage, chan, staked>>

UnlockCoin(u) ==
  /\ Moves(Worth[u])
  /\ u \in locks
  /\ locks' = locks \ {u}
  /\ UNCHANGED <<stage, chan, staked>>

\* A lock lapses: the clock says so until the locked coins are looked up, which
\* is as soon as the transactions have come
LapseLock(u) ==
  /\ query.at = "asked" /\ query.still
  /\ query.locked # Unknown /\ query.tx = Unknown
  /\ u \in locks
  /\ locks' = locks \ {u}
  /\ query' = [query EXCEPT !.still = FALSE, !.moved = Worth[u], !.locked = @ \ {u}]
  /\ UNCHANGED <<scene, stage, chan, staked>>

\* What the one who opens the channel puts into it
Stake == Local + CommitFee + (IF chan.anchors THEN Anchor ELSE 0)

OpenChannel ==
  /\ Moves(Stake + Of(Funding))
  /\ Funding \in scene /\ chan.at = "none"
  /\ \A u \in Spends[Funding] : u \notin locks
  /\ chan' = [chan EXCEPT !.at = "opening"]
  /\ stage' = IF chan.initiated THEN [stage EXCEPT ![Funding] = "pool"] ELSE stage
  /\ staked' = IF chan.initiated THEN Stake ELSE 0
  /\ UNCHANGED locks

ChannelOpens ==
  /\ Moves(Stake)
  /\ chan.at = "opening"
  /\ chan.initiated => stage[Funding] = "mined"
  /\ chan' = [chan EXCEPT !.at = "open"]
  /\ staked' = IF chan.initiated THEN staked ELSE Local
  /\ UNCHANGED <<stage, locks>>

\* A payment goes out, and is refunded or paid
AddHtlc ==
  /\ Moves(Htlc)
  /\ chan.at = "open" /\ ~chan.htlc /\ chan.local >= Htlc
  /\ chan' = [chan EXCEPT !.htlc = TRUE, !.local = @ - Htlc]
  /\ UNCHANGED <<stage, locks, staked>>

RefundHtlc ==
  /\ Moves(Htlc)
  /\ chan.at = "open" /\ chan.htlc
  /\ chan' = [chan EXCEPT !.htlc = FALSE, !.local = @ + Htlc]
  /\ UNCHANGED <<stage, locks, staked>>

PayHtlc ==
  /\ Moves(Htlc)
  /\ chan.at \in {"open", "closing"} /\ chan.htlc
  /\ chan' = [chan EXCEPT !.htlc = FALSE]
  /\ staked' = staked - Htlc
  /\ UNCHANGED <<stage, locks>>

\* The commitment goes to the chain: its fee and its anchor are spent
CloseChannel ==
  /\ Moves(Stake)
  /\ chan.at = "open"
  /\ chan' = [chan EXCEPT !.at = "closing"]
  /\ staked' = IF chan.initiated THEN staked - (Stake - Local) ELSE staked
  /\ UNCHANGED <<stage, locks>>

SweepChannel ==
  /\ Moves(Of(Sweep))
  /\ chan.at = "closing" /\ stage[Sweep] = "none"
  /\ Tokens(Creates[Sweep]) <= chan.local
  /\ \A u \in Spends[Sweep] : u \notin locks
  /\ stage' = [stage EXCEPT ![Sweep] = "pool"]
  /\ UNCHANGED <<locks, chan, staked>>

ResolveChannel ==
  /\ Moves(chan.local)
  /\ chan.at = "closing" /\ chan.recovered > 0 /\ ~chan.htlc
  /\ chan' = [chan EXCEPT !.at = "closed"]
  /\ staked' = 0
  /\ UNCHANGED <<stage, locks>>

(***************************************************************************)
(* detailedBalances                                                        *)
(***************************************************************************)
SumOf(S, F(_)) == MapThenSumSet(F, S)

\* Of the listed coins, those that are not confirmed
Unconfirmed(utxos) == SelectSeq(utxos.order, LAMBDA u : u \notin utxos.conf)

\* The coins that the transaction of a listed coin takes, when it is known
Takes(u, tx) == IF tx[CreatorOf(u)] = "none" THEN {} ELSE Spends[CreatorOf(u)]

\* A coin conflicts when one listed before it was made of the same coin, and is
\* invalid when a confirmed transaction took that coin. The places are those of
\* the unconfirmed coins; the tokens are read at these places of the whole list
ConflictingBalances(utxos, tx) ==
  LET list == Unconfirmed(utxos)
      mined == UNION {Spends[t] : t \in {t \in Txs : tx[t] = "mined"}}
      invalid == {i \in DOMAIN list : Takes(list[i], tx) \cap mined # {}}
      conflicting ==
        {i \in DOMAIN list : \E j \in 1..i - 1 : Takes(list[j], tx) \cap Takes(list[i], tx) # {}}
      At(i) == Worth[utxos.order[i]]
  IN  [conflicted |-> SumOf(conflicting \ invalid, At), invalid |-> SumOf(invalid, At)]

\* Change is what an unconfirmed transaction of ours pays to one of our addresses
Change(utxos, tx) ==
  {u \in Range(utxos.order) \ utxos.conf : tx[CreatorOf(u)] = "pool" /\ Spends[CreatorOf(u)] # {}}

ChannelBalance(c) ==
  c.local
  + (IF c.initiated THEN CommitFee ELSE 0)
  + (IF c.initiated /\ c.anchors THEN Anchor ELSE 0)
  + (IF c.htlc THEN Htlc ELSE 0)

\* A mistake: what the peer puts into a channel counts as well
PendingBalanceOfAll(c) == IF c.at = "opening" THEN c.local + CommitFee ELSE 0

\* The payments of a pending channel are asked whether they are outgoing. LND
\* says of these only whether they are incoming, so that none of them counts
PendingBalance(c) == IF c.at = "opening" /\ c.initiated THEN c.local + CommitFee ELSE 0

Closing(c) == IF c.at = "closing" THEN c.local - c.recovered ELSE 0

DetailedBalances(q, locked, utxos, tx) ==
  LET conflicts == ConflictingBalances(utxos, tx)
  IN  [closing |-> SumOf(q.pending, Closing),
       conflicted |-> conflicts.conflicted,
       invalid |-> conflicts.invalid,
       offchain |-> SumOf(q.channels, ChannelBalance),
       pending |-> SumOf(q.pending, PendingBalance),
       onchain |-> Tokens(utxos.conf) + Tokens(Change(utxos, tx)) + locked]

(***************************************************************************)
(* getNodeFunds                                                            *)
(***************************************************************************)
Calls == {"channels", "pending", "tx", "utxos", "locked"}

\* LND lists the coins that exist and are not locked, in an order of its own
Listings == Orders({u \in Coins : Exists(u) /\ u \notin locks})

\* What the calls of a set return now; an error of getLockedUtxos is passed over
Returns(q, S, order, lockedFails) ==
  [q EXCEPT
     !.channels = IF "channels" \in S THEN IF chan.at = "open" THEN {chan} ELSE {} ELSE @,
     !.pending = IF "pending" \in S
                 THEN IF chan.at \in {"opening", "closing"} THEN {chan} ELSE {}
                 ELSE @,
     !.tx = IF "tx" \in S THEN stage ELSE @,
     !.utxos = IF "utxos" \in S
               THEN [order |-> order, conf |-> {u \in Range(order) : Confirmed(u)}]
               ELSE @,
     !.locked = IF "locked" \in S THEN IF lockedFails THEN {} ELSE locks ELSE @,
     !.lockedFailed = @ \/ lockedFails]

\* A locked coin counts when its transaction is known to be confirmed
LockedTokens(q) == Tokens({u \in q.locked : q.tx[CreatorOf(u)] = "mined"})

\* The balances of what is confirmed, and of all. No coin of the first is to be
\* confirmed: their order tells nothing
Balance(q, isConfirmed) ==
  LET conf == q.utxos.conf
      confUtxos == [order |-> AnOrder(conf), conf |-> conf]
      confirmedTx == [t \in Txs |-> IF q.tx[t] = "mined" THEN "mined" ELSE "none"]
      confirmed == DetailedBalances(q, LockedTokens(q), confUtxos, confirmedTx)
      unconfirmed == DetailedBalances(q, LockedTokens(q), q.utxos, q.tx)
      balances == IF isConfirmed THEN confirmed ELSE unconfirmed
  IN  [closing |-> balances.closing,
       conflicted |-> balances.conflicted,
       invalid |-> balances.invalid,
       offchain |-> balances.offchain,
       pending |-> balances.pending,
       onchainConfirmed |-> confirmed.onchain,
       onchainPending |-> unconfirmed.onchain - confirmed.onchain,
       isConfirmed |-> isConfirmed]

\* Some of the calls have returned when the others have not
Ask ==
  /\ query.at = "idle"
  /\ \E S \in (SUBSET Calls) \ {{}}, order \in Listings, lockedFails \in BOOLEAN :
       /\ "locked" \notin S => ~lockedFails
       /\ "utxos" \notin S => order = CHOOSE o \in Listings : TRUE
       /\ query' = [Returns(NoQuery, S, order, lockedFails) EXCEPT !.at = "asked"]
  /\ UNCHANGED <<scene, stage, locks, chan, staked>>

Answer ==
  /\ query.at = "asked"
  /\ \E order \in Listings, isConfirmed \in BOOLEAN :
       LET missing == {c \in Calls : query[c] = Unknown}
           q == Returns(query, missing, order, FALSE)
       IN  query' = [q EXCEPT !.at = "done", !.answer = Balance(q, isConfirmed)]
  /\ UNCHANGED <<scene, stage, locks, chan, staked>>

Return ==
  /\ query.at = "done"
  /\ query' = NoQuery
  /\ UNCHANGED <<scene, stage, locks, chan, staked>>

Init ==
  /\ scene \in Scenes
  /\ stage = [t \in Txs |-> IF t \in Mined THEN "mined" ELSE "none"]
  /\ locks = {}
  /\ chan \in [at : {"none"}, initiated : BOOLEAN, anchors : BOOLEAN, htlc : {FALSE},
              local : {Local}, recovered : {0}]
  /\ Funding \notin scene => ~chan.initiated
  /\ chan.anchors => chan.initiated
  /\ staked = 0
  /\ query = NoQuery

Next ==
  \/ \E t \in Txs : Broadcast(t) \/ Mine(t) \/ Forget(t)
  \/ \E u \in Coins : LockCoin(u) \/ UnlockCoin(u) \/ LapseLock(u)
  \/ OpenChannel \/ ChannelOpens
  \/ AddHtlc \/ RefundHtlc \/ PayHtlc
  \/ CloseChannel \/ SweepChannel \/ ResolveChannel
  \/ Ask \/ Answer \/ Return

Spec == Init /\ [][Next]_vars

(***************************************************************************)
(* Properties                                                              *)
(***************************************************************************)
\* One way in which the wallet may go on: of each coin, one transaction that
\* takes it
Outcome(S) ==
  /\ \A t \in S : Conflicts(t) \cap S = {}
  /\ \A t \in Txs \ S : Known(t) => Conflicts(t) \cap S # {}
  /\ \A t \in Txs : stage[t] = "mined" => t \in S

\* The wallet's own coins then. A deposit counts once it is confirmed, and so
\* does a coin that is locked
OnChain(S) ==
  Tokens({u \in Coins : /\ CreatorOf(u) \in S /\ Exists(u)
                        /\ \/ Confirmed(u)
                           \/ u \notin locks /\ Spends[CreatorOf(u)] # {}})

\* The anchor of a channel that is opening is not counted, and neither is the
\* payment of one that is closing
LeftOut(c) ==
  (IF c.at = "opening" /\ c.initiated /\ c.anchors THEN Anchor ELSE 0)
  + (IF c.at = "closing" /\ c.htlc THEN Htlc ELSE 0)

Uncounted == LeftOut(chan)

\* The tokens of conflicts are read from the right places when the coins that are
\* not confirmed are listed first, one of each transaction
PlainlyListed(utxos) ==
  LET list == Unconfirmed(utxos)
  IN  /\ \A i \in DOMAIN list : utxos.order[i] = list[i]
      /\ \A i, j \in DOMAIN list : i # j => CreatorOf(list[i]) # CreatorOf(list[j])

Counted(a) ==
  a.onchainConfirmed + a.onchainPending - a.conflicted - a.invalid
  + a.offchain + a.pending + a.closing

\* The balances that getNodeFunds answers add up to what the node owns in one
\* outcome of its transactions, but for what it leaves out; an answer that was
\* torn by a move in between is off by no more than what moved
AllIsCounted ==
  query.at = "done" /\ ~query.answer.isConfirmed /\ ~query.lockedFailed
  /\ PlainlyListed(query.utxos)
  => \E S \in SUBSET {t \in Txs : Known(t)} :
       /\ Outcome(S)
       /\ Counted(query.answer) - (OnChain(S) + staked - Uncounted)
            \in -query.moved..query.moved

\* What is answered of the channels is what they hold of this node's tokens, but
\* for what is left out, whatever became of the channel between two of the calls
ChannelsAreCounted ==
  query.at = "done" =>
    LET a == query.answer
    IN  a.offchain + a.pending + a.closing - (staked - Uncounted) \in -query.moved..query.moved

\* Each confirmed coin is counted, and once, be it locked or not
ConfirmedAreCounted ==
  query.at = "done" /\ ~query.lockedFailed =>
    query.answer.onchainConfirmed - Tokens({u \in Coins : Exists(u) /\ Confirmed(u)})
      \in -query.moved..query.moved

SafelyCounted == ChannelsAreCounted /\ ConfirmedAreCounted
=============================================================================
