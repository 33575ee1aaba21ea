------------------------------- MODULE MCWallet -------------------------------
(***************************************************************************)
(* The calls about the wallet, checked beside one another: those that take *)
(* and give up its coins, the queries of its balances and of its liquidity *)
(* and that of what a transaction was for. One is a behaviour's subject.   *)
(***************************************************************************)
EXTENDS Integers, Sequences, FiniteSets, TLC

CONSTANTS
  u1, u2,
  c1, c2, c3, c4, c5, c6, c7, c8, old, pay, bump, split, deposit, fund, sweep,
  k1, k2, open, closeA, closeB, claim, claimed, other,
  e1, e2, e3, p1, p2

CONSTANTS
  Utxos, Worth, MaxCalls, Keeper, Nobody, Amounts, Fee, Dust, Adjustment, RefundFees,
  Rates, SlowRate, FastRate, Multiplier, LeaseTime,
  Coins, CoinWorth, Txs, Spent, Created, Scenes, Funding, Sweep, Mined, Local, CommitFee, Anchor, Htlc, Unknown,
  Channels, ChainTxs, Fund, Vout, CloseTx, Inputs, Resolves, Owed, Kinds, Wallet, NoTx,
  Edges, PeerOf, Capacity, Pays, Offline, Asked, NoRate, Maximums

VARIABLES
  subject,
  lease, spent, call, keeper,
  scene, stage, locks, chan, staked, balance,
  life, txs, ended, record,
  chans, ask

Locking == INSTANCE Funding WITH Tokens <- Amounts

MCWorth == (u1 :> 3) @@ (u2 :> 2)

MCCoinWorth ==
  (c1 :> 9) @@ (c2 :> 5) @@ (c3 :> 4) @@ (c4 :> 2) @@ (c5 :> 1) @@ (c6 :> 3) @@ (c7 :> 2)
  @@ (c8 :> 3)
MCSpent == [t \in Txs |-> IF t \in {pay, bump, split, fund} THEN {c1} ELSE {}]
MCCreated ==
  (old :> {c1}) @@ (pay :> {c2}) @@ (bump :> {c3}) @@ (split :> {c4, c5})
  @@ (deposit :> {c6}) @@ (fund :> {c7}) @@ (sweep :> {c8})

MCScenes == {{old, pay, bump, deposit}, {old, split}, {old, fund, sweep}}

Balances == INSTANCE NodeFunds WITH
  Worth <- CoinWorth, Spends <- Spent, Creates <- Created, query <- balance

From(t, v) == [tx |-> t, vout |-> v]
MCInputs ==
  (open :> <<From(NoTx, 0)>>) @@ (closeA :> <<From(open, 0)>>)
  @@ (closeB :> <<From(open, 1)>>) @@ (claim :> <<From(closeA, 2), From(closeA, 1)>>)
  @@ (claimed :> <<From(claim, 0)>>) @@ (other :> <<From(NoTx, 1)>>)

MCVout == (k1 :> 0) @@ (k2 :> 1)
MCCloseTx == (k1 :> closeA) @@ (k2 :> closeB)
MCResolves == k1 :> claim
MCKinds == (k1 :> {"local", "remote"}) @@ (k2 :> {"cooperative"})
MCWallets == {<<>>, <<other>>}

Records == INSTANCE ChainRecords WITH Txs <- ChainTxs, Nothing <- NoTx, query <- record

\* Two channels with one peer, which asks for a fee rate over each, and another,
\* whose channel may be one that the graph does not have
MCPeerOf == (e1 :> p1) @@ (e2 :> p1) @@ (e3 :> p2)

Asks(r1, r2) == (e1 :> r1) @@ (e2 :> r2)
MCAsked == {Asks(1, 2), Asks(0, 2), Asks(NoRate, 1), (e2 :> 1) @@ (e3 :> 1)}

Flows == INSTANCE Liquidity WITH Channels <- Edges, Payments <- Pays, Rates <- Asked

ASSUME WalletAssumption ==
  /\ Locking!FundingAssumption
  /\ Balances!NodeFundsAssumption
  /\ Records!ChainRecordsAssumption
  /\ Flows!LiquidityAssumption

locking == <<lease, spent, call, keeper>>
balances == <<scene, stage, locks, chan, staked, balance>>
records == <<life, txs, ended, record>>
flows == <<chans, ask>>

mcvars == <<subject, locking, balances, records, flows>>

\* The state of a module that is not the subject
NoBalances ==
  /\ scene = {} /\ stage = [t \in Txs |-> "none"] /\ locks = {} /\ staked = 0
  /\ chan = [at |-> "none", initiated |-> FALSE, anchors |-> FALSE, htlc |-> FALSE,
             local |-> Local, recovered |-> 0]
  /\ balance = Balances!NoQuery

NoRecords ==
  /\ life = [k \in Channels |->
               [at |-> "none", kind |-> "none", theirs |-> FALSE, owed |-> "owed"]]
  /\ txs = <<>> /\ ended = <<>>
  /\ record = Records!NoQuery

MCInit ==
  /\ Locking!Init
  /\ Flows!Init
  /\ \/ subject \in {"locking", "liquidity"} /\ NoBalances /\ NoRecords
     \/ subject = "balances" /\ Balances!Init /\ NoRecords
     \/ subject = "records" /\ NoBalances /\ Records!Init

MCNext ==
  \/ subject = "locking" /\ Locking!Next /\ UNCHANGED <<subject, balances, records, flows>>
  \/ subject = "balances" /\ Balances!Next /\ UNCHANGED <<subject, locking, records, flows>>
  \/ subject = "records" /\ Records!Next /\ UNCHANGED <<subject, locking, balances, flows>>
  \/ subject = "liquidity" /\ Flows!Next /\ UNCHANGED <<subject, locking, balances, records>>

MCSpec == MCInit /\ [][MCNext]_mcvars /\ Locking!Fairness

\* The invariants of the four modules. Those that hold of any wallet and any
\* channels are one: no answer leaves out or tells twice what its parts, which LND
\* answers at different moments, have of each other
FundingInv == Locking!FundingInv
AllIsCounted == Balances!AllIsCounted
AnswersAreTrue == Records!RecordsInv /\ Flows!LiquidityInv /\ Balances!SafelyCounted

\* A lock that lapses is taken again
InputsAreRelocked == Locking!InputsAreRelocked
=============================================================================
