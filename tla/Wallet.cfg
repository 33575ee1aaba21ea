CONSTANTS
  u1 = u1
  u2 = u2
  Utxos = {u1, u2}
  Worth <- MCWorth
  MaxCalls = 2
  Keeper = keeper
  Nobody = nobody
  Amounts = {2}
  Fee = 1
  Dust = 1
  Adjustment = 1
  RefundFees = {1, 3}
  Rates = {0, 1, 9}
  SlowRate = 1
  FastRate = 2
  Multiplier = 2
  LeaseTime = 1
  c1 = c1
  c2 = c2
  c3 = c3
  c4 = c4
  c5 = c5
  c6 = c6
  c7 = c7
  c8 = c8
  old = old
  pay = pay
  bump = bump
  split = split
  deposit = deposit
  fund = fund
  sweep = sweep
  k1 = k1
  k2 = k2
  open = open
  closeA = closeA
  closeB = closeB
  claim = claim
  claimed = claimed
  other = other
  CoinWorth <- MCCoinWorth
  Spent <- MCSpent
  Created <- MCCreated
  Scenes <- MCScenes
  Coins = {c1, c2, c3, c4, c5, c6, c7, c8}
  Txs = {old, pay, bump, split, deposit, fund, sweep}
  Funding = fund
  Sweep = sweep
  Mined = {old}
  Local = 4
  CommitFee = 1
  Anchor = 1
  Htlc = 1
  Unknown = unknown
  Channels = {k1, k2}
  ChainTxs = {open, closeA, closeB, claim, claimed, other}
  Fund = open
  Vout <- MCVout
  CloseTx <- MCCloseTx
  Inputs <- MCInputs
  Resolves <- MCResolves
  Owed = {k1}
  Kinds <- MCKinds
  Wallet <- MCWallets
  NoTx = nothing
  e1 = e1
  e2 = e2
  e3 = e3
  p1 = p1
  p2 = p2
  Edges = {e1, e2, e3}
  PeerOf <- MCPeerOf
  Capacity = 1
  Pays = {x}
  Offline = {e2}
  Asked <- MCAsked
  NoRate = unknown
  Maximums = {1}
SPECIFICATION MCSpec
INVARIANTS
  FundingInv
  AllIsCounted
  AnswersAreTrue
PROPERTIES
  InputsAreRelocked
\* calls end, transactions are confirmed and channels are closed for good
CHECK_DEADLOCK FALSE
