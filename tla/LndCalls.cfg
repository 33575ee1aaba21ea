CONSTANTS
  Peers = {p, q}
  Peer = p
  Waits = {w}
  Dials = {d}
  Probes = {b}
  MaxSockets = 2
  MaxMoves = 2
  Updates = {u1, u2}
  Fields = {limit, rate}
  Checked = {rate}
  FeeRate = rate
  Values <- MCValues
  Channels = {c1, c2}
  Target = c1
  Elsewhere = e
  Times = 2
  Locktimes = {0, 1, 2, 3}
  ByTime = byTime
  Fuzz = 1
  MaxHeight = 4
  MaxDeposits = 2
  Lnds = {n1, n2}
  Limit = 1
  MaxTime = 2
  MaxRows = 2
  MaxNews = 1
  Edges = {g}
  Keys = {k1, k2}
  Contacts = {k}
  MaxTries = 2
  Blocks = {m}
  Miners = {h1, h2}
SPECIFICATION MCSpec
INVARIANTS
  ConnectionInv
  WatchInv
  BroadcastInv
  AnswersAreWhole
PROPERTIES
  FeeChangeIsKept
  ClosingIsTold
  CallsEnd
\* calls end, channels close for good and the chain stops at its bound
CHECK_DEADLOCK FALSE
