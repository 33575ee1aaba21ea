SPECIFICATION Spec
CONSTANTS
  NoRecord = NoRecord
  c1 = c1  n1 = n1  n2 = n2
  Channels = {c1}
  Nodes = {n1, n2}
  Ends <- BothEnds
  Obscure = {n2}
  Tasks = {t1, t2, t3}
  MaxTries = 3
  MaxFaults = 0
  MaxEvents = 3
INVARIANT ClosedIsMarked
