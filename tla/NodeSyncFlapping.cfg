SPECIFICATION Spec
CONSTANTS
  NoRecord = NoRecord
  a = a  b = b  c = c  f = f  k = k
  Nodes = {n1}
  Tasks = {t1, t2}
  Aliases = {a, b, c}
  Features = {f, k}
  Histories <- Flapping
  MaxVersion = 3
  MaxTries = 3
  MaxFaults = 0
  MaxQuiet = 0
INVARIANT FollowsTheGraph
