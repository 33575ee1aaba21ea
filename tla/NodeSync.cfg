SPECIFICATION FairSpec
CONSTANTS
  NoRecord = NoRecord
  a = a  b = b  c = c  f = f  k = k
  Nodes = {n1}
  Tasks = {t1, t2}
  Aliases = {a, b, c}
  Features = {f, k}
  Histories <- Flapping
  MaxVersion = 3
  MaxTries = 3
  MaxFaults = 1
  MaxQuiet = 1
INVARIANTS IInv AnnouncedOnce AnnouncedAtRest SyncedAtRest
PROPERTIES NoStaleOverwrite ImplementsReplica EventuallySynced
