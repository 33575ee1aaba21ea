SPECIFICATION FairSpec
CONSTANTS
  NoRecord = NoRecord
  Htlcs = {h1}
  Scripts <- EveryScript
  Unset = Unset
  Tasks = {t1, t2, t3}
  MaxTries = 3
  MaxFaults = 1
  MaxRepeats = 2
INVARIANTS HtlcInv ReportedWhenSerial
PROPERTY EventuallyRecorded
