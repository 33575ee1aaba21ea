SPECIFICATION Spec
CONSTANTS
  NoRecord = NoRecord
  Htlcs = {h1}
  Scripts <- Payments
  Unset = Unset
  Tasks = {t1, t2}
  MaxTries = 3
  MaxFaults = 0
  MaxRepeats = 0
INVARIANT ResolvedAtRest
