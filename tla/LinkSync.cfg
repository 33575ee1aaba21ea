SPECIFICATION FairSpec
CONSTANTS
  NoRecord = NoRecord
  x = x  y = y  none = none
  Links = {k1}
  Scripts <- EveryScript
  Others = {x, y, none}
  NoFeatures = none
  Tasks = {t1, t2}
  MaxTries = 2
  MaxFaults = 1
  MaxQuiet = 1
INVARIANTS LinkInv TableFollows EventsFollowTheTable PolicyIsOfItsTime
PROPERTY EventuallyFollows
