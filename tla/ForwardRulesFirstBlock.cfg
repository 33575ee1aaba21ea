SPECIFICATION Spec
CONSTANTS
  p = p  q = q  us = us  toP = toP  alsoP = alsoP  toQ = toQ
  Requests = {r1, r2}
  Channels = {toP, alsoP, toQ}
  Us = us
  KeysOf <- MCKeysOf
  Confirmed <- MCConfirmed
  Routes <- MCRoutes
  RuleSets <- RecentBlockRule
  MaxBlocks = 2
  MaxClock = 3
  MaxFaults = 1
PROPERTY TipIsRecent
