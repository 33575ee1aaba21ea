SPECIFICATION FairSpec
CONSTANTS
  p = p  q = q  us = us  toP = toP  alsoP = alsoP  toQ = toQ
  Requests = {r1, r2}
  Channels = {toP, alsoP, toQ}
  Us = us
  KeysOf <- MCKeysOf
  Confirmed <- MCConfirmed
  Routes <- MCRoutes
  RuleSets <- MCRuleSets
  MaxBlocks = 2
  MaxClock = 3
  MaxFaults = 1
INVARIANTS RulesInv ListsAreKept YoungChannelsWait LimitHolds
PROPERTIES AnswersStand EachIsAnswered
