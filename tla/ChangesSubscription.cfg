SPECIFICATION FairSpec
CONSTANTS
  MaxGenerations = 4
  MaxEvents = 2
INVARIANTS LoopsAreConserved ServedUnlessRestarting DuplicatesAreCounted
PROPERTY SubscribedAgain
