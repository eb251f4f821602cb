SPECIFICATION FairSpec
CONSTANTS
  MaxOpens = 2
  MaxEvents = 3
INVARIANTS NothingLost WholeOrDown
PROPERTIES FailureStopsAll DeadIsSeen
