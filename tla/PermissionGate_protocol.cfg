SPECIFICATION FairSpec
CONSTANTS
  Ids = {i, j}
  MaxAsks = 2
  Calls <- MCCalls
  Races = {"reuse"}
INVARIANT RulingReaches
PROPERTIES Implements LeftNeverRuns AsksEnd
CHECK_DEADLOCK FALSE
