SPECIFICATION Spec
CONSTANTS
  Starts = {s1, s2}
  MaxAttempts = 2
  MaxSpawns = 4
  MaxStops = 2
  None = None
INVARIANT StopCloses
PROPERTY StartsAnswered
CHECK_DEADLOCK FALSE
