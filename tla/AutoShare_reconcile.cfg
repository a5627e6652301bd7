SPECIFICATION ShareSpec
CONSTANTS
  Slots = {1}
  MaxSpawns = 2
  MaxPreviews = 2
  MaxTries = 2
  MaxEvents = 5
  MaxFaults = 2
  None = None
INVARIANTS TunnelsKnown Reclaimed
PROPERTY BecomesShared
CHECK_DEADLOCK FALSE
