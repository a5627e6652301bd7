SPECIFICATION FairSpec
CONSTANTS
  Events = {a, b, p}
  Prompts = {p}
  Notices = {n}
  MaxStops = 2
  Races = {}
INVARIANT StoredOnce
PROPERTIES Arrives KeepsOrder
CHECK_DEADLOCK FALSE
