SPECIFICATION FairSpec
CONSTANTS
  i1 = i1
  i2 = i2
  o1 = o1
  o2 = o2
  Ids = {i1, i2}
  Objs = {o1, o2}
  None = None
  MaxSessions = 1
  MaxCrashes = 1
  Races = {"exited"}
CONSTRAINT OneSession
PROPERTIES
  BurnFinishes
