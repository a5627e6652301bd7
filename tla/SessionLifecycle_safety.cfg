SPECIFICATION Spec
CONSTANTS
  i1 = i1
  i2 = i2
  i3 = i3
  o1 = o1
  o2 = o2
  Ids = {i1, i2, i3}
  Objs = {o1, o2}
  None = None
  MaxSessions = 1
  MaxCrashes = 1
  Races = {}
SYMMETRY Symmetry
CONSTRAINT Lean
INVARIANTS
  NoOrphanChild
  TurnHasChild
  NeverDeaf
  AliasesFlat
  CapOnChildren
  WorkspaceOwned
PROPERTIES
  CheckpointAgrees
  BurnNeverRests
  SessionsAreKept
  NamesLast
