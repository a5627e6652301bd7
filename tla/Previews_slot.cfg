SPECIFICATION Spec
CONSTANTS
  l1 = l1
  l2 = l2
  sess = sess
  Slots = {1}
  Sessions = {sess}
  Leases = {l1, l2}
  Owner <- MCOwner
  MaxGens = 2
  MaxFaults = 2
  None = None
INVARIANTS HeldIsOwned RunningIsAlive FreeIsIdle
PROPERTY RecordsSettle
CHECK_DEADLOCK FALSE
