SPECIFICATION Spec
CONSTANTS
  p = p
  q = q
  Pages = {p}
  MaxPreview = 2
  MaxCalls = 2
  MaxUpsets = 1
INVARIANT NotRunIsNotRun
PROPERTIES CallsSettle DrivesEnd
CHECK_DEADLOCK FALSE
