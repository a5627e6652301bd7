SPECIFICATION Spec
CONSTANTS
  p = p
  q = q
  Pages = {p}
  MaxPreview = 2
  MaxCalls = 2
  MaxUpsets = 2
PROPERTY OnlyItsOwnPages
CHECK_DEADLOCK FALSE
