SPECIFICATION Spec
CONSTANTS
  Peers = {p, q}
  MaxTurns = 3
  MaxAuthors = 2
  Admitted <- MCAdmitted
SYMMETRY Symmetry
INVARIANTS PlanHolds ApprovedRunsFree UnattendedIsMeant DriverKnown ThinkingEnds
CHECK_DEADLOCK FALSE
