CONSTANTS
  None = None
  Points = {p1, p2}
  RecoveryStable = 2
  BlindLanding = FALSE
SPECIFICATION Spec
SYMMETRY Symmetry
INVARIANTS
  FirstMoveNeedsPosition
  AdmissionSafe
  FaultNeverIgnored
