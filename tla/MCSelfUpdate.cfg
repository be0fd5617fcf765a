SPECIFICATION UpdateSpec
CONSTANTS
  Build = {1, 2, 3}
  Sound = {1, 3}
  First = 1
  Process = {p1, p2, p3}
  Update = {u1, u2}
  None = None
CHECK_DEADLOCK FALSE
SYMMETRY Symmetry
INVARIANTS UpdateTypeOK CanComeBack
