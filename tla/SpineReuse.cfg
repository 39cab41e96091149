SPECIFICATION Spec
CHECK_DEADLOCK FALSE
CONSTANTS
  Docs = {d1, d2}
  Bytes = {x, y}
  Params = {p1}
  Execs = {e1, e2, e3}
  MaxVersion = 5
  MaxFaults = 0
  None = none
SYMMETRY SpineSymmetry
INVARIANTS
  ProjectionIsOfEvidence
