SPECIFICATION Spec
CHECK_DEADLOCK FALSE
CONSTANTS
  Docs = {d1, d2}
  Bytes = {x, y}
  Params = {p1}
  Execs = {e1, e2}
  MaxVersion = 3
  MaxFaults = 1
  None = none
SYMMETRY SpineSymmetry
INVARIANTS
  TypeOK
  RunsDoNotInterleave
  CompletedReflectsEvidence
PROPERTIES
  KeepsPromise
