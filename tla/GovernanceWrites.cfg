SPECIFICATION Spec
CHECK_DEADLOCK FALSE
CONSTANTS
  Txns = {t1, t2, t3}
  Records = {r1, r2}
  Values = {u, v}
  Absent = absent
  Genesis = genesis
SYMMETRY LogSymmetry
INVARIANTS
  TypeOK
  ChainVerifies
  SnapshotsStayTrue
PROPERTIES
  KeepsLedger
  PreviousStateWasCommitted
