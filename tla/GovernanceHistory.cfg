SPECIFICATION Spec
CHECK_DEADLOCK FALSE
CONSTANTS
  Txns = {t1, t2, t3}
  Records = {r1}
  Values = {u, v}
  Absent = absent
  Genesis = genesis
SYMMETRY LogSymmetry
INVARIANTS
  EntryStartsFromState
