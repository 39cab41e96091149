SPECIFICATION Spec
CHECK_DEADLOCK FALSE
CONSTANTS
  a1 = a1  a2 = a2  t1 = t1  t2 = t2  w1 = w1  w2 = w2  d1 = d1
  s1 = s1  s2 = s2  None = none
  Assemblies = {a1, a2}
  Traits = {t1}
  TraitsOf <- SharedTrait
  Workers = {w1}
  Direct = {d1}
  Servers = {s1}
  ServerOf <- OneServer
  Unscoped = {}
  Scope <- AllScope
  MaxNew = 1
  UnknownLimit = 2
  GateOpen = TRUE
  FaultClasses = {"transient"}
  MaxFaults = 1
  MaxRestarts = 0
  MaxContext = 1
INVARIANTS
  SealedIsBound
  ReceiptMatchesRequest
PROPERTIES
  ImplementsLedger
  ImplementsBreakers
