SPECIFICATION Spec
CHECK_DEADLOCK FALSE
CONSTANTS
  a1 = a1  a2 = a2  t1 = t1  t2 = t2  w1 = w1  w2 = w2  d1 = d1
  s1 = s1  s2 = s2  None = none
  Assemblies = {a1}
  Traits = {t1, t2}
  TraitsOf <- OneAssembly
  Workers = {w1}
  Direct = {}
  Servers = {s1}
  ServerOf <- OneServer
  Unscoped = {w1}
  Scope <- NoScope
  MaxNew = 1
  UnknownLimit = 2
  GateOpen = FALSE
  FaultClasses = {}
  MaxFaults = 1
  MaxRestarts = 1
  MaxContext = 0
INVARIANT
  StaysRetryable
