SPECIFICATION FairSpec
CHECK_DEADLOCK FALSE
CONSTANTS
  Docs = {d1}
  Bytes = {x}
  Params = {p1}
  Execs = {e1, e2}
  MaxVersion = 3
  MaxFaults = 1
  None = none
PROPERTIES
  ExecutionsSettle
  LeaseIsFreed
