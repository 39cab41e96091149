SPECIFICATION FairSpec
CHECK_DEADLOCK FALSE
CONSTANTS
  Bills = {b}
  Procs = {p, q}
  ArchiveOnly = {q}
  Slots = {1, 2}
  Concurrency = 2
  UnknownLimit = 2
  MaxVersion = 2
  MaxFaults = 2
  None = none
  Gone = gone
INVARIANTS
  TypeOK
  GivenUpForCause
  DetailIsFresh
PROPERTIES
  SettledIsFinal
  ImplementsLedger
  CurrentSettles
