CONSTANTS
  Clients = {c1, c2, s1}
  c1 = c1
  c2 = c2
  s1 = s1
  Skipping = {s1}
  NULL = NULL
  MAX_FILES = 2
  InitialLimit = 3
  AdminLimits = {0, 2}
  AdminUsages = {}
  Faults = {"crash", "database"}
SPECIFICATION FairSpec
INVARIANTS
  TypeOK
  RunsArePaid
  TicketsDiffer
PROPERTIES
  NeverOverrun
  ImplementsAccount
  EverybodyFinishes
CHECK_DEADLOCK FALSE
