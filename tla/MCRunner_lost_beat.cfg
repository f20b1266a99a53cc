CONSTANTS
  Clients = {c1}
  c1 = c1
  Boards = {b1}
  b1 = b1
  NULL = NULL
  STALE = 1
  HeartbeatColumn = TRUE
  Options <- MCSaving
  BEAT_EVERY = 1
  BEAT_BY = 1
  CLAIM_TRIES = 2
  MAX_RETRIES = 0
  HeartbeatEnabled = TRUE
  Faults = {"beat"}
  Admin = FALSE
SPECIFICATION Spec
INVARIANTS
  AllocatedNeverStale
