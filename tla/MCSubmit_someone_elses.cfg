CONSTANTS
  Submitters = {s1, s2}
  s1 = s1
  s2 = s2
  RunIds <- MCRunIds2
  NULL = NULL
  GH_API_MAX_RETRIES = 1
  FIND_POLLS = 1
  WAIT_POLLS = 1
  PAGE = 2
  GitHubs <- MCNoIds
  Faults = {}
SPECIFICATION Spec
INVARIANTS
  FindsDispatchedRun
CHECK_DEADLOCK FALSE
