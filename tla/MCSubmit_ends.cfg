CONSTANTS
  Submitters = {s1}
  s1 = s1
  RunIds <- MCRunIds2
  NULL = NULL
  GH_API_MAX_RETRIES = 1
  FIND_POLLS = 1
  WAIT_POLLS = 2
  PAGE = 2
  GitHubs <- MCGitHubs
  Faults = {"upload", "lost", "rejected", "api", "garbled", "hang", "workflow"}
SPECIFICATION FairSpec
INVARIANTS
  TypeOK
  SuccessIsTested
PROPERTIES
  SubmissionEnds
CHECK_DEADLOCK FALSE
