SPECIFICATION Spec
CONSTANTS
  Request = {"r1", "r2", "r3", "r4"}
  Branch <- Branches
  Scenes <- ThroughFacade
  Nobody = "-"
INVARIANTS
  JoinReleasesOnce
CHECK_DEADLOCK FALSE
