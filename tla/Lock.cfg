SPECIFICATION FairSpec
CONSTANTS
  Request = {"r1", "r2", "r3", "r4"}
  Branch <- Branches
  Scenes <- AllScenes
  Nobody = "-"
INVARIANTS
  JoinSound
  HandledOnce
PROPERTIES
  SettledRowsStay
  RequestsEnd
CHECK_DEADLOCK FALSE
