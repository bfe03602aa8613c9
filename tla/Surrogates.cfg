SPECIFICATION Spec
CONSTANTS
  e1 = e1
  e2 = e2
  Editor = {e1, e2}
  Form = {"", "user1", "u2", " u2 ", "u3"}
  Of <- Spelled
  Process = {"p"}
  Submission <- Asked
  Base <- Participants
  Stores = {"memory", "jdbc"}
  MaxTime = 1
  MaxRow = 3
  MaxEdit = 3
SYMMETRY Symmetric
INVARIANTS
  OnlyDelegates
  DelegatesJoin
  RemovedStays
CHECK_DEADLOCK FALSE
