SPECIFICATION Spec
CONSTANTS
  Flow <- BrokenFlow
  Props <- BrokenProps
  User = {"u1", "u2"}
  Initiator = "u1"
  Privileged = {}
  NoUser = "-"
  Submits = {"agree"}
  NextOps <- Nothing
  SignOps <- Nothing
  JumpTargets = {"b"}
  Commands = {"execute", "return", "rollback", "jump", "recall"}
  Transactional = FALSE
  MaxTask = 7
  Burst = 2
INVARIANTS
  LineageSound
  RecallUndoes
PROPERTIES
  SettledRowsStay
CHECK_DEADLOCK FALSE
