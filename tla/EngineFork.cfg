SPECIFICATION Spec
CONSTANTS
  Flow <- ForkFlow
  Props <- ForkProps
  User = {"u1"}
  Initiator = "u1"
  Privileged = {}
  NoUser = "-"
  Submits = {"agree"}
  NextOps <- Nothing
  SignOps <- Nothing
  JumpTargets = {}
  Commands = {"execute", "reject", "rollback", "return", "withdraw"}
  Transactional = FALSE
  MaxTask = 12
  Burst = 2
INVARIANTS
  TypeOK
  ScopeSound
  JoinOnce
  JoinComplete
  AllBranchesCounted
  OneTokenPerBranch
  EndIsClean
CHECK_DEADLOCK FALSE
