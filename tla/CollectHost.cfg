SPECIFICATION CollectSpec
CONSTANTS
  Flow <- AskFlow
  Props <- AskProps
  User = {"u1", "u2", "u3"}
  Initiator = "u1"
  Privileged = {}
  NoUser = "-"
  Submits = {"agree"}
  NextOps <- Nothing
  SignOps <- Signers
  JumpTargets = {}
  Commands = {"execute", "reject", "rollback", "return", "withdraw"}
  Transactional = FALSE
  MaxTask = 9
  Burst = 2
INVARIANTS
  CollectTypeOK
  HostDecides
  MembersSound
  OneHostPerBranch
  LedgerSound
CHECK_DEADLOCK FALSE
