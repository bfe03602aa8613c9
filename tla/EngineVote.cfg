SPECIFICATION FairSpec
CONSTANTS
  Flow <- VoteFlow
  Props <- VoteProps
  User = {"u1", "u2", "u3"}
  Initiator = "u1"
  Privileged = {}
  NoUser = "-"
  Submits = {"agree", "disagree"}
  NextOps <- Nothing
  SignOps <- Signers
  JumpTargets = {}
  Commands = {"execute", "rollback", "return", "withdraw"}
  Transactional = TRUE
  MaxTask = 9
  Burst = 3
INVARIANTS
  NoZombie
  MembersAsked
  MembersInOrder
  SignersReleaseOnce
PROPERTIES
  CommandEnds
CHECK_DEADLOCK FALSE
