SPECIFICATION Spec
CONSTANTS
  c1 = c1
  Client = {c1}
  Person = {"u1", "u2"}
  Of <- Spelled
  Lists <- OnePerson
  Listeners <- Forwarding
  Boss = "u2"
  Stores = {"jdbc"}
INVARIANTS
  EveryLegRuns
CHECK_DEADLOCK FALSE
