SPECIFICATION Spec
CONSTANTS
  c1 = c1
  c2 = c2
  Client = {c1, c2}
  Person = {"u1", "u2"}
  Of <- Spelled
  Lists <- Submitted
  Listeners <- Three
  Boss = "u2"
  Stores = {"memory", "jdbc"}
SYMMETRY Symmetric
INVARIANTS
  AsCopied
PROPERTIES
  LegsSeeCopies
  ReadStays
CHECK_DEADLOCK FALSE
