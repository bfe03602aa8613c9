SPECIFICATION Spec
CONSTANTS
  c1 = c1
  c2 = c2
  Client = {c1, c2}
  Task = {"t1", "t2"}
  User = {"u1", "u2"}
  Privileged = {}
  Form = {"u1", "u2", " u1 ", ""}
  Of <- Spelled
  Initial <- Rows0
  Stores = {"memory", "jdbc"}
  MaxHops = 1
SYMMETRY Symmetric
CONSTRAINT OvertakenWritesFirst
INVARIANTS
  OneRowEach
PROPERTIES
  Implements
  LedgerGrows
CHECK_DEADLOCK FALSE
