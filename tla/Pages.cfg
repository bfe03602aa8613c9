SPECIFICATION Spec
CONSTANTS
  Id = {1, 2, 3}
  User = {"user1", "u2"}
  Record <- SomeRows
  Condition <- Asked
  PageSize = {0, 2}
  Stores = {"memory", "jdbc"}
  Lists = {"define", "design", "instance", "todo", "done", "cc", "surrogate"}
INVARIANTS
  OwnRowsOnly
  EachRowOnce
  SameAnswer
CHECK_DEADLOCK FALSE
