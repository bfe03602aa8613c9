SPECIFICATION Spec
CONSTANTS
  c1 = c1
  c2 = c2
  Client = {c1, c2}
  Content = {"leave form", "travel form"}
  NameOf <- Carries
  Stores = {"memory", "jdbc"}
  Mixes <- Handlers
  MaxDefine = 2
  MaxDesign = 1
  MaxHis = 2
SYMMETRY Symmetric
INVARIANTS
  DeployedIsPublished
  LatestAgrees
PROPERTIES
  UsedIsKept
  StateByUpAndDown
CHECK_DEADLOCK FALSE
