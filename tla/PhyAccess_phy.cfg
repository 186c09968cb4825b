SPECIFICATION FairPhySpec
CONSTANTS
  First = First
  Second = Second
  Threads = {First, Second}
  NoThread = none
  LockFamilies = {"ich", "82574", "82571", "80003"}
  Masks = {"phy0", "phy1", "csr"}
  FwActive = TRUE
  Setups <- MCSetups
  MdicErrors = 1
INVARIANTS LocksSafe AccessesRight
PROPERTIES CallsReturn
