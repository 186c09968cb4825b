SPECIFICATION FairSpec
CONSTANTS
  W = 4
  Fix = 0
  Sig = 1
  Csum = 2
  Macs = {"pch", "spt"}
  Sectors = 1
  Repeat = 2
  UserWords = {0, 2, 3}
  Data = {1, 2}
  Faults = {"read", "write", "erase"}
INVARIANTS SomeBankValid ImageDurable ReadsAreCurrent
PROPERTIES ImplementsStore ReadersProceed
