SPECIFICATION FairSpec
CONSTANTS
  OpsSets = {{"open", "close", "reinit", "badset", "test", "freeze", "rsuspend"},
             {"open", "reinit", "mtu", "rings", "timeout"}}
  Faults = {"alloc", "sleep"}
  HasAMT = FALSE
  NoDisableRx = TRUE
INVARIANTS StateIsTrue ResetsExclusive ResourcesOwned
PROPERTIES CallsEnd
