SPECIFICATION Spec
CONSTANTS
  OpsSets = {{"open", "close", "reinit", "error", "remove"}}
  Faults = {"alloc", "irq"}
  HasAMT = TRUE
  NoDisableRx = FALSE
INVARIANTS OpenIsUp
CHECK_DEADLOCK FALSE
