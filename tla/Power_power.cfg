SPECIFICATION FairPowerSpec
CONSTANTS
  Adapters <- MCAdapters
  Wols <- MCWols
  MaxFaults = 1
INVARIANTS AwakeRight ArmedRight
PROPERTIES CableWakes
CHECK_DEADLOCK FALSE
