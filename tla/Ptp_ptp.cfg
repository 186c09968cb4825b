SPECIFICATION FairPtpSpec
CONSTANTS
  PtpSetups <- MCSetups
  FrameCount = 3
  ArrivalCount = 3
INVARIANTS StampsSound SettingsKept ClockTrue
PROPERTIES StampsServed
CHECK_DEADLOCK FALSE
