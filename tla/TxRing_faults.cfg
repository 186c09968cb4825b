SPECIFICATION Spec
CONSTANTS
  Count = 8
  WakeThreshold = 6
  StopNeed = 6
  Shapes <- MCFaulty
  Skbs = {s1, s2}
  NoSkb = NoSkb
  FramesMayFail = TRUE
  ArbiterWA = TRUE
  DmaBurst = FALSE
  SlowFrames = TRUE
  XmitMore = FALSE
  RxNeedsRestart = TRUE
  MaxLinkLoss = 1
  MaxFrames = 2
SYMMETRY MCSymmetry
INVARIANTS SkbOwnership
CHECK_DEADLOCK FALSE
