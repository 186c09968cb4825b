SPECIFICATION FairSpec
CONSTANTS
  Count = 6
  WakeThreshold = 4
  StopNeed = 4
  Shapes <- MCSmall
  Skbs = {s1, s2}
  NoSkb = NoSkb
  FramesMayFail = FALSE
  ArbiterWA = FALSE
  DmaBurst = TRUE
  SlowFrames = FALSE
  XmitMore = FALSE
  RxNeedsRestart = FALSE
  MaxLinkLoss = 0
  MaxFrames = 4
PROPERTIES TransmitProceeds
CHECK_DEADLOCK FALSE
