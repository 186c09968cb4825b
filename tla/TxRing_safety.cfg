SPECIFICATION Spec
CONSTANTS
  Count = 7
  WakeThreshold = 5
  StopNeed = 5
  Shapes <- MCShapes
  Skbs = {s1, s2}
  NoSkb = NoSkb
  FramesMayFail = FALSE
  ArbiterWA = FALSE
  DmaBurst = TRUE
  SlowFrames = FALSE
  XmitMore = TRUE
  RxNeedsRestart = FALSE
  MaxLinkLoss = 1
  MaxFrames = 4
SYMMETRY MCSymmetry
INVARIANTS RingOrder TailKeepsGap SkbsAccounted AdapterReadsLiveFrames LastFrameTails
 
CHECK_DEADLOCK FALSE
