SPECIFICATION FairSpec
CONSTANTS
  Count = 5
  Write = 2
  Weight = 2
  Setups <- MCSetups
  MapFails = {"legacy"}
  MeLosses = {"noticed"}
  Opens = FALSE
  EccErrors = TRUE
  MaxParts = 2
  MaxFails = 1
  Ids = 2
INVARIANTS TypeOK RxOrder AdapterOwnsBuffers FrameIsAnnounced
PROPERTIES ImplementsStream BuffersReturn
