SPECIFICATION FairLinkSpec
CONSTANTS
  LinkSetups <- MCSetups
INVARIANTS LinkKnown 
PROPERTIES LinkSettles
CHECK_DEADLOCK FALSE
