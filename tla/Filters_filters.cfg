SPECIFICATION FairFilterSpec
CONSTANTS
  Nvm = Nvm
  Local = Local
  MeAddr = MeAddr
  NoAddr = NoAddr
  NoVid = NoVid
  Permanent = Nvm
  Stations = {Nvm, Local}
  FilterSetups <- MCSetups
INVARIANTS  ReceiverRight
PROPERTIES FiltersSettle
CHECK_DEADLOCK FALSE
