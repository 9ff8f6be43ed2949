SPECIFICATION FairSpec
CONSTANTS
  Targets = {"field"}
  NoTarget = "none"
  Editable = {"field"}
  Buttons = {b1}
  MaxCommands = 2
  MaxStops = 3
  Limit = 2
  MaxEvents = 3
  MaxRecordings = 2
  Spots = {"a", "b"}
  MaxClicks = 2
INVARIANTS
  LeaseOutlivesListeners
  RemovedOnce
  StoppedIsQuiet
  PublishedAsAccepted
  PublishedAsHeard
  ReleasesRecorded
PROPERTIES
  IsChannel
  CallsReturn
  StopIsFinal
CHECK_DEADLOCK FALSE
