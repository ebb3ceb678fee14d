CONSTANTS
  Starts = {a1, a2}
  Loops = {l1, l2}
SPECIFICATION Spec
CONSTRAINT OneCallAfterRestart
INVARIANTS TypeOK ReconnectIsTimed ConnectingIsCarried UpIsWatched
PROPERTIES DoneMeansStarted ImplementsConnection
CHECK_DEADLOCK FALSE
