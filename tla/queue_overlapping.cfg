SPECIFICATION FairSpec
CONSTANTS
  Tasks = {1, 2, 3}
  Null = Null
  Capacity = 4
  Posters = 2
  Senders = 2
  Writers = 4
INVARIANTS TypeOK QueuedIsStored
PROPERTIES KeepsPromise SendEnds
ACTION_CONSTRAINT InOrder
CHECK_DEADLOCK FALSE
