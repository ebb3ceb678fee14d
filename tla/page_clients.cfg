CONSTANTS
  Clients = {c1, c2}
  Starts = {a1, a2}
  MaxCalls = 4
  MaxInbox = 3
SPECIFICATION FairSpec
ACTION_CONSTRAINTS InOrder OneByOne
INVARIANTS TypeOK OneHandler NoCallWaits 
PROPERTIES QueryIsAnswered
CHECK_DEADLOCK FALSE
