CONSTANTS
  Starts = {a1, a2}
  Loops = {l1, l2}
SPECIFICATION FairSpec
CONSTRAINT UntilRestarted
PROPERTIES StartEnds
CHECK_DEADLOCK FALSE
