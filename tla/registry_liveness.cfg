SPECIFICATION FairSpec
CONSTANTS
  Clients = {c1, c2}
  Calls = {t1}
  Objs = {1, 2, 3}
  Msgs = {1, 2}
  Null = Null
  Races = FALSE
  MAX_LIMIT_TIME = 1
  MAX_OUT_TIME = 1
  Interval = 1
PROPERTIES AbandonedEntryIsRemoved
ACTION_CONSTRAINT InOrder
CONSTRAINT OneLeaves
