SPECIFICATION Spec
CONSTANTS
  Clients = {c1, c2}
  Calls = {t1}
  Objs = {o1, o2}
  Msgs = {m1, m2}
  Null = Null
  Races = TRUE
  MAX_LIMIT_TIME = 2
  MAX_OUT_TIME = 1
  Interval = 2
SYMMETRY Symmetric
PROPERTIES DestroysOnlyUnanswered
