SPECIFICATION Spec
CONSTANTS
  Clients = {c1, c2}
  Calls = {t1, t2}
  Objs = {o1, o2}
  Msgs = {m1, m2}
  Null = Null
  Races = FALSE
  MAX_LIMIT_TIME = 1
  MAX_OUT_TIME = 1
  Interval = 1
SYMMETRY Symmetric
INVARIANTS MarkedIsRecoverable LeakIsBounded
PROPERTIES PromptPagesAreSpared
CONSTRAINT PagesStay
