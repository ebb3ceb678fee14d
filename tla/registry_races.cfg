SPECIFICATION Spec
CONSTANTS
  Clients = {c1, c2}
  Calls = {t1, t2}
  Objs = {o1, o2}
  Msgs = {m1}
  Null = Null
  Races = TRUE
  MAX_LIMIT_TIME = 1
  MAX_OUT_TIME = 1
  Interval = 1
SYMMETRY Symmetric
INVARIANTS TypeOK RecycledOnlyInWindow
PROPERTIES RegistrationIsStable
CONSTRAINTS PagesStay IsIntact
