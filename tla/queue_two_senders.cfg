SPECIFICATION Spec
CONSTANTS
  Tasks = {k1, k2, k3}
  Null = Null
  Capacity = 4
  Posters = 1
  Senders = 2
  Writers = 1
SYMMETRY Symmetric
INVARIANTS ListIsPending
CHECK_DEADLOCK FALSE
