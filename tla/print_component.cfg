CONSTANTS
  Calls = {t1, t2}
  Procs = {p1, p2, p3, p4, p5, p6}
SPECIFICATION Spec
INVARIANTS TypeOK LaunchesAreBounded
SYMMETRY Symmetry
