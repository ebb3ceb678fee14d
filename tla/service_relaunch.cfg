SPECIFICATION Spec
CONSTANTS
  Processes = {p1, p2}
  Hosts = {h1, h2}
  Machines = {{}}
SYMMETRY Symmetric
INVARIANTS HostDiesWithService
