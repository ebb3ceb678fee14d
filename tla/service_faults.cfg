SPECIFICATION FairSpec
CONSTANTS
  Processes = {p1, p2}
  Hosts = {h1, h2}
  Machines = {{"launch", "kill", "host", "service"},
              {"launch", "kill", "wait", "host", "service"},
              {"snapshot", "launch", "kill", "bind", "host", "service"}}
INVARIANTS TypeOK AtMostOneHost
PROPERTIES StopEnds ServesAgain
