SPECIFICATION Spec
CONSTANTS
  rCli = rCli  rTg = rTg  rTg2 = rTg2
  cli = cli  daemon = daemon
  Requests = {rTg, rTg2}
  Procs = {daemon}
  HomeOf <- DaemonHome
  Streaming = {}
  Abortable = {}
  Capacity = 2
  MaxCrashes = 0
  MaxFailures = 0
PROPERTY EveryMessageAnswered
CHECK_DEADLOCK FALSE
