SPECIFICATION Spec
CONSTANTS
  rCli = rCli  rTg = rTg  rTg2 = rTg2
  cli = cli  daemon = daemon
  Requests = {rTg, rTg2}
  Procs = {daemon}
  HomeOf <- DaemonHome
  Streaming = {}
  Abortable = {}
  Capacity = 1
  MaxCrashes = 1
  MaxFailures = 1
INVARIANTS OwnAnswer
PROPERTIES PickedIsAnswered
CHECK_DEADLOCK FALSE
