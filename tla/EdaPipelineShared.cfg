SPECIFICATION Spec
CONSTANTS
  rCli = rCli  rTg = rTg  rTg2 = rTg2
  cli = cli  daemon = daemon
  Requests = {rCli, rTg}
  Procs = {cli, daemon}
  HomeOf <- SharedHome
  Streaming = {rCli}
  Abortable = {rCli}
  Capacity = 1
  MaxCrashes = 1
  MaxFailures = 0
INVARIANTS OneStream NoSecondAnswer
CHECK_DEADLOCK FALSE
