SPECIFICATION FairSpec
CONSTANTS
  r1 = r1  r2 = r2
  copy1 = copy1  copy2 = copy2  ask1 = ask1  ask2 = ask2
  Requests = {r1, r2}
  Cli = {r1, r2}
  Copies = {copy1, copy2}
  Asks = {ask1, ask2}
  Owner <- MCOwner
  None = None
INVARIANTS NoDeadHandler HandlerPinned
PROPERTIES WaitersServed
CHECK_DEADLOCK FALSE
