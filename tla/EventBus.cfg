SPECIFICATION BusSpec
CONSTANTS
  e1 = e1  e2 = e2
  sA = sA  sB = sB
  Events = {e1, e2}
  Streams = {sA, sB}
  StreamOf <- MCStreamOf
  Publishers = {p1, p2}
  Subscribers = {r1, r2}
  Capacity = 1
INVARIANTS NoSilentLoss RealTimeOrder
PROPERTIES PublishReturns
CHECK_DEADLOCK FALSE
