SPECIFICATION StoreSpec
CONSTANTS
  e1 = e1  e2 = e2  e3 = e3  e4 = e4
  sA = sA  sB = sB
  t1 = t1  t2 = t2  t3 = t3
  zymi1 = zymi1
  NoTask = NoTask
  Events = {e1, e2, e3, e4}
  Streams = {sA, sB}
  Tasks = {t1, t2, t3}
  Processes = {zymi1}
  StreamOf <- MCStreamOf
  ProcessOf <- MCOneProcess
INVARIANTS SequenceIncreases ChainVerifies
PROPERTIES ImplementsLog
CHECK_DEADLOCK FALSE
