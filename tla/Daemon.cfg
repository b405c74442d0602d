SPECIFICATION MCSpec
CONSTANTS
  first = first
  second = second
  Entries = {first, second}
  Once = {first}
  At <- MCAt
  Tools = {t1}
  MaxTime = 1
  Commands = {shell}
  SubAgents = {agent}
  p1 = p1
  a = a
  Pids = {p1, p2}
  Cmds = {a, b}
  MaxEdits = 2
  None = None
  Torn = Torn
  Absent = Absent
INVARIANTS EntriesSurvive DaemonIsTracked BinaryWhole
PROPERTIES TasksSettle ChangesPushed
CHECK_DEADLOCK FALSE
