SPECIFICATION MCSpec
CONSTANTS
  home = home  away = away
  m1 = m1  m2 = m2  m3 = m3  n1 = n1
  q1 = q1  q2 = q2  s1 = s1  yes = yes  no = no
  r1 = r1  r2 = r2  w1 = w1  w2 = w2  w3 = w3
  Chats = {home, away}
  Messages = {m1, m2, m3, n1}
  Chat <- MCChat
  Kind <- MCKind
  Questions = {q1, q2}
  Asker <- MCAsker
  Approvals = {s1}
  Presses = {yes, no}
  Button <- MCButton
  None = None
  Requests = {r1, r2}
  Waits = {w1, w2, w3}
  IsApproval <- MCIsApproval
  AskedBy <- MCAskedBy
  Models = 1
  MaxModels = 2
  MaxEvents = 2
  MaxStream = 1
  Nobody = Nobody
INVARIANTS QuestionsKept OneAtATime OnePressDecides WaitersOnScreen
PROPERTIES MessagesAreHandled SpinnerIsTrue
CHECK_DEADLOCK FALSE
