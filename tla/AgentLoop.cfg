SPECIFICATION FairSpec
CONSTANTS
  shell = shell  code = code  write = write  question = question
  Runs = {u1, u2}
  Keys = {shell, code, write, question}
  Gate <- MCGate
  Questions = {question}
  Replies <- MCReplies
  MaxIterations = 2
  MaxReviews = 1
  MaxTroubles = 2
  MaxDepth = 1
INVARIANTS PromptWellFormed OnlyAllowedExecuted UserKept
PROPERTIES RunEnds
CHECK_DEADLOCK FALSE
