SPECIFICATION MCSpec
CONSTANTS
  Chats = {c1, c2}
  Calls = {k1, k2}
  Keyed = {anthropic}
  OAuth = {chatgpt}
  Free = {env, local}
  Env = env
  MaxTokens = 3
  NoModel = NoModel
  Torn = Torn
  Absent = Absent
  MaxDepth = 3
  Patterns = {"ls", "echo"}
  MaxChanges = 3
  Cases <- MCCases
  Jobs = {j1, j2}
  Runs = {1, 2, 3}
  MaxCalls = 2
  KeepRecent = 2
  Threshold = 5
  MaxUpsets = 1
  Answers <- MCAnswers
  Pieces <- MCPieces
  Wide <- MCWide
  Damaged = "damaged"
  Users = {u1, u2}
  Servers = {s1, s2}
  Offers <- MCOffers
INVARIANTS SystemPromptSent
SYMMETRY MCSymmetry
CHECK_DEADLOCK FALSE
