SPECIFICATION FairSpec
CONSTANTS
  setup = setup  study = study  slack = slack  report = report  fetch = fetch  mail = mail
  old = old
  Nodes = {setup, study, slack, report, fetch, mail}
  Plans <- MCPlans
  Kind <- MCKind
  MaxRetries <- MCMaxRetries
  Replies <- MCReplies
  MaxIterations = 2
  Known = {old}
INVARIANTS InstalledMeansGranted 
PROPERTIES PlanRuns WorkflowEnds
CHECK_DEADLOCK FALSE
