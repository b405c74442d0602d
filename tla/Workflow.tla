------------------------------- MODULE Workflow -------------------------------
(***************************************************************************)
(* One call of WorkflowEngine::process (workflow/mod.rs): assess the       *)
(* request, plan, build the graph (workflow/dag.rs), have the plan         *)
(* approved, execute it level by level with one task per node and retries  *)
(* (workflow/executor.rs), and answer from the results.  Nodes of a level  *)
(* run in parallel on the runtime's threads; a ConnectMcp node reads,      *)
(* truncates and writes mcp.json with std::fs, so these are separate       *)
(* steps.  The model fails, tools fail or panic, humans refuse, a write    *)
(* runs out of disk, a read fails.  What a tool does besides mcp.json is    *)
(* left out.                                                               *)
(***************************************************************************)
EXTENDS Naturals, Sequences, FiniteSets, Functions

CONSTANTS Nodes,          \* node ids
          Plans,          \* what the planner may return: nodes, edges, and the
                          \* edges of them that are of kind Order
          Kind,           \* Kind[n]: how execute_node_traced() runs node n
          MaxRetries,     \* max_retries of each node
          Replies,        \* the tool calls one reply of the model may hold
          MaxIterations,  \* NODE_MAX_ITERATIONS (10 in the code)
          Known           \* servers in mcp.json at the start

Kinds == {"agent", "direct", "install", "package", "url"}

ASSUME WorkflowAssumption ==
  /\ Plans \subseteq [nodes : Seq(Nodes), edges : SUBSET (Nodes \X Nodes),
                      order : SUBSET (Nodes \X Nodes)]
  /\ \A p \in Plans : p.order \subseteq p.edges
  /\ Kind \in [Nodes -> Kinds]
  /\ MaxRetries \in [Nodes -> 0 .. 3]
  /\ Replies \subseteq Seq({"free", "guarded"}) \ {<<>>}
  /\ MaxIterations \in Nat
  /\ Known \cap Nodes = {}

VARIABLES
  phase,     \* where process() is
  dag,       \* the validated plan: nodes, edges, those of kind Order, and the
             \* level of each node
  begun,     \* levels begun so far
  results,   \* results[n]: the executor's result of n, "none" while it has none
  task,      \* task[n]: the task of node n, and its local variables
  config,    \* the servers mcp.json holds (none in a file that does not parse)
  forgotten  \* history: servers a failed read or write, or an overlapping
             \* node, may have dropped from mcp.json

vars == <<phase, dag, begun, results, task, config, forgotten>>
executor == <<begun, results, task, config, forgotten>>

-----------------------------------------------------------------------------
(* workflow/dag.rs.  execution_levels() puts a node one level below the    *)
(* deepest of its dependencies; a graph with a cycle has no such levels.   *)
Ids(p) == Range(p.nodes)

IsLevelling(p, f) ==
  \A n \in Ids(p) :
    /\ \A d \in Ids(p) : <<d, n>> \in p.edges => f[d] < f[n]
    /\ f[n] # 0 => \E d \in Ids(p) : <<d, n>> \in p.edges /\ f[n] = f[d] + 1

Levels(p) == { f \in [Ids(p) -> 0 .. Len(p.nodes)] : IsLevelling(p, f) }

IsCyclic(p) ==
  \E s \in SUBSET Ids(p) \ {{}} : \A n \in s : \E d \in s : <<d, n>> \in p.edges

(* WorkflowDag::from_plan() accepts the plan.                              *)
Accepted(p) ==
  /\ p.nodes # <<>> /\ IsInjective(p.nodes)
  /\ p.edges \subseteq Ids(p) \X Ids(p)
  /\ ~ IsCyclic(p)

Deps(n) == { d \in dag.nodes : <<d, n>> \in dag.edges }

-----------------------------------------------------------------------------
NewTask == [pc |-> "idle", retries |-> 0, iter |-> 0, calls |-> <<>>, given |-> {},
            seen |-> {}, outcome |-> "none", granted |-> FALSE]  \* the last is history

Init ==
  /\ phase = "assessing"
  /\ dag = [nodes |-> {}, edges |-> {}, order |-> {}, level |-> <<>>]
  /\ begun = 0
  /\ results = [n \in Nodes |-> "none"]
  /\ task = [n \in Nodes |-> NewTask]
  /\ config = Known /\ forgotten = {}

(* Heuristic or model: complex enough, too simple, or an error.            *)
Assess ==
  /\ phase = "assessing"
  /\ phase' \in {"planning", "simple", "failed"}
  /\ UNCHANGED <<dag, executor>>

(* create_plan() and from_plan().                                          *)
BuildDag ==
  /\ phase = "planning"
  /\ \E p \in Plans : \E f \in Levels(p) :
       /\ Accepted(p)
       /\ dag' = [nodes |-> Ids(p), edges |-> p.edges, order |-> p.order, level |-> f]
  /\ phase' = "approving"
  /\ UNCHANGED executor

(* The model fails, or its answer is no plan or one that is not accepted.  *)
PlanningFails ==
  /\ phase = "planning"
  /\ phase' = "failed"
  /\ UNCHANGED <<dag, executor>>

(* request_plan_approval(): granted, or nobody to ask.                     *)
ApprovePlan ==
  /\ phase = "approving"
  /\ phase' = "executing"
  /\ UNCHANGED <<dag, executor>>

(* Refused, or the handler failed.                                         *)
RejectPlan ==
  /\ phase = "approving"
  /\ phase' = "failed"
  /\ UNCHANGED <<dag, executor>>

-----------------------------------------------------------------------------
(* DagExecutor::execute().                                                 *)
At(n, places) == task[n].pc \in places
JoinSet == { n \in Nodes : ~ At(n, {"idle", "joined"}) }
LevelsLeft == \E n \in dag.nodes : dag.level[n] >= begun

\* Mutant: a skipped dependency does not count.
HasFailedOnly(n) == \E d \in Deps(n) : results[d] = "failed"

HasFailedDependency(n) == \E d \in Deps(n) : results[d] # "completed"

(* build_dependency_context(): of every dependency, whatever the kind of   *)
(* the edge.                                                               *)
Context(n) == { d \in Deps(n) : results[d] = "completed" }

BeginLevel ==
  /\ phase = "executing" /\ JoinSet = {} /\ LevelsLeft
  /\ LET level   == { n \in dag.nodes : dag.level[n] = begun }
         skipped == { n \in level : HasFailedDependency(n) }
         spawned == level \ skipped
     IN  /\ results' = [n \in Nodes |-> IF n \in skipped THEN "skipped" ELSE results[n]]
         /\ task' = [n \in Nodes |->
                      IF n \in spawned
                      THEN [NewTask EXCEPT !.pc = "trying", !.given = Context(n)]
                      ELSE task[n]]
  /\ begun' = begun + 1
  /\ UNCHANGED <<phase, dag, config, forgotten>>

(* join_next()                                                             *)
Join(n) ==
  /\ At(n, {"ended"})
  /\ results' = [results EXCEPT ![n] = task[n].outcome]
  /\ task' = [task EXCEPT ![n].pc = "joined"]
  /\ UNCHANGED <<phase, dag, begun, config, forgotten>>

Completed == { n \in dag.nodes : results[n] = "completed" }

(* The only completed node answers; otherwise the model combines them all. *)
EndExecution ==
  /\ phase = "executing" /\ JoinSet = {} /\ ~LevelsLeft
  /\ phase' = IF Cardinality(Completed) = 1 THEN "answered" ELSE "synthesizing"
  /\ UNCHANGED <<dag, executor>>

Synthesize ==
  /\ phase = "synthesizing"
  /\ phase' \in {"answered", "failed"}
  /\ UNCHANGED <<dag, executor>>

-----------------------------------------------------------------------------
(* The task of a node: the first try and its retries.                      *)
Goes(n, place) == task' = [task EXCEPT ![n].pc = place]
Ends(n, s) == task' = [task EXCEPT ![n].pc = "ended", ![n].outcome = s]

Tried(n, ok) ==
  IF ok THEN Ends(n, "completed")
  ELSE IF task[n].retries = MaxRetries[n] THEN Ends(n, "failed")
  ELSE task' = [task EXCEPT ![n].pc = "trying", ![n].retries = @ + 1, ![n].granted = FALSE]

(* A tool_call node is not asked about, and counts as completed even when  *)
(* its tool fails; it fails when there is no such tool.                    *)
CallDirectly(n) == Kind[n] = "direct" /\ \E ok \in BOOLEAN : Tried(n, ok)

(* execute_node_traced(); what the kind needs may be missing in the plan.  *)
Try(n) ==
  /\ At(n, {"trying"})
  /\ \/ Kind[n] = "agent" /\ task' = [task EXCEPT ![n].pc = "thinking", ![n].iter = 0]
     \/ CallDirectly(n)
     \/ Kind[n] \in {"install", "package"} /\ Goes(n, "asking")
     \/ Kind[n] = "url" /\ Goes(n, "reading")
     \/ Kind[n] \in {"install", "package", "url"} /\ Tried(n, FALSE)
  /\ UNCHANGED <<phase, dag, begun, results, config, forgotten>>

(* The loop of an agent or create_tool node.                               *)
Think(n) ==
  /\ At(n, {"thinking"})
  /\ \/ Tried(n, FALSE)       \* the model fails, or the iterations are used up
     \/ task[n].iter < MaxIterations /\ Tried(n, TRUE)
     \/ /\ task[n].iter < MaxIterations
        /\ \E calls \in Replies :
             task' = [task EXCEPT ![n].pc = "calling", ![n].calls = calls]
  /\ UNCHANGED <<phase, dag, begun, results, config, forgotten>>

(* run_tool() is over, with or without success; a refusal comes back as    *)
(* text like any result, and only install commands are judged by it.       *)
CallOver(n, ok) ==
  \/ /\ Kind[n] = "agent"
     /\ task' = [task EXCEPT ![n].pc = "calling", ![n].calls = Tail(@)]
  \/ Kind[n] = "package" /\ ok /\ Goes(n, "reading")
  \/ Kind[n] = "package" /\ ~ok /\ Tried(n, FALSE)
  \/ Kind[n] = "install" /\ Tried(n, ok)

Call(n) ==
  /\ At(n, {"calling"}) /\ task[n].calls # <<>>
  /\ \/ Head(task[n].calls) = "free" /\ CallOver(n, TRUE)
     \/ Head(task[n].calls) = "guarded" /\ Goes(n, "asking")
  /\ UNCHANGED <<phase, dag, begun, results, config, forgotten>>

\* Mutant: the loop does not count.
IterateForEver(n) ==
  /\ At(n, {"calling"}) /\ task[n].calls = <<>>
  /\ Goes(n, "thinking")
  /\ UNCHANGED <<phase, dag, begun, results, config, forgotten>>

NextIteration(n) ==
  /\ At(n, {"calling"}) /\ task[n].calls = <<>>
  /\ task' = [task EXCEPT ![n].pc = "thinking", ![n].iter = @ + 1]
  /\ UNCHANGED <<phase, dag, begun, results, config, forgotten>>

(* request_approval()                                                      *)
Grant(n) ==
  /\ At(n, {"asking"})
  /\ task' = [task EXCEPT ![n].pc = "running", ![n].granted = TRUE]
  /\ UNCHANGED <<phase, dag, begun, results, config, forgotten>>

Run(n) ==
  /\ At(n, {"running"})
  /\ \E ok \in BOOLEAN : CallOver(n, ok)
  /\ UNCHANGED <<phase, dag, begun, results, config, forgotten>>

\* Mutant: the text of a refusal is not recognised.
RefuseUnnoticed(n) ==
  /\ At(n, {"asking"})
  /\ CallOver(n, TRUE)
  /\ UNCHANGED <<phase, dag, begun, results, config, forgotten>>

(* Refused, the handler failed, or there is none.                          *)
Refuse(n) ==
  /\ At(n, {"asking"})
  /\ CallOver(n, FALSE)
  /\ UNCHANGED <<phase, dag, begun, results, config, forgotten>>

(* catch_unwind(): a panic ends the task, with no retry.  Adding the       *)
(* server panics when the root of mcp.json is no object; such a file holds *)
(* no server.                                                              *)
Panic(n) ==
  /\ \/ At(n, {"trying", "thinking", "calling", "running"})
     \/ At(n, {"merging"}) /\ task[n].seen = {}
  /\ Ends(n, "failed")
  /\ UNCHANGED <<phase, dag, begun, results, config, forgotten>>

-----------------------------------------------------------------------------
(* execute_connect_mcp_node(): read mcp.json, add the server, write it,    *)
(* each with a call of its own and no lock.                                *)
Connecting(n) == At(n, {"merging", "writing"})

(* What a node that reads now may drop: another that is between its read   *)
(* and the end of its write does not see this one's server, nor this one   *)
(* that one's, and while it writes the file is empty.                      *)
Overlap(n) ==
  LET others == { m \in Nodes \ {n} : Connecting(m) }
  IN  { m \in Nodes : others # {} /\ m \in others \cup {n} }
        \cup UNION { task[m].seen : m \in { k \in others : At(k, {"writing"}) } }

(* A read that fails, or text that is no JSON, counts as an empty config.  *)
ReadConfig(n) ==
  /\ At(n, {"reading"})
  /\ \E seen \in {config, {}} :
       /\ task' = [task EXCEPT ![n].pc = "merging", ![n].seen = seen]
       /\ forgotten' = forgotten \cup Overlap(n) \cup (config \ seen)
  /\ UNCHANGED <<phase, dag, begun, results, config>>

Truncate(n) ==
  /\ At(n, {"merging"})
  /\ Goes(n, "writing")
  /\ config' = {}
  /\ UNCHANGED <<phase, dag, begun, results, forgotten>>

(* The text is written from the file's start, over what another node has   *)
(* written since the file was emptied: of a longer text the end remains,   *)
(* and the whole is no JSON.                                               *)
Written(n, servers) ==
  /\ At(n, {"writing"})
  /\ Tried(n, TRUE)
  /\ \/ config' = servers /\ UNCHANGED forgotten
     \/ config # {} /\ config' = {} /\ forgotten' = forgotten \cup servers
  /\ UNCHANGED <<phase, dag, begun, results>>

\* Mutant: a fresh file.
WriteAlone(n) == Written(n, {n})

WriteConfig(n) == Written(n, task[n].seen \cup {n})

(* The file cannot be opened, or its content cannot be written, or not to  *)
(* the end.                                                                *)
WriteFails(n) ==
  /\ Tried(n, FALSE)
  /\ \/ At(n, {"merging"}) /\ UNCHANGED <<config, forgotten>>
     \/ /\ At(n, {"writing"})
        /\ config' \in {config, {}}
        /\ forgotten' = forgotten \cup task[n].seen
  /\ UNCHANGED <<phase, dag, begun, results>>

TaskStep(n) ==
  \/ Try(n) \/ Think(n) \/ Call(n) \/ NextIteration(n) \/ Panic(n)
  \/ Grant(n) \/ Run(n) \/ Refuse(n)
  \/ ReadConfig(n) \/ Truncate(n) \/ WriteConfig(n) \/ WriteFails(n)

Coordinate ==
  \/ Assess \/ BuildDag \/ PlanningFails
  \/ BeginLevel \/ EndExecution \/ Synthesize
  \/ \E n \in Nodes : Join(n)

Next == Coordinate \/ ApprovePlan \/ RejectPlan \/ \E n \in Nodes : TaskStep(n)

(* Humans decide when they like, and the engine's calls of the model have  *)
(* no timeout.                                                             *)
EngineWaits == phase \in {"assessing", "planning", "approving", "synthesizing"}
TaskWaits(n) == At(n, {"asking", "thinking"})

(* The call of process() and the tasks it spawns are polled, and tools     *)
(* return; nothing is assumed of the humans and of the model.              *)
Fairness ==
  /\ WF_vars(~EngineWaits /\ Coordinate)
  /\ \A n \in Nodes : WF_vars(~TaskWaits(n) /\ TaskStep(n))

Spec == Init /\ [][Next]_vars
FairSpec == Spec /\ Fairness

-----------------------------------------------------------------------------
Places == {"idle", "trying", "thinking", "calling", "asking", "running", "reading",
           "merging", "writing", "ended", "joined"}

(* Where the nodes can be, and the bounds of their loops.                  *)
TypeOK ==
  /\ phase \in {"assessing", "planning", "approving", "executing", "synthesizing",
                "simple", "failed", "answered"}
  /\ dag.nodes \subseteq Nodes /\ begun \in Nat /\ forgotten \subseteq Known \cup Nodes
  /\ results \in [Nodes -> {"none", "completed", "failed", "skipped"}]
  /\ config \subseteq Known \cup Nodes
  /\ \A n \in Nodes :
       /\ task[n].pc \in Places
       /\ task[n].retries \in 0 .. MaxRetries[n]
       /\ task[n].iter \in 0 .. MaxIterations
       /\ task[n].outcome \in {"none", "completed", "failed"}
       /\ At(n, {"ended", "joined"}) => task[n].outcome # "none"

(* A command to install something counts as done only if a human granted   *)
(* it: run_tool() turns a refusal into text, and the node's success is     *)
(* read from that text (execute_shell_node_traced and                      *)
(* execute_connect_mcp_node), through every retry.                         *)
InstalledMeansGranted ==
  \A n \in Nodes :
    Kind[n] \in {"install", "package"} /\ results[n] = "completed" => task[n].granted

Connects(n) == Kind[n] \in {"package", "url"}
Connected == { n \in dag.nodes : Connects(n) /\ results[n] = "completed" }

(* But while one is written, mcp.json holds the servers it held at the     *)
(* start and every server the executor reports as connected ("installed    *)
(* and configured in mcp.json"; the test                                   *)
(* connect_mcp_merges_with_existing_config).  Nodes of one level may drop  *)
(* each other's server and no third one, unless one reads the file while   *)
(* the other writes it; else only a failed read or write drops a server    *)
(* (execute_connect_mcp_node).                                             *)
Configured ==
  /\ TypeOK
  /\ \/ \E n \in Nodes : At(n, {"writing"})
     \/ (Known \cup Connected) \ forgotten \subseteq config

(* process() returns, or waits for ever for a human or the model: retries, *)
(* iterations and levels are bounded together, and no task is left behind. *)
WorkflowEnds ==
  <>[](\/ phase \in {"simple", "failed", "answered"} \/ EngineWaits
       \/ \E n \in Nodes : TaskWaits(n))

(* A node's status (the executor never sets Pending and Running), the      *)
(* context its task was started with, and whether the results are final.   *)
Status == [n \in Nodes |-> IF results[n] # "none" THEN results[n]
                           ELSE IF At(n, {"idle"}) THEN "pending" ELSE "running"]
Given == [n \in Nodes |-> task[n].given]
Over == begun > 0 /\ phase # "executing"

Plan == INSTANCE PlanRun WITH
  ids <- dag.nodes, edges <- dag.edges, order <- dag.order, status <- Status, given <- Given, over <- Over

(* The plan runs as PlanRun promises: through levels, parallel tasks,      *)
(* retries and panics, dependencies come first, of both kinds, no result   *)
(* that a Data edge asks for is lost and none is given of a node that is   *)
(* no dependency, a node is skipped only for a failure above it, and the   *)
(* answer waits for all.                                                   *)
PlanRuns == Plan!Spec
==============================================================================
