--------------------------- MODULE WorkflowProofs ---------------------------
(***************************************************************************)
(* For every plan, every number of nodes, retries and iterations: the      *)
(* executor runs the plan as PlanRun promises, what it counts as installed *)
(* was granted by a human, and what it reports as connected is in          *)
(* mcp.json.                                                               *)
(***************************************************************************)
EXTENDS Workflow, TLAPS

-----------------------------------------------------------------------------
(* The inductive invariant.                                                *)
TaskType ==
  [pc : Places, retries : Nat, iter : Nat, calls : Seq({"free", "guarded"}),
   given : SUBSET Nodes, seen : SUBSET (Known \cup Nodes),
   outcome : {"none", "completed", "failed"}, granted : BOOLEAN]

Installs(n) == Kind[n] \in {"install", "package"}

(* A task t that node n may have: within the bounds of its loops, in the   *)
(* loop of an agent only if it is one, in mcp.json only if it connects a   *)
(* server, with an outcome at the end, and past an install command only if *)
(* that was granted in this try.                                           *)
TaskOK(n, t) ==
  /\ t \in TaskType
  /\ t.retries <= MaxRetries[n]
  /\ t.iter <= MaxIterations
  /\ t.pc \in {"calling", "asking", "running"} /\ Kind[n] = "agent" => t.iter < MaxIterations
  /\ t.pc \in {"reading", "merging", "writing"} => Connects(n)
  /\ t.pc \in {"thinking", "calling"} => Kind[n] = "agent"
  /\ t.pc \in {"asking", "running"} /\ Kind[n] = "agent" => t.calls # <<>>
  /\ t.pc \in {"ended", "joined"} => t.outcome # "none"
  /\ Installs(n) /\ t.pc \in {"running", "reading", "merging", "writing"} => t.granted
  /\ Installs(n) /\ t.pc \in {"ended", "joined"} /\ t.outcome = "completed" => t.granted

Typed ==
  /\ task \in [Nodes -> TaskType]
  /\ \A n \in Nodes : TaskOK(n, task[n])
  /\ results \in [Nodes -> {"none", "completed", "failed", "skipped"}]
  /\ begun \in Nat
  /\ config \subseteq Known \cup Nodes
  /\ forgotten \subseteq Known \cup Nodes
  /\ phase \in {"assessing", "planning", "approving", "executing", "synthesizing",
                "simple", "failed", "answered"}

(* The levels of the graph follow its edges.                               *)
Layered ==
  /\ dag.nodes \subseteq Nodes
  /\ dag.edges \subseteq dag.nodes \X dag.nodes
  /\ dag.level \in [dag.nodes -> Nat]
  /\ \A d, n \in dag.nodes : <<d, n>> \in dag.edges => dag.level[d] < dag.level[n]

(* Nothing is done before the plan is approved.                            *)
Untouched ==
  /\ phase \in {"assessing", "planning"} => dag.nodes = {} /\ dag.edges = {}
  /\ phase \in {"assessing", "planning", "approving"} => begun = 0

(* A node's task and its result agree, and the levels that were begun are  *)
(* those of the nodes that were skipped or have a task.                    *)
LevelByLevel ==
  \A n \in Nodes :
    /\ At(n, {"joined"}) => results[n] = task[n].outcome
    /\ results[n] \in {"completed", "failed"} => At(n, {"joined"})
    /\ results[n] = "skipped" => At(n, {"idle"})
    /\ At(n, {"idle"}) /\ results[n] = "none"
         <=> n \notin dag.nodes \/ dag.level[n] >= begun

IInv == Typed /\ Layered /\ Untouched /\ LevelByLevel

-----------------------------------------------------------------------------
(* What the steps of a task have in common: the task runs, its record is   *)
(* replaced by a good one, and the context it was given is kept.           *)
Becomes(n, t) ==
  /\ TaskOK(n, t) /\ t.pc \notin {"idle", "joined"} /\ t.given = task[n].given
  /\ task' = [task EXCEPT ![n] = t]

Moves(n) == \E t : Becomes(n, t)

LEMMA LoopBounds == MaxIterations \in Nat /\ \A n \in Nodes : MaxRetries[n] \in Nat
<1>1. \A n \in Nodes : MaxRetries[n] \in 0 .. 3
  BY WorkflowAssumption
<1> QED
  BY <1>1, WorkflowAssumption

LEMMA GoesMoves ==
  ASSUME Typed, NEW n \in Nodes, NEW p \in Places \ {"idle", "joined", "ended"}, Goes(n, p),
         TaskOK(n, [task[n] EXCEPT !.pc = p])
  PROVE  Moves(n)
<1> DEFINE new == [task[n] EXCEPT !.pc = p]
<1>1. task[n] \in TaskType
  BY DEF Typed
<1>2. new.pc = p /\ new.given = task[n].given
  BY <1>1 DEF TaskType
<1>3. task' = [task EXCEPT ![n] = new]
  BY DEF Goes
<1> QED
  BY <1>2, <1>3 DEF Moves, Becomes

LEMMA EndsMoves ==
  ASSUME Typed, NEW n \in Nodes, NEW s \in {"completed", "failed"}, Ends(n, s),
         Installs(n) /\ s = "completed" => task[n].granted
  PROVE  Moves(n)
<1> DEFINE new == [task[n] EXCEPT !.pc = "ended", !.outcome = s]
<1>0. TaskOK(n, task[n])
  BY DEF Typed
<1>1. task[n] \in TaskType
  BY DEF Typed
<1>2. TaskOK(n, new) /\ new.pc = "ended" /\ new.given = task[n].given
  BY <1>0, <1>1 DEF TaskOK, TaskType, Places
<1>3. task' = [task EXCEPT ![n] = new]
  BY <1>1 DEF Ends, Typed, TaskType
<1> QED
  BY <1>2, <1>3 DEF Moves, Becomes

(* The end of a try, with a retry or without.                              *)
LEMMA TriedMoves ==
  ASSUME Typed, NEW n \in Nodes, NEW ok \in BOOLEAN, Tried(n, ok),
         Installs(n) /\ ok => task[n].granted
  PROVE  Moves(n)
<1>1. CASE ok
  BY <1>1, EndsMoves DEF Tried
<1>2. CASE ~ok /\ Ends(n, "failed")
  BY <1>2, EndsMoves
<1>3. CASE /\ task[n].retries # MaxRetries[n]
           /\ task' = [task EXCEPT ![n].pc = "trying", ![n].retries = @ + 1, ![n].granted = FALSE]
  <2> DEFINE k == task[n].retries + 1
             new == [task[n] EXCEPT !.pc = "trying", !.retries = k, !.granted = FALSE]
  <2>0. task[n].retries \in Nat /\ task[n].retries <= MaxRetries[n] /\ MaxRetries[n] \in Nat
    BY LoopBounds DEF Typed, TaskType, TaskOK
  <2>1. /\ task[n] \in TaskType /\ TaskOK(n, task[n])
        /\ k \in Nat /\ k <= MaxRetries[n]
    BY <1>3, <2>0 DEF Typed
  <2>2. TaskOK(n, new) /\ new.pc = "trying" /\ new.given = task[n].given
    <3> HIDE DEF k
    <3> QED
      BY <2>1 DEF TaskOK, TaskType, Places
  <2>3. task' = [task EXCEPT ![n] = new]
    BY <1>3, <2>1 DEF Typed, TaskType
  <2> QED
    BY <2>2, <2>3 DEF Moves, Becomes
<1> QED
  BY <1>1, <1>2, <1>3 DEF Tried

(* The end of a tool's call.                                               *)
LEMMA CallOverMoves ==
  ASSUME Typed, NEW n \in Nodes, NEW ok \in BOOLEAN, CallOver(n, ok),
         Kind[n] = "agent" => task[n].calls # <<>> /\ task[n].iter < MaxIterations,
         Installs(n) /\ ok => task[n].granted
  PROVE  Moves(n)
<1>0. TaskOK(n, task[n])
  BY DEF Typed
<1>1. CASE Kind[n] = "agent" /\ task' = [task EXCEPT ![n].pc = "calling", ![n].calls = Tail(@)]
  <2> DEFINE new == [task[n] EXCEPT !.pc = "calling", !.calls = Tail(task[n].calls)]
  <2>1. task[n] \in TaskType /\ Tail(task[n].calls) \in Seq({"free", "guarded"})
    BY <1>1 DEF Typed, TaskType
  <2>2. TaskOK(n, new) /\ new.pc = "calling" /\ new.given = task[n].given
    BY <1>0, <1>1, <2>1 DEF TaskOK, TaskType, Places
  <2>3. task' = [task EXCEPT ![n] = new]
    BY <1>1, <2>1 DEF Typed, TaskType
  <2> QED
    BY <2>2, <2>3 DEF Moves, Becomes
<1>2. CASE Kind[n] = "package" /\ ok /\ Goes(n, "reading")
  <2>1. task[n] \in TaskType /\ task[n].granted
    BY <1>2 DEF Typed, Installs
  <2>2. TaskOK(n, [task[n] EXCEPT !.pc = "reading"])
    BY <1>0, <1>2, <2>1 DEF TaskOK, TaskType, Places, Connects
  <2> QED
    BY <1>2, <2>2, GoesMoves DEF Places
<1>3. CASE (Kind[n] = "package" /\ ~ok /\ Tried(n, FALSE)) \/ Tried(n, ok)
  BY <1>3, TriedMoves
<1> QED
  BY <1>1, <1>2, <1>3 DEF CallOver

Local(n) ==
  /\ UNCHANGED <<phase, dag, begun, results>>
  /\ ~ At(n, {"idle", "ended", "joined"})
  /\ Moves(n)

LEMMA TaskStepLocal ==
  ASSUME Typed, NEW n \in Nodes, TaskStep(n)
  PROVE  Local(n) /\ config' \subseteq Known \cup Nodes /\ forgotten' \subseteq Known \cup Nodes
<1> SUFFICES Local(n)
  <2>0. /\ config \subseteq Known \cup Nodes /\ forgotten \subseteq Known \cup Nodes
        /\ \A m \in Nodes : task[m].seen \subseteq Known \cup Nodes
    BY DEF Typed, TaskType
  <2>1. CASE WriteConfig(n)
    BY <2>0, <2>1 DEF WriteConfig, Written
  <2>2. CASE WriteFails(n)
    BY <2>0, <2>2 DEF WriteFails
  <2>3. CASE ReadConfig(n)
    <3>1. Overlap(n) \subseteq Known \cup Nodes
      BY <2>0 DEF Overlap
    <3> QED
      BY <2>0, <2>3, <3>1 DEF ReadConfig
  <2>4. CASE ~ WriteConfig(n) /\ ~ WriteFails(n) /\ ~ ReadConfig(n)
    BY <2>0, <2>4 DEF TaskStep, Try, Think, Call, NextIteration, Panic, Grant, Run, Refuse, Truncate
  <2> QED
    BY <2>1, <2>2, <2>3, <2>4
<1> USE DEF Local, At
<1>0. task[n] \in TaskType /\ TaskOK(n, task[n]) /\ config \subseteq Known \cup Nodes
  BY DEF Typed
<1>1. CASE Try(n)
  <2>1. CASE Kind[n] = "agent" /\ task' = [task EXCEPT ![n].pc = "thinking", ![n].iter = 0]
    <3> DEFINE new == [task[n] EXCEPT !.pc = "thinking", !.iter = 0]
    <3>0. 0 <= MaxIterations
      BY LoopBounds
    <3>1. TaskOK(n, new) /\ new.pc = "thinking" /\ new.given = task[n].given
      BY <1>0, <2>1, <3>0 DEF TaskOK, TaskType, Places, Installs
    <3>2. task' = [task EXCEPT ![n] = new]
      BY <1>0, <2>1 DEF Typed, TaskType
    <3> QED
      BY <1>1, <3>1, <3>2 DEF Moves, Becomes, Try
  <2>2. CASE CallDirectly(n) \/ Tried(n, FALSE)
    BY <1>1, <2>2, TriedMoves DEF Try, CallDirectly, Installs
  <2>3. CASE Kind[n] \in {"install", "package"} /\ Goes(n, "asking")
    <3>1. TaskOK(n, [task[n] EXCEPT !.pc = "asking"])
      BY <1>0, <2>3 DEF TaskOK, TaskType, Places
    <3> QED
      BY <1>1, <2>3, <3>1, GoesMoves DEF Try, Places
  <2>4. CASE Kind[n] = "url" /\ Goes(n, "reading")
    <3>1. TaskOK(n, [task[n] EXCEPT !.pc = "reading"])
      BY <1>0, <2>4 DEF TaskOK, TaskType, Places, Installs, Connects
    <3> QED
      BY <1>1, <2>4, <3>1, GoesMoves DEF Try, Places
  <2> QED
    BY <1>1, <2>1, <2>2, <2>3, <2>4 DEF Try
<1>2. CASE Think(n)
  <2>0. Kind[n] = "agent"
    BY <1>0, <1>2 DEF Think, TaskOK
  <2>1. CASE Tried(n, FALSE) \/ Tried(n, TRUE)
    BY <1>2, <2>0, <2>1, TriedMoves DEF Think, Installs
  <2>2. CASE /\ task[n].iter < MaxIterations
             /\ \E calls \in Replies : task' = [task EXCEPT ![n].pc = "calling", ![n].calls = calls]
    <3>1. PICK calls \in Replies : task' = [task EXCEPT ![n].pc = "calling", ![n].calls = calls]
      BY <2>2
    <3> DEFINE new == [task[n] EXCEPT !.pc = "calling", !.calls = calls]
    <3>2. calls \in Seq({"free", "guarded"})
      BY WorkflowAssumption
    <3>3. TaskOK(n, new) /\ new.pc = "calling" /\ new.given = task[n].given
      BY <1>0, <2>0, <2>2, <3>2 DEF TaskOK, TaskType, Places, Installs
    <3>4. task' = [task EXCEPT ![n] = new]
      BY <1>0, <3>1 DEF Typed, TaskType
    <3> QED
      BY <1>2, <3>3, <3>4 DEF Moves, Becomes, Think
  <2> QED
    BY <1>2, <2>1, <2>2 DEF Think
<1>3. CASE Call(n)
  <2>0. Kind[n] = "agent" /\ task[n].calls # <<>> /\ task[n].iter < MaxIterations
    BY <1>0, <1>3 DEF Call, TaskOK
  <2>1. CASE CallOver(n, TRUE)
    BY <1>3, <2>0, <2>1, CallOverMoves DEF Call, Installs
  <2>2. CASE Goes(n, "asking")
    <3>1. TaskOK(n, [task[n] EXCEPT !.pc = "asking"])
      BY <1>0, <2>0 DEF TaskOK, TaskType, Places, Installs
    <3> QED
      BY <1>3, <2>2, <3>1, GoesMoves DEF Call, Places
  <2> QED
    BY <1>3, <2>1, <2>2 DEF Call
<1>4. CASE NextIteration(n)
  <2> DEFINE k == task[n].iter + 1
             new == [task[n] EXCEPT !.pc = "thinking", !.iter = k]
  <2>0. task[n].iter \in Nat /\ task[n].iter < MaxIterations /\ Kind[n] = "agent"
    BY <1>0, <1>4 DEF TaskType, TaskOK, NextIteration
  <2>1. k \in Nat /\ k <= MaxIterations /\ Kind[n] = "agent"
    BY <2>0, WorkflowAssumption
  <2>2. TaskOK(n, new) /\ new.pc = "thinking" /\ new.given = task[n].given
    <3> HIDE DEF k
    <3> QED
      BY <1>0, <2>1 DEF TaskOK, TaskType, Places, Installs
  <2>3. task' = [task EXCEPT ![n] = new]
    BY <1>0, <1>4 DEF Typed, TaskType, NextIteration
  <2> QED
    BY <1>4, <2>2, <2>3 DEF Moves, Becomes, NextIteration
<1>5. CASE Panic(n)
  BY <1>5, EndsMoves DEF Panic
<1>6. CASE Grant(n)
  <2> DEFINE new == [task[n] EXCEPT !.pc = "running", !.granted = TRUE]
  <2>1. TaskOK(n, new) /\ new.pc = "running" /\ new.given = task[n].given
    BY <1>0, <1>6 DEF TaskOK, TaskType, Places, Grant
  <2>2. task' = [task EXCEPT ![n] = new]
    BY <1>0, <1>6 DEF Typed, TaskType, Grant
  <2> QED
    BY <1>6, <2>1, <2>2 DEF Moves, Becomes, Grant
<1>7. CASE Run(n)
  BY <1>0, <1>7, CallOverMoves DEF Run, TaskOK
<1>8. CASE Refuse(n)
  BY <1>0, <1>8, CallOverMoves DEF Refuse, TaskOK
<1>9. CASE ReadConfig(n)
  <2>0. PICK seen \in {config, {}} :
          task' = [task EXCEPT ![n].pc = "merging", ![n].seen = seen]
    BY <1>9 DEF ReadConfig
  <2> DEFINE new == [task[n] EXCEPT !.pc = "merging", !.seen = seen]
  <2>1. TaskOK(n, new) /\ new.pc = "merging" /\ new.given = task[n].given
    BY <1>0, <1>9 DEF TaskOK, TaskType, Places, ReadConfig
  <2>2. task' = [task EXCEPT ![n] = new]
    BY <1>0, <2>0 DEF Typed, TaskType
  <2> QED
    BY <1>0, <1>9, <2>1, <2>2 DEF Moves, Becomes, ReadConfig
<1>10. CASE Truncate(n)
  <2>1. TaskOK(n, [task[n] EXCEPT !.pc = "writing"])
    BY <1>0, <1>10 DEF TaskOK, TaskType, Places, Truncate
  <2> QED
    BY <1>0, <1>10, <2>1, GoesMoves DEF Truncate, Places
<1>11. CASE WriteConfig(n)
  <2>1. Installs(n) => task[n].granted
    BY <1>0, <1>11 DEF WriteConfig, Written, TaskOK
  <2> QED
    BY <1>0, <1>11, <2>1, TriedMoves DEF WriteConfig, Written
<1>12. CASE WriteFails(n)
  BY <1>0, <1>12, TriedMoves DEF WriteFails
<1> QED
  BY <1>1, <1>2, <1>3, <1>4, <1>5, <1>6, <1>7, <1>8, <1>9, <1>10, <1>11, <1>12 DEF TaskStep

-----------------------------------------------------------------------------
(* The invariant is inductive.                                             *)
LEMMA Initially ==
  ASSUME Init
  PROVE  IInv
<1>1. NewTask \in TaskType /\ NewTask.pc = "idle"
  BY DEF NewTask, TaskType, Places
<1>2. \A n \in Nodes : TaskOK(n, NewTask)
  BY <1>1, WorkflowAssumption DEF NewTask, TaskOK
<1>3. Typed
  BY <1>1, <1>2 DEF Init, Typed
<1>4. Layered /\ Untouched
  BY DEF Init, Layered, Untouched
<1>5. LevelByLevel
  BY <1>1 DEF Init, LevelByLevel, At
<1> QED
  BY <1>3, <1>4, <1>5 DEF IInv

LEMMA TaskStepInductive ==
  ASSUME IInv, NEW n \in Nodes, TaskStep(n)
  PROVE  IInv'
<1>1. Typed
  BY DEF IInv
<1>2. Local(n) /\ config' \subseteq Known \cup Nodes /\ forgotten' \subseteq Known \cup Nodes
  BY <1>1, TaskStepLocal
<1>3. PICK t : Becomes(n, t)
  BY <1>2 DEF Local, Moves
<1>4. Typed'
  BY <1>1, <1>2, <1>3 DEF Typed, Local, Becomes, TaskOK
<1>5. Layered' /\ Untouched'
  BY <1>2 DEF IInv, Layered, Untouched, Local
<1>6. LevelByLevel'
  <2> SUFFICES ASSUME NEW m \in Nodes
               PROVE  /\ At(m, {"joined"})' => results'[m] = task'[m].outcome
                      /\ results'[m] \in {"completed", "failed"} => At(m, {"joined"})'
                      /\ results'[m] = "skipped" => At(m, {"idle"})'
                      /\ At(m, {"idle"})' /\ results'[m] = "none"
                           <=> m \notin dag'.nodes \/ dag'.level[m] >= begun'
    BY DEF LevelByLevel
  <2>1. results'[m] = results[m] /\ dag' = dag /\ begun' = begun
    BY <1>2 DEF Local
  <2>2. CASE m = n
    <3>1. task'[m] = t /\ t.pc \notin {"idle", "joined"} /\ task[m].pc \notin {"idle", "joined"}
      BY <1>1, <1>2, <1>3, <2>2 DEF Typed, Becomes, Local, At
    <3> QED
      BY <2>1, <3>1 DEF IInv, LevelByLevel, At
  <2>3. CASE m # n
    <3>1. task'[m] = task[m]
      BY <1>1, <1>3, <2>3 DEF Typed, Becomes
    <3> QED
      BY <2>1, <3>1 DEF IInv, LevelByLevel, At
  <2> QED
    BY <2>2, <2>3
<1> QED
  BY <1>4, <1>5, <1>6 DEF IInv

LEMMA JoinInductive ==
  ASSUME IInv, NEW n \in Nodes, Join(n)
  PROVE  IInv'
<1> DEFINE new == [task[n] EXCEPT !.pc = "joined"]
<1>0. Typed /\ TaskOK(n, task[n]) /\ task[n].pc = "ended"
  BY DEF IInv, Typed, Join, At
<1>1. TaskOK(n, new) /\ new.pc = "joined" /\ new.outcome = task[n].outcome
  BY <1>0 DEF TaskOK, TaskType, Places
<1>2. task' = [task EXCEPT ![n] = new]
  BY DEF Join
<1>3. /\ results' = [results EXCEPT ![n] = task[n].outcome]
      /\ task[n].outcome \in {"completed", "failed"}
      /\ UNCHANGED <<phase, dag, begun, config, forgotten>>
  BY <1>0 DEF Join, TaskOK, TaskType
<1> HIDE DEF new
<1>4. Typed'
  BY <1>0, <1>1, <1>2, <1>3 DEF Typed, TaskOK
<1>5. Layered' /\ Untouched'
  BY <1>3 DEF IInv, Layered, Untouched
<1>6. LevelByLevel'
  BY <1>0, <1>1, <1>2, <1>3 DEF IInv, Typed, LevelByLevel, At
<1> QED
  BY <1>4, <1>5, <1>6 DEF IInv

LEMMA BuildInductive ==
  ASSUME IInv, BuildDag
  PROVE  IInv'
<1>0. PICK p \in Plans : \E f \in Levels(p) :
        /\ Accepted(p)
        /\ dag' = [nodes |-> Ids(p), edges |-> p.edges, order |-> p.order, level |-> f]
  BY DEF BuildDag
<1>1. PICK f \in Levels(p) :
        /\ Accepted(p)
        /\ dag' = [nodes |-> Ids(p), edges |-> p.edges, order |-> p.order, level |-> f]
  BY <1>0
<1>2. /\ phase = "planning" /\ phase' = "approving" /\ begun = 0 /\ dag.nodes = {}
      /\ UNCHANGED executor
  BY DEF BuildDag, IInv, Untouched
<1>3. /\ Ids(p) \subseteq Nodes /\ f \in [Ids(p) -> Nat] /\ IsLevelling(p, f)
      /\ p.edges \subseteq Ids(p) \X Ids(p)
  BY <1>1, WorkflowAssumption DEF Levels, Ids, Range, Accepted
<1>4. Typed'
  BY <1>2 DEF executor, IInv, Typed, TaskOK
<1>5. Layered' /\ Untouched'
  BY <1>1, <1>2, <1>3 DEF Layered, Untouched, IsLevelling, executor
<1>6. LevelByLevel'
  BY <1>1, <1>2, <1>3 DEF IInv, LevelByLevel, At, executor
<1> QED
  BY <1>4, <1>5, <1>6 DEF IInv

LEMMA BeginLevelInductive ==
  ASSUME IInv, BeginLevel
  PROVE  IInv'
<1> DEFINE level   == { n \in dag.nodes : dag.level[n] = begun }
           skipped == { n \in level : HasFailedDependency(n) }
           fresh(n) == [NewTask EXCEPT !.pc = "trying", !.given = Context(n)]
<1>1. /\ phase = "executing" /\ begun' = begun + 1
      /\ UNCHANGED <<phase, dag, config, forgotten>>
      /\ results' = [n \in Nodes |-> IF n \in skipped THEN "skipped" ELSE results[n]]
      /\ task' = [n \in Nodes |-> IF n \in level \ skipped THEN fresh(n) ELSE task[n]]
  BY DEF BeginLevel
<1>2. ASSUME NEW n \in Nodes
      PROVE  TaskOK(n, fresh(n)) /\ fresh(n).pc = "trying"
  <2>1. Context(n) \in SUBSET Nodes
    BY DEF Context, Deps, IInv, Layered
  <2>2. NewTask \in TaskType
    BY DEF NewTask, TaskType, Places
  <2>3. NewTask.retries = 0 /\ NewTask.iter = 0
    BY DEF NewTask
  <2> HIDE DEF skipped, level
  <2>4. fresh(n) \in TaskType /\ fresh(n).pc = "trying" /\ fresh(n).retries = 0 /\ fresh(n).iter = 0
    BY <2>1, <2>2, <2>3 DEF TaskType, Places
  <2>5. 0 <= MaxRetries[n] /\ 0 <= MaxIterations
    BY LoopBounds
  <2> HIDE DEF fresh
  <2> QED
    BY <2>4, <2>5 DEF TaskOK
<1>3. level \subseteq Nodes
  BY DEF IInv, Layered
<1>4. \A n \in level : results[n] = "none" /\ task[n].pc = "idle"
  BY <1>3 DEF IInv, LevelByLevel, At, Typed
<1>5. \A n \in Nodes : n \in level <=> n \in dag.nodes /\ dag.level[n] = begun
  OBVIOUS
<1> HIDE DEF fresh, level
<1>6. Typed'
  <2>1. \A n \in Nodes : TaskOK(n, task'[n])
    BY <1>1, <1>2 DEF IInv, Typed
  <2> QED
    BY <1>1, <2>1 DEF IInv, Typed, TaskOK
<1>7. Layered' /\ Untouched'
  BY <1>1 DEF IInv, Layered, Untouched
<1>8. LevelByLevel'
  <2> SUFFICES ASSUME NEW n \in Nodes
               PROVE  /\ At(n, {"joined"})' => results'[n] = task'[n].outcome
                      /\ results'[n] \in {"completed", "failed"} => At(n, {"joined"})'
                      /\ results'[n] = "skipped" => At(n, {"idle"})'
                      /\ At(n, {"idle"})' /\ results'[n] = "none"
                           <=> n \notin dag'.nodes \/ dag'.level[n] >= begun'
    BY DEF LevelByLevel
  <2>1. CASE n \in skipped
    <3>1. results'[n] = "skipped" /\ task'[n] = task[n] /\ n \in level
      BY <1>1, <2>1
    <3> QED
      BY <1>1, <1>4, <1>5, <3>1 DEF IInv, Typed, At
  <2>2. CASE n \in level \ skipped
    <3>1. results'[n] = "none" /\ task'[n].pc = "trying"
      BY <1>1, <1>2, <1>4, <2>2
    <3> QED
      BY <1>1, <1>5, <2>2, <3>1 DEF IInv, Typed, At
  <2>3. CASE n \notin level
    <3>1. results'[n] = results[n] /\ task'[n] = task[n]
      BY <1>1, <2>3
    <3>2. n \in dag.nodes => dag.level[n] \in Nat
      BY DEF IInv, Layered
    <3> QED
      BY <1>1, <1>5, <2>3, <3>1, <3>2 DEF IInv, Typed, LevelByLevel, At
  <2> QED
    BY <2>1, <2>2, <2>3
<1> QED
  BY <1>6, <1>7, <1>8 DEF IInv

LEMMA Inductive ==
  ASSUME IInv, [Next]_vars
  PROVE  IInv'
<1>1. CASE UNCHANGED executor /\ UNCHANGED dag /\ (Assess \/ PlanningFails \/ ApprovePlan
             \/ RejectPlan \/ EndExecution \/ Synthesize)
  <2>0. phase' \in {"assessing", "planning", "approving", "executing", "synthesizing",
                     "simple", "failed", "answered"}
    BY <1>1 DEF Assess, PlanningFails, ApprovePlan, RejectPlan, EndExecution, Synthesize
  <2>1. Typed' /\ LevelByLevel'
    BY <1>1, <2>0 DEF IInv, Typed, LevelByLevel, At, TaskOK, Connects, executor
  <2>2. Layered' /\ Untouched'
    BY <1>1 DEF IInv, Layered, Untouched, executor, Assess, PlanningFails, ApprovePlan,
                RejectPlan, EndExecution, Synthesize
  <2> QED
    BY <2>1, <2>2 DEF IInv
<1>2. CASE UNCHANGED vars
  BY <1>2 DEF vars, IInv, Typed, Layered, Untouched, LevelByLevel, At, TaskOK
<1>3. ASSUME NEW n \in Nodes, TaskStep(n)
      PROVE  IInv'
  BY <1>3, TaskStepInductive
<1>4. ASSUME NEW n \in Nodes, Join(n)
      PROVE  IInv'
  BY <1>4, JoinInductive
<1> QED
  BY <1>1, <1>2, <1>3, <1>4, BuildInductive, BeginLevelInductive
     DEF Next, Coordinate, Assess, PlanningFails, ApprovePlan, RejectPlan, EndExecution, Synthesize

-----------------------------------------------------------------------------
(* Every step is a step of PlanRun or none.                                *)
PlanNext == [Plan!Next]_(Plan!planVars)

LEMMA TaskStepStutters ==
  ASSUME IInv, NEW n \in Nodes, TaskStep(n)
  PROVE  UNCHANGED Plan!planVars
<1>1. Local(n) /\ task \in [Nodes -> TaskType]
  BY TaskStepLocal DEF IInv, Typed
<1>2. PICK t : Becomes(n, t)
  BY <1>1 DEF Local, Moves
<1>3. \A m \in Nodes : /\ task'[m].given = task[m].given
                       /\ task'[m].pc = "idle" <=> task[m].pc = "idle"
  BY <1>1, <1>2 DEF Local, Becomes, At
<1>4. Status' = Status /\ Given' = Given
  BY <1>1, <1>3 DEF Status, Given, Local, At
<1> QED
  BY <1>1, <1>4 DEF Plan!planVars, Local, Over

LEMMA JoinSettles ==
  ASSUME IInv, NEW n \in Nodes, Join(n)
  PROVE  Plan!Next
<1>1. task[n].pc = "ended" /\ task[n].outcome \in {"completed", "failed"} /\ results[n] = "none"
  BY DEF IInv, Typed, TaskOK, TaskType, LevelByLevel, Join, At
<1>2. n \in dag.nodes /\ Status[n] = "running"
  BY <1>1 DEF IInv, LevelByLevel, At, Status
<1>3. \A m \in Nodes : task'[m].given = task[m].given /\ (task'[m].pc = "idle" <=> task[m].pc = "idle")
  <2>1. task[n] \in TaskType
    BY DEF IInv, Typed
  <2>2. [task[n] EXCEPT !.pc = "joined"].given = task[n].given
    BY <2>1 DEF TaskType
  <2>3. [task[n] EXCEPT !.pc = "joined"].pc = "joined"
    BY <2>1 DEF TaskType
  <2> QED
    BY <1>1, <2>2, <2>3 DEF Join, IInv, Typed
<1>4. Given' = Given
  BY <1>3 DEF Given
<1>5. Status' = [Status EXCEPT ![n] = task[n].outcome]
  BY <1>1, <1>3 DEF Status, Join, At, IInv, Typed
<1>6. Plan!Settle(n)
  BY <1>1, <1>2, <1>4, <1>5 DEF Plan!Settle, Join, Over
<1> QED
  BY <1>2, <1>6 DEF Plan!Next

(* When no task is left, a node of a level begun earlier has its result.   *)
LEMMA Joined ==
  ASSUME IInv, JoinSet = {}, NEW n \in dag.nodes, dag.level[n] < begun
  PROVE  results[n] \in {"completed", "failed", "skipped"} /\ Status[n] = results[n]
<1>1. n \in Nodes /\ dag.level[n] \in Nat /\ begun \in Nat
  BY DEF IInv, Layered, Typed
<1>2. At(n, {"idle", "joined"})
  BY <1>1 DEF JoinSet
<1>3. ~ (At(n, {"idle"}) /\ results[n] = "none")
  BY <1>1 DEF IInv, LevelByLevel
<1>4. At(n, {"joined"}) => results[n] # "none"
  BY <1>1 DEF IInv, LevelByLevel, Typed, TaskOK, At
<1> QED
  BY <1>1, <1>2, <1>3, <1>4 DEF IInv, Typed, Status, At

LEMMA BeginLevelAdvances ==
  ASSUME IInv, BeginLevel
  PROVE  Plan!Next
<1> DEFINE level   == { n \in dag.nodes : dag.level[n] = begun }
           skipped == { n \in level : HasFailedDependency(n) }
           spawned == level \ skipped
           fresh(n) == [NewTask EXCEPT !.pc = "trying", !.given = Context(n)]
<1>1. /\ phase = "executing" /\ begun' = begun + 1 /\ JoinSet = {}
      /\ UNCHANGED <<phase, dag, config>>
      /\ results' = [n \in Nodes |-> IF n \in skipped THEN "skipped" ELSE results[n]]
      /\ task' = [n \in Nodes |-> IF n \in spawned THEN fresh(n) ELSE task[n]]
  BY DEF BeginLevel
<1>2. level \subseteq dag.nodes /\ level \subseteq Nodes
  BY DEF IInv, Layered
<1>3. \A n \in level : results[n] = "none" /\ task[n].pc = "idle" /\ Status[n] = "pending"
  BY <1>2 DEF IInv, LevelByLevel, At, Typed, Status
<1>4. ASSUME NEW n \in level, NEW d \in Deps(n)
      PROVE  Status[d] = results[d] /\ results[d] \in {"completed", "failed", "skipped"}
  <2>1. d \in dag.nodes /\ dag.level[d] < begun
    BY <1>2 DEF Deps, IInv, Layered
  <2> QED
    BY <1>1, <2>1, Joined
<1>5. \A n \in Nodes : Plan!DependsOn(n) = Deps(n) /\ Plan!Needs(n) \subseteq Deps(n)
  BY DEF Plan!DependsOn, Plan!Needs, Deps
<1>6. \A n \in spawned : Context(n) = Deps(n) /\ \A d \in Plan!DependsOn(n) : Status[d] = "completed"
  BY <1>2, <1>4, <1>5 DEF Context, HasFailedDependency
<1>7. \A n \in skipped : \E d \in Plan!DependsOn(n) : Status[d] \in {"failed", "skipped"}
  BY <1>2, <1>4, <1>5 DEF HasFailedDependency
<1>8. \A n \in Nodes : fresh(n).given = Context(n) /\ fresh(n).pc = "trying"
  BY DEF NewTask
<1> HIDE DEF level, fresh
<1>9. Status' = [n \in Nodes |-> IF n \in spawned THEN "running"
                                 ELSE IF n \in skipped THEN "skipped" ELSE Status[n]]
  BY <1>1, <1>3, <1>8 DEF Status, At
<1>10. /\ Given' \in [Nodes -> SUBSET Nodes]
       /\ \A n \in spawned : Plan!Needs(n) \subseteq Given'[n] /\ Given'[n] \subseteq Plan!DependsOn(n)
       /\ \A n \in Nodes \ spawned : Given'[n] = Given[n]
  <2>1. Given' = [n \in Nodes |-> IF n \in spawned THEN Context(n) ELSE task[n].given]
    BY <1>1, <1>8 DEF Given
  <2>2. \A n \in Nodes : Context(n) \in SUBSET Nodes /\ task[n].given \in SUBSET Nodes
    BY DEF Context, Deps, IInv, Layered, Typed, TaskType
  <2> QED
    BY <1>2, <1>5, <1>6, <2>1, <2>2 DEF Given
<1>11. Over' = Over
  BY <1>1 DEF Over
<1>12. Plan!Advance(spawned, skipped)
  BY <1>1, <1>3, <1>6, <1>7, <1>9, <1>10, <1>11 DEF Plan!Advance
<1> QED
  BY <1>2, <1>12 DEF Plan!Next

LEMMA StepRefines ==
  ASSUME IInv, [Next]_vars
  PROVE  PlanNext
<1> USE DEF PlanNext
<1>1. CASE UNCHANGED <<executor, dag>> /\ (phase' = "executing" <=> phase = "executing")
  BY <1>1 DEF executor, Plan!planVars, Status, Given, Over, At
<1>2. CASE ApprovePlan \/ Assess \/ PlanningFails \/ RejectPlan
  BY <1>2 DEF ApprovePlan, Assess, PlanningFails, RejectPlan, IInv, Untouched, executor,
              Plan!planVars, Status, Given, Over, At
<1>3. CASE BuildDag
  <2>1. PICK p \in Plans : \E f \in Levels(p) :
          Accepted(p) /\ dag' = [nodes |-> Ids(p), edges |-> p.edges, order |-> p.order, level |-> f]
    BY <1>3 DEF BuildDag
  <2>2. dag.nodes = {} /\ begun = 0 /\ UNCHANGED executor
    BY <1>3 DEF BuildDag, IInv, Untouched
  <2>3. /\ dag'.nodes \subseteq Nodes /\ dag'.edges \subseteq dag'.nodes \X dag'.nodes
        /\ dag'.order \subseteq dag'.edges
    BY <2>1, WorkflowAssumption DEF Ids, Range, Accepted
  <2>4. Plan!Adopt
    BY <2>2, <2>3 DEF Plan!Adopt, executor, Status, Given, Over, At
  <2> QED
    BY <2>4 DEF Plan!Next
<1>4. CASE EndExecution
  <2>1. UNCHANGED <<executor, dag>> /\ JoinSet = {} /\ ~LevelsLeft /\ phase' # "executing"
    BY <1>4 DEF EndExecution
  <2>2. Status' = Status /\ Given' = Given
    BY <2>1 DEF executor, Status, Given, At
  <2>3. \A n \in dag.nodes : dag.level[n] < begun
    BY <2>1 DEF LevelsLeft, IInv, Layered, Typed
  <2>4. \A n \in dag.nodes : Plan!Settled(n)
    BY <2>1, <2>3, Joined DEF Plan!Settled
  <2>5. CASE begun = 0
    BY <2>1, <2>2, <2>5 DEF executor, Over, Plan!planVars
  <2>6. CASE begun > 0
    <3>1. Plan!Conclude
      BY <2>1, <2>2, <2>4, <2>6 DEF executor, Over, Plan!Conclude
    <3> QED
      BY <3>1 DEF Plan!Next
  <2> QED
    BY <2>5, <2>6 DEF IInv, Typed
<1>5. ASSUME NEW n \in Nodes, TaskStep(n)
      PROVE  PlanNext
  BY <1>5, TaskStepStutters
<1>6. ASSUME NEW n \in Nodes, Join(n)
      PROVE  PlanNext
  BY <1>6, JoinSettles
<1>7. CASE BeginLevel
  BY <1>7, BeginLevelAdvances
<1>8. CASE Synthesize \/ UNCHANGED vars
  BY <1>1, <1>8 DEF Synthesize, vars, executor
<1> QED
  BY <1>2, <1>3, <1>4, <1>5, <1>6, <1>7, <1>8 DEF Next, Coordinate

-----------------------------------------------------------------------------
(* The invariant holds in every state.                                     *)
THEOREM Invariance == Spec => []IInv
<1>1. Init => IInv
  BY Initially
<1>2. IInv /\ [Next]_vars => IInv'
  BY Inductive
<1> QED
  BY <1>1, <1>2, PTL DEF Spec

(* DagExecutor::execute() runs every accepted plan as PlanRun promises:    *)
(* dependencies first, none lost, skips only below a failure, all settled  *)
(* before the answer.                                                      *)
THEOREM ExecutorRunsPlan == Spec => PlanRuns
<1>1. Init => Plan!Init
  BY DEF Init, Plan!Init, Status, Given, Over, At, NewTask
<1>2. IInv /\ [Next]_vars => [Plan!Next]_(Plan!planVars)
  BY StepRefines DEF PlanNext
<1> QED
  BY <1>1, <1>2, Invariance, PTL DEF Spec, PlanRuns, Plan!Spec

(* No install command counts as done unless a human granted it in that     *)
(* try (execute_shell_node_traced, execute_connect_mcp_node).              *)
THEOREM InstallsAreGranted == Spec => []InstalledMeansGranted
<1>1. IInv => InstalledMeansGranted
  BY DEF IInv, Typed, TaskOK, Installs, LevelByLevel, At, InstalledMeansGranted
<1> QED
  BY <1>1, Invariance, PTL
-----------------------------------------------------------------------------
(* mcp.json.                                                               *)
(* The servers whose node wrote them.                                      *)
Done == { n \in Nodes : /\ Connects(n) /\ At(n, {"ended", "joined"})
                        /\ task[n].outcome = "completed" }

(* The file has the servers of before and those, but for the time of a     *)
(* write, and every node between its read and its write has them in        *)
(* memory, except those that may be forgotten; of two such nodes both are. *)
Kept ==
  /\ \/ \E n \in Nodes : At(n, {"writing"})
     \/ (Known \cup Done) \ forgotten \subseteq config
  /\ \A n \in Nodes : Connecting(n) =>
       /\ (Known \cup Done) \ forgotten \subseteq task[n].seen
       /\ \A m \in Nodes \ {n} : Connecting(m) => n \in forgotten

ConfigInv == IInv /\ Kept

LEMMA TriedEffect ==
  ASSUME Typed, NEW n \in Nodes, NEW ok \in BOOLEAN, Tried(n, ok)
  PROVE  /\ task'[n].pc \in {"ended", "trying"}
         /\ ~ok /\ task'[n].pc = "ended" => task'[n].outcome = "failed"
<1>1. task[n] \in TaskType /\ task \in [Nodes -> TaskType]
  BY DEF Typed
<1>2. CASE ok
  BY <1>1, <1>2 DEF Tried, Ends, TaskType
<1>3. CASE ~ok /\ Ends(n, "failed")
  BY <1>1, <1>3 DEF Ends, TaskType
<1>4. CASE ~ok /\ task' = [task EXCEPT ![n].pc = "trying", ![n].retries = @ + 1, ![n].granted = FALSE]
  <2>1. task'[n].pc = "trying"
    BY <1>1, <1>4 DEF TaskType
  <2> QED
    BY <1>4, <2>1
<1> QED
  BY <1>2, <1>3, <1>4 DEF Tried

(* A step of a task leaves those of the others alone.                      *)
LEMMA OthersStay ==
  ASSUME Typed, NEW n \in Nodes, TaskStep(n)
  PROVE  /\ \A m \in Nodes \ {n} : task'[m] = task[m]
         /\ ~ At(n, {"idle", "ended", "joined"})
         /\ UNCHANGED <<phase, dag, begun, results>>
<1>1. Local(n)
  BY TaskStepLocal
<1>2. PICK t : Becomes(n, t)
  BY <1>1 DEF Local, Moves
<1> QED
  BY <1>1, <1>2 DEF Becomes, Local, Typed

(* The steps that are not about mcp.json neither end a connection nor come *)
(* to the write.                                                           *)
FileStep(n) == ReadConfig(n) \/ Truncate(n) \/ WriteConfig(n) \/ WriteFails(n)

Ended(n) == At(n, {"ended"}) /\ task[n].outcome = "completed"

LEMMA QuietStep ==
  ASSUME Typed, NEW n \in Nodes, TaskStep(n), ~ FileStep(n)
  PROVE  /\ UNCHANGED <<config, forgotten>>
         /\ ~ At(n, {"writing"}) /\ ~ At(n, {"merging", "writing"})'
         /\ Connects(n) => ~ Ended(n)'
<1>0. task[n] \in TaskType /\ task \in [Nodes -> TaskType] /\ TaskOK(n, task[n])
  BY DEF Typed
<1> USE DEF At, Ended, Connects
<1>1. CASE Try(n)
  <2>1. UNCHANGED <<config, forgotten>> /\ task[n].pc = "trying"
    BY <1>1 DEF Try
  <2>2. CASE \/ Kind[n] = "agent" /\ task' = [task EXCEPT ![n].pc = "thinking", ![n].iter = 0]
             \/ Goes(n, "asking") \/ Goes(n, "reading")
    BY <1>0, <2>1, <2>2 DEF Goes, TaskType
  <2>3. CASE CallDirectly(n)
    BY <2>1, <2>3, TriedEffect DEF CallDirectly
  <2>4. CASE Tried(n, FALSE)
    BY <2>1, <2>4, TriedEffect
  <2> QED
    BY <1>1, <2>2, <2>3, <2>4 DEF Try
<1>2. CASE Think(n)
  <2>1. UNCHANGED <<config, forgotten>> /\ task[n].pc = "thinking" /\ Kind[n] = "agent"
    BY <1>0, <1>2 DEF Think, TaskOK
  <2>2. CASE Tried(n, FALSE) \/ Tried(n, TRUE)
    BY <2>1, <2>2, TriedEffect
  <2>3. CASE \E calls \in Replies : task' = [task EXCEPT ![n].pc = "calling", ![n].calls = calls]
    BY <1>0, <2>1, <2>3 DEF TaskType
  <2> QED
    BY <1>2, <2>2, <2>3 DEF Think
<1>3. ASSUME NEW ok \in BOOLEAN, CallOver(n, ok)
      PROVE  task'[n].pc \notin {"merging", "writing"} /\ (Connects(n) => ~ Ended(n)')
  <2>1. CASE Kind[n] = "agent" /\ task' = [task EXCEPT ![n].pc = "calling", ![n].calls = Tail(@)]
    BY <1>0, <2>1 DEF TaskType
  <2>2. CASE Goes(n, "reading")
    BY <1>0, <2>2 DEF Goes, TaskType
  <2>3. CASE Tried(n, FALSE) \/ (Kind[n] = "install" /\ Tried(n, ok))
    BY <2>3, TriedEffect
  <2> QED
    BY <1>3, <2>1, <2>2, <2>3 DEF CallOver
<1>4. CASE Call(n)
  <2>1. UNCHANGED <<config, forgotten>> /\ task[n].pc = "calling"
    BY <1>4 DEF Call
  <2>2. CASE Goes(n, "asking")
    BY <1>0, <2>1, <2>2 DEF Goes, TaskType
  <2>3. CASE CallOver(n, TRUE)
    BY <1>3, <2>1, <2>3
  <2> QED
    BY <1>4, <2>2, <2>3 DEF Call
<1>5. CASE NextIteration(n) \/ Grant(n)
  <2>1. UNCHANGED <<config, forgotten>> /\ task[n].pc \in {"calling", "asking"}
    BY <1>5 DEF NextIteration, Grant
  <2>2. task'[n].pc \in {"thinking", "running"}
    BY <1>0, <1>5 DEF NextIteration, Grant, TaskType
  <2> QED
    BY <2>1, <2>2
<1>6. CASE Panic(n)
  <2>1. UNCHANGED <<config, forgotten>> /\ task[n].pc # "writing"
    BY <1>6 DEF Panic
  <2>2. task'[n].pc = "ended" /\ task'[n].outcome = "failed"
    BY <1>0, <1>6 DEF Panic, Ends, TaskType
  <2> QED
    BY <2>1, <2>2
<1>7. CASE Run(n)
  <2>1. UNCHANGED <<config, forgotten>> /\ task[n].pc = "running"
    BY <1>7 DEF Run
  <2> QED
    BY <1>3, <1>7, <2>1 DEF Run
<1>8. CASE Refuse(n)
  <2>1. UNCHANGED <<config, forgotten>> /\ task[n].pc = "asking"
    BY <1>8 DEF Refuse
  <2> QED
    BY <1>3, <1>8, <2>1 DEF Refuse
<1> QED
  BY <1>1, <1>2, <1>4, <1>5, <1>6, <1>7, <1>8 DEF TaskStep, FileStep

(* What a step of a task may add to the servers that were written.         *)
LEMMA DoneGrows ==
  ASSUME Typed, NEW n \in Nodes, TaskStep(n)
  PROVE  Done' \subseteq Done \cup {n} /\ ((Connects(n) => ~ Ended(n)') => Done' = Done)
<1>1. /\ \A m \in Nodes \ {n} : task'[m] = task[m]
      /\ ~ At(n, {"idle", "ended", "joined"})
  BY OthersStay
<1>2. \A m \in Nodes \ {n} : m \in Done' <=> m \in Done
  BY <1>1 DEF Done, At, Connects
<1>3. n \notin Done
  BY <1>1 DEF Done, At
<1>4. At(n, {"joined"})' => FALSE
  <2>1. Local(n)
    BY TaskStepLocal
  <2>2. PICK t : Becomes(n, t)
    BY <2>1 DEF Local, Moves
  <2> QED
    BY <2>2 DEF Becomes, At, Typed
<1>5. n \in Done' => Connects(n) /\ Ended(n)'
  BY <1>4 DEF Done, Ended, At, Connects
<1>6. Done' \subseteq Nodes /\ Done \subseteq Nodes
  BY DEF Done
<1> QED
  BY <1>2, <1>3, <1>5, <1>6

(* The steps of a task keep the servers.                                   *)
LEMMA TaskStepKept ==
  ASSUME ConfigInv, NEW n \in Nodes, TaskStep(n)
  PROVE  Kept'
<1>0. Typed /\ task \in [Nodes -> TaskType] /\ task[n] \in TaskType /\ Kept
  BY DEF ConfigInv, IInv, Typed
<1>1. /\ \A m \in Nodes \ {n} : task'[m] = task[m]
      /\ ~ At(n, {"idle", "ended", "joined"})
  BY <1>0, OthersStay
<1>2. Done' \subseteq Done \cup {n} /\ ((Connects(n) => ~ Ended(n)') => Done' = Done)
  BY <1>0, DoneGrows
<1>3. CASE ~ FileStep(n)
  <2>1. /\ UNCHANGED <<config, forgotten>>
        /\ ~ At(n, {"writing"}) /\ ~ Connecting(n)'
        /\ Done' = Done
    BY <1>0, <1>2, <1>3, QuietStep DEF Connecting, At
  <2> QED
    BY <1>0, <1>1, <2>1 DEF Kept, Connecting, At
<1>4. CASE ReadConfig(n)
  <2>1. PICK seen \in {config, {}} :
          /\ task' = [task EXCEPT ![n].pc = "merging", ![n].seen = seen]
          /\ forgotten' = forgotten \cup Overlap(n) \cup (config \ seen)
          /\ config' = config /\ task[n].pc = "reading"
    BY <1>4 DEF ReadConfig, At
  <2>2. task'[n].pc = "merging" /\ task'[n].seen = seen
    BY <1>0, <2>1 DEF TaskType
  <2>3. Done' = Done
    BY <1>2, <2>2 DEF Ended, At
  <2>4. \A m \in Nodes \ {n} : /\ (Connecting(m)' <=> Connecting(m))
                                /\ (At(m, {"writing"})' <=> At(m, {"writing"}))
    BY <1>1 DEF Connecting, At
  <2>5. \A m \in Nodes \ {n} : Connecting(m) => {m, n} \subseteq forgotten'
    BY <2>1 DEF Overlap
  <2>6. (Known \cup Done) \ forgotten' \subseteq seen
    <3>1. CASE \E m \in Nodes : At(m, {"writing"})
      <4>1. PICK m \in Nodes \ {n} : At(m, {"writing"})
        BY <2>1, <3>1 DEF At
      <4>2. task[m].seen \subseteq forgotten'
        BY <2>1, <4>1 DEF Overlap, Connecting, At
      <4> QED
        BY <1>0, <2>1, <4>1, <4>2 DEF Kept, Connecting, At
    <3>2. CASE ~ \E m \in Nodes : At(m, {"writing"})
      BY <1>0, <2>1, <3>2 DEF Kept
    <3> QED
      BY <3>1, <3>2
  <2> QED
    BY <1>0, <1>1, <2>1, <2>2, <2>3, <2>4, <2>5, <2>6 DEF Kept, At, Connecting
<1>5. CASE Truncate(n)
  <2>1. task[n].pc = "merging" /\ UNCHANGED forgotten
    BY <1>5 DEF Truncate, At
  <2>2. task'[n].pc = "writing" /\ task'[n].seen = task[n].seen
    BY <1>0, <1>5 DEF Truncate, Goes, TaskType
  <2>3. Done' = Done
    BY <1>2, <2>2 DEF Ended, At
  <2>4. \A m \in Nodes : (Connecting(m)' <=> Connecting(m)) /\ task'[m].seen = task[m].seen
    BY <1>1, <2>1, <2>2 DEF Connecting, At
  <2>5. At(n, {"writing"})'
    BY <2>2 DEF At
  <2> QED
    BY <1>0, <2>1, <2>3, <2>4, <2>5 DEF Kept
<1>6. CASE WriteConfig(n)
  <2>1. task[n].pc = "writing" /\ Tried(n, TRUE)
    BY <1>6 DEF WriteConfig, Written, At
  <2>2. \/ config' = task[n].seen \cup {n} /\ forgotten' = forgotten
        \/ config' = {} /\ forgotten' = forgotten \cup task[n].seen \cup {n}
    BY <1>6 DEF WriteConfig, Written
  <2>3. ~ Connecting(n)' /\ Connecting(n) /\ \A m \in Nodes \ {n} : Connecting(m)' <=> Connecting(m)
    BY <1>0, <1>1, <2>1, TriedEffect DEF Connecting, At
  <2>4. (Known \cup Done) \ forgotten \subseteq task[n].seen
    BY <1>0, <2>3 DEF Kept
  <2>5. (Known \cup Done') \ forgotten' \subseteq config'
    BY <1>2, <2>2, <2>4
  <2>6. ASSUME NEW m \in Nodes, Connecting(m)'
        PROVE  (Known \cup Done') \ forgotten' \subseteq task'[m].seen
    <3>1. m # n /\ Connecting(m) /\ task'[m] = task[m]
      BY <1>1, <2>3, <2>6
    <3>2. n \in forgotten /\ forgotten \subseteq forgotten'
      BY <1>0, <2>2, <2>3, <3>1 DEF Kept
    <3>3. (Known \cup Done) \ forgotten \subseteq task[m].seen
      BY <1>0, <3>1 DEF Kept
    <3> QED
      BY <1>2, <3>1, <3>2, <3>3
  <2>7. \A m, k \in Nodes : Connecting(m)' /\ Connecting(k)' /\ m # k => m \in forgotten'
    BY <1>0, <2>2, <2>3 DEF Kept
  <2> QED
    BY <2>5, <2>6, <2>7 DEF Kept
<1>7. CASE WriteFails(n)
  <2>1. /\ Tried(n, FALSE)
        /\ \/ task[n].pc = "merging" /\ UNCHANGED <<config, forgotten>>
           \/ task[n].pc = "writing" /\ forgotten' = forgotten \cup task[n].seen
    BY <1>7 DEF WriteFails, At
  <2>2. task'[n].pc \in {"ended", "trying"} /\ (task'[n].pc = "ended" => task'[n].outcome = "failed")
    BY <1>0, <2>1, TriedEffect
  <2>3. Done' = Done
    BY <1>2, <2>2 DEF Ended, At
  <2>4. ~ Connecting(n)' /\ Connecting(n) /\ \A m \in Nodes \ {n} : Connecting(m)' <=> Connecting(m)
    BY <1>1, <2>1, <2>2 DEF Connecting, At
  <2>5. \A m, k \in Nodes : Connecting(m)' /\ Connecting(k)' /\ m # k => m \in forgotten'
    BY <1>0, <2>1, <2>4 DEF Kept
  <2>6. CASE task[n].pc = "merging"
    <3>1. \A m \in Nodes : At(m, {"writing"})' <=> At(m, {"writing"})
      BY <1>1, <2>2, <2>6 DEF At
    <3> QED
      BY <1>0, <1>1, <2>1, <2>3, <2>4, <2>5, <2>6, <3>1 DEF Kept
  <2>7. CASE task[n].pc = "writing"
    <3>1. (Known \cup Done) \ forgotten' = {}
      BY <1>0, <2>1, <2>4, <2>7 DEF Kept
    <3> QED
      BY <2>3, <2>5, <3>1 DEF Kept
  <2> QED
    BY <2>1, <2>6, <2>7
<1> QED
  BY <1>3, <1>4, <1>5, <1>6, <1>7 DEF FileStep

LEMMA JoinKept ==
  ASSUME ConfigInv, NEW n \in Nodes, Join(n)
  PROVE  Kept'
<1>0. task \in [Nodes -> TaskType] /\ task[n] \in TaskType
  BY DEF ConfigInv, IInv, Typed
<1>1. /\ task[n].pc = "ended" /\ UNCHANGED <<config, forgotten>>
      /\ task'[n].pc = "joined" /\ task'[n].outcome = task[n].outcome
      /\ \A m \in Nodes \ {n} : task'[m] = task[m]
  BY <1>0 DEF Join, At, TaskType
<1>2. Done' = Done
  BY <1>1 DEF Done, At, Connects
<1>3. ~ Connecting(n) /\ ~ Connecting(n)' /\ ~ At(n, {"writing"}) /\ ~ At(n, {"writing"})'
  BY <1>1 DEF Connecting, At
<1> QED
  BY <1>1, <1>2, <1>3 DEF ConfigInv, Kept, Connecting, At

LEMMA BeginLevelKept ==
  ASSUME ConfigInv, BeginLevel
  PROVE  Kept'
<1> DEFINE level   == { n \in dag.nodes : dag.level[n] = begun }
           skipped == { n \in level : HasFailedDependency(n) }
           fresh(n) == [NewTask EXCEPT !.pc = "trying", !.given = Context(n)]
<1>1. /\ JoinSet = {} /\ UNCHANGED <<config, forgotten>>
      /\ task' = [n \in Nodes |-> IF n \in level \ skipped THEN fresh(n) ELSE task[n]]
  BY DEF BeginLevel
<1>2. level \subseteq Nodes
  BY DEF ConfigInv, IInv, Layered
<1>3. \A n \in Nodes : At(n, {"idle", "joined"})
  BY <1>1 DEF JoinSet
<1>4. \A n \in level : task[n].pc = "idle"
  BY <1>2 DEF ConfigInv, IInv, LevelByLevel, At, Typed
<1>5. \A n \in Nodes : fresh(n).pc = "trying"
  BY DEF NewTask
<1> HIDE DEF fresh, level
<1>6. Done' = Done
  BY <1>1, <1>4, <1>5 DEF Done, At, Connects
<1>7. \A n \in Nodes : ~ At(n, {"writing"}) /\ ~ At(n, {"writing"})' /\ ~ Connecting(n)'
  BY <1>1, <1>3, <1>5 DEF At, Connecting
<1> QED
  BY <1>1, <1>6, <1>7 DEF ConfigInv, Kept

LEMMA ConfigInductive ==
  ASSUME ConfigInv, [Next]_vars
  PROVE  ConfigInv'
<1>2. IInv'
  BY Inductive DEF ConfigInv
<1>3. CASE UNCHANGED executor
  <2>1. Kept'
    BY <1>3 DEF ConfigInv, Kept, Done, At, Connects, Connecting, executor
  <2> QED
    BY <1>2, <2>1 DEF ConfigInv
<1>4. ASSUME NEW n \in Nodes, TaskStep(n)
      PROVE  ConfigInv'
  BY <1>2, <1>4, TaskStepKept DEF ConfigInv
<1>5. ASSUME NEW n \in Nodes, Join(n)
      PROVE  ConfigInv'
  BY <1>2, <1>5, JoinKept DEF ConfigInv
<1>6. CASE BeginLevel
  BY <1>2, <1>6, BeginLevelKept DEF ConfigInv
<1> QED
  BY <1>3, <1>4, <1>5, <1>6
     DEF Next, Coordinate, Assess, BuildDag, PlanningFails, ApprovePlan, RejectPlan, EndExecution,
         Synthesize, vars, executor

(* mcp.json is read, emptied and written by tasks that retry and panic, in *)
(* three steps each, several of a level beside each other; it has every    *)
(* server that was there and every one reported as connected, except those *)
(* a failed read or write or an overlapping node dropped                   *)
(* (execute_connect_mcp_node).                                             *)
THEOREM ServersConfigured == Spec => []Configured
<1>1. Init => ConfigInv
  <2> SUFFICES ASSUME Init PROVE ConfigInv
    OBVIOUS
  <2>1. \A n \in Nodes : task[n].pc = "idle"
    BY DEF Init, NewTask
  <2>2. Kept
    BY <2>1 DEF Init, Kept, Done, Connecting, At
  <2> QED
    BY <2>2, Initially DEF ConfigInv
<1>2. ConfigInv /\ [Next]_vars => ConfigInv'
  BY ConfigInductive
<1>3. ConfigInv => Configured
  <2> SUFFICES ASSUME ConfigInv PROVE Configured
    OBVIOUS
  <2>1. TypeOK
    <3> SUFFICES ASSUME NEW n \in Nodes
                 PROVE  /\ task[n].pc \in Places
                        /\ task[n].retries \in 0 .. MaxRetries[n]
                        /\ task[n].iter \in 0 .. MaxIterations
                        /\ task[n].outcome \in {"none", "completed", "failed"}
                        /\ At(n, {"ended", "joined"}) => task[n].outcome # "none"
      BY DEF ConfigInv, IInv, Typed, Layered, TypeOK
    <3>1. task[n] \in TaskType /\ TaskOK(n, task[n])
      BY DEF ConfigInv, IInv, Typed
    <3>2. /\ task[n].retries \in Nat /\ task[n].iter \in Nat
          /\ task[n].retries <= MaxRetries[n] /\ task[n].iter <= MaxIterations
      BY <3>1 DEF TaskType, TaskOK
    <3> QED
      BY <3>1, <3>2, LoopBounds DEF TaskType, TaskOK, At
  <2>2. Connected \subseteq Done
    BY DEF ConfigInv, IInv, Layered, LevelByLevel, Connected, Done, At
  <2> QED
    BY <2>1, <2>2 DEF ConfigInv, Kept, Configured
<1> QED
  BY <1>1, <1>2, <1>3, PTL DEF Spec
==============================================================================
