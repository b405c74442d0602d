------------------------------- MODULE PlanRun -------------------------------
(***************************************************************************)
(* What the execution of a workflow plan promises (WorkflowEngine::process *)
(* and DagExecutor::execute), whatever the levels, retries, approvals and  *)
(* tools inside: every step of the plan runs at most once, after all the   *)
(* steps it depends on completed, with the results of all those its Data   *)
(* edges name and of no step it does not depend on; a step is skipped only *)
(* for a dependency that failed or was itself skipped; and the plan is not *)
(* over before every step is settled.  An Order edge says of itself that   *)
(* data is not passed (workflow/node.rs:41); the executor passes it all    *)
(* the same, so here both are allowed.                                     *)
(***************************************************************************)
CONSTANT Nodes

VARIABLES ids,     \* the steps of the plan
          edges,   \* <<d, n>>: step n depends on step d
          order,   \* the edges that only order the steps
          status,  \* status[n]: how far step n is
          given,   \* given[n]: the steps whose results n was started with
          over     \* the results go to the answer

planVars == <<ids, edges, order, status, given, over>>

DependsOn(n) == { d \in ids : <<d, n>> \in edges }
Needs(n) == { d \in DependsOn(n) : <<d, n>> \notin order }
Settled(n) == status[n] \in {"completed", "failed", "skipped"}

Init ==
  /\ ids = {} /\ edges = {} /\ order = {}
  /\ status = [n \in Nodes |-> "pending"]
  /\ given = [n \in Nodes |-> {}]
  /\ over = FALSE

Adopt ==
  /\ ids = {}
  /\ ids' \in SUBSET Nodes /\ edges' \in SUBSET (ids' \X ids')
  /\ order' \in SUBSET edges'
  /\ UNCHANGED <<status, given, over>>

(* Steps of the plan are started and skipped together.                     *)
Advance(started, skipped) ==
  /\ \A n \in started \cup skipped : status[n] = "pending"
  /\ \A n \in started : \A d \in DependsOn(n) : status[d] = "completed"
  /\ \A n \in skipped : \E d \in DependsOn(n) : status[d] \in {"failed", "skipped"}
  /\ status' = [n \in Nodes |-> IF n \in started THEN "running"
                                ELSE IF n \in skipped THEN "skipped" ELSE status[n]]
  /\ given' \in [Nodes -> SUBSET Nodes]
  /\ \A n \in started : Needs(n) \subseteq given'[n] /\ given'[n] \subseteq DependsOn(n)
  /\ \A n \in Nodes \ started : given'[n] = given[n]
  /\ UNCHANGED <<ids, edges, order, over>>

Settle(n) ==
  /\ status[n] = "running"
  /\ \E s \in {"completed", "failed"} : status' = [status EXCEPT ![n] = s]
  /\ UNCHANGED <<ids, edges, order, given, over>>

Conclude ==
  /\ \A n \in ids : Settled(n)
  /\ over' = TRUE
  /\ UNCHANGED <<ids, edges, order, status, given>>

Next ==
  \/ Adopt \/ Conclude
  \/ \E started, skipped \in SUBSET ids : Advance(started, skipped)
  \/ \E n \in ids : Settle(n)

Spec == Init /\ [][Next]_planVars
==============================================================================
