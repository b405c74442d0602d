------------------------------- MODULE Tasks -------------------------------
(***************************************************************************)
(* Background tasks: the registry (src/task_registry.rs), background shell *)
(* commands (src/tools/shell.rs) and sub-agents (src/tools/task.rs), which *)
(* run in tokio tasks of their own and are looked at with check_task.      *)
(***************************************************************************)
CONSTANTS Commands,  \* background calls of execute_shell
          SubAgents  \* calls of spawn_task

Jobs == Commands \cup SubAgents

VARIABLES
  status,  \* status[t]: the registry's TaskStatus, or "none" without an entry
  job,     \* job[t]: the tokio task: "none", "queued", "runs", "over", "panicked"
  child    \* child[t]: the shell: "none", "runs" or "done", its pipes closed

taskVars == <<status, job, child>>

InitTasks ==
  /\ status = [t \in Jobs |-> "none"] /\ job = [t \in Jobs |-> "none"]
  /\ child = [t \in Jobs |-> "none"]

Finished(t) == status[t] \in {"completed", "failed"}

(* insert, then tokio::spawn.  A call that is refused before (arguments,   *)
(* length, policy, no registry, an unknown agent) changes nothing.         *)
Spawn(t) ==
  /\ status[t] = "none" /\ job[t] = "none"
  /\ status' = [status EXCEPT ![t] = "pending"]
  /\ job' = [job EXCEPT ![t] = "queued"]
  /\ UNCHANGED child

(* set_running; the log line after it cuts the command at byte 100, and    *)
(* panics when that is inside a character.                                 *)
SetRunning(t) ==
  /\ job[t] = "queued"
  /\ status' = [status EXCEPT ![t] = "running"]
  /\ \E next \in {"runs"} \cup (IF t \in Commands THEN {"panicked"} ELSE {}) :
       job' = [job EXCEPT ![t] = next]
  /\ UNCHANGED child

(* set_completed or set_failed, the last thing a job does.                 *)
Settle(t, how) ==
  /\ status' = [status EXCEPT ![t] = how]
  /\ job' = [job EXCEPT ![t] = "over"]

(* run_command: the shell is started, or cannot be.                        *)
StartShell(t) ==
  /\ t \in Commands /\ job[t] = "runs" /\ child[t] = "none"
  /\ \/ child' = [child EXCEPT ![t] = "runs"] /\ UNCHANGED <<status, job>>
     \/ Settle(t, "failed") /\ UNCHANGED child

(* The shell ends and nothing it started holds its output (external).      *)
ShellEnds(t) ==
  /\ child[t] = "runs"
  /\ child' = [child EXCEPT ![t] = "done"]
  /\ UNCHANGED <<status, job>>

(* The output is there, whatever the exit code.                            *)
Output(t) ==
  /\ job[t] = "runs" /\ child[t] = "done"
  /\ Settle(t, "completed") /\ UNCHANGED child

\* Mutant: without the timeout.
NeverExpires(t) == FALSE /\ UNCHANGED taskVars

(* The timeout drops the future; kill_on_drop is not set, so the shell     *)
(* goes on.                                                                *)
TimesOut(t) ==
  /\ job[t] = "runs" /\ child[t] # "none"
  /\ Settle(t, "failed") /\ UNCHANGED child

(* The sub-agent's process_text returns.  It has no deadline, and its web  *)
(* tools have none: it may also run for ever.                              *)
AgentReturns(t) ==
  /\ t \in SubAgents /\ job[t] = "runs"
  /\ \E how \in {"completed", "failed"} : Settle(t, how)
  /\ UNCHANGED child

(* The process ends, and its registry with it; the shells go on.           *)
EndTasks ==
  /\ status' = [t \in Jobs |-> "none"]
  /\ job' = [t \in Jobs |-> IF job[t] = "none" THEN "none" ELSE "over"]
  /\ UNCHANGED child

JobSteps(t) == SetRunning(t) \/ StartShell(t) \/ Output(t) \/ TimesOut(t)

NextTask == \E t \in Jobs : Spawn(t) \/ JobSteps(t) \/ AgentReturns(t)
-----------------------------------------------------------------------------
(* check_task and list_tasks show a task as pending or running only while  *)
(* something works on it, or its job panicked; and every command is        *)
(* settled in the end, also when its shell hangs, and every sub-agent that *)
(* does not run for ever, unless the job panicked or the process ended.    *)
TasksSettle ==
  /\ [](\A t \in Jobs : status[t] \in {"pending", "running"} => job[t] \in {"queued", "runs", "panicked"})
  /\ \A t \in Jobs :
       job[t] = "queued" ~> \/ Finished(t) \/ status[t] = "none"
                            \/ job[t] = "panicked" \/ (t \in SubAgents /\ job[t] = "runs")
=============================================================================
