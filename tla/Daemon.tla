------------------------------- MODULE Daemon -------------------------------
(***************************************************************************)
(* The daemon: `zymi`, `zymi stop` and `zymi status` (src/daemon.rs) around *)
(* `zymi run` (src/main.rs), with what lives in it: the scheduler, the     *)
(* background tasks and the git backup (src/git_sync.rs); and `zymi update`, *)
(* which replaces the program under it.                                    *)
(*                                                                         *)
(* Commands run at any time, also two at once.  Time passes in steps of    *)
(* five seconds, the only duration here: `zymi stop` waits that long for   *)
(* the process, and the process for each of its background tasks.          *)
(***************************************************************************)
EXTENDS Scheduler, Tasks

CONSTANTS Pids, Cmds, MaxEdits, None

ASSUME DaemonAssumption ==
  /\ MaxEdits \in Nat /\ None \notin Pids /\ "empty" \notin Pids \cup {None}

VARIABLES
  pidFile,   \* zymi.pid: a pid, "empty" while it is written, or None
  proc,      \* proc[p]: the process with that pid
  cmd,       \* cmd[c]: the step a command is in, and the pid it works with
  untrack,   \* history: two commands overlapped, a process outlived kill, or
             \* the PID file of a process could not be written
  edit, head, remote,  \* the last change, the last committed, the last pushed
  diverged,  \* the remote has commits of another machine
  beat,      \* the heartbeat: "rests" or "pushes"
  exe,       \* the program and its update-tmp file
  inPlace,   \* a copy over the program itself has begun, and is not complete
  update     \* the step `zymi update` is in, and the release it has

controlVars == <<pidFile, proc, cmd, untrack>>
gitVars == <<edit, head, remote, diverged, beat>>
updateVars == <<exe, inPlace, update>>
vars == <<controlVars, gitVars, updateVars, taskVars, scheduleVars>>

NoCmd == [at |-> "idle", pid |-> None]
NoUpdate == [at |-> "idle", release |-> None]

Init ==
  /\ pidFile = None /\ proc = [p \in Pids |-> "none"] /\ cmd = [c \in Cmds |-> NoCmd]
  /\ untrack = FALSE
  /\ edit = 0 /\ head = 0 /\ remote = 0 /\ diverged = FALSE /\ beat = "rests"
  /\ exe = Saved("old") /\ inPlace = FALSE /\ update = NoUpdate
  /\ InitTasks /\ InitSchedule

-----------------------------------------------------------------------------
(* A daemon: starting, with the Telegram connector or without, and in      *)
(* shutdown_app, before the first and the second handle it waits for in    *)
(* vain (the agent worker and the audit projection do not see the token).  *)
Daemons == {p \in Pids : proc[p] \notin {"none", "dead", "stranger"}}
Serving == {p \in Pids : proc[p] \in {"telegram", "plain"}}
Working == {p \in Daemons : proc[p] # "starting"}

(* is_pid_alive: any process with the pid.                                 *)
Alive(p) == p \in Pids /\ proc[p] \notin {"none", "dead"}

Becomes(p, x) == proc' = [proc EXCEPT ![p] = x]
Goes(c, step, p) == cmd' = [cmd EXCEPT ![c] = [at |-> step, pid |-> p]]
EndsCmd(c) == cmd' = [cmd EXCEPT ![c] = NoCmd]

(* What lives in the process ends with it.                                 *)
EndWork == EndSchedule /\ EndTasks /\ beat' = "rests"
             /\ UNCHANGED <<edit, head, remote, diverged>>
KeepWork == UNCHANGED <<scheduleVars, taskVars, gitVars>>

Begins(c) ==
  /\ cmd[c].at = "idle"
  /\ untrack' = (untrack \/ \E d \in Cmds : cmd[d].at # "idle")

(* start: is_running, spawn, the PID file, and a look at the process.      *)
StartChecks(c) ==
  /\ Begins(c)
  /\ IF Alive(pidFile) THEN UNCHANGED cmd ELSE Goes(c, "spawn", None)
  /\ KeepWork /\ UNCHANGED <<pidFile, proc, updateVars>>

SpawnDaemon(c, p) ==
  /\ cmd[c].at = "spawn" /\ ~Alive(p)
  /\ Becomes(p, "starting") /\ Goes(c, "write", p)
  /\ KeepWork /\ UNCHANGED <<pidFile, untrack, updateVars>>

WritePid(c) ==
  /\ \/ cmd[c].at = "write" /\ pidFile' = "empty" /\ Goes(c, "fill", cmd[c].pid)
     \/ /\ cmd[c].at = "fill" /\ Goes(c, "watch", cmd[c].pid)
        /\ pidFile' = IF pidFile = None THEN None ELSE cmd[c].pid
  /\ KeepWork /\ UNCHANGED <<proc, untrack, updateVars>>

(* The write fails: the command ends, and leaves the process to itself.    *)
WriteFails(c) ==
  /\ cmd[c].at \in {"write", "fill"} /\ EndsCmd(c) /\ untrack' = TRUE
  /\ KeepWork /\ UNCHANGED <<pidFile, proc, updateVars>>

(* remove_file, whose error is dropped.                                    *)
Removed == pidFile' \in {None, pidFile}

(* The log, which is appended to, is rarely empty: the first look decides. *)
Watch(c) ==
  /\ cmd[c].at = "watch" /\ EndsCmd(c)
  /\ IF Alive(cmd[c].pid) THEN UNCHANGED pidFile ELSE Removed
  /\ KeepWork /\ UNCHANGED <<proc, untrack, updateVars>>

(* stop: SIGTERM, which only a process without Telegram handles.           *)
Terminate(p) ==
  IF proc[p] \in {"plain", "closing", "waiting", "pushing"}
    THEN /\ IF proc[p] = "plain" THEN Becomes(p, "closing") ELSE UNCHANGED proc
         /\ KeepWork
    ELSE Becomes(p, "dead") /\ (IF p \in Daemons THEN EndWork ELSE KeepWork)

\* Mutant: a process that was sent the signal is taken for dead.
StopTrusts(c) ==
  /\ Begins(c)
  /\ IF Alive(pidFile)
       THEN Terminate(pidFile) /\ Goes(c, "remove", pidFile)
       ELSE Goes(c, "remove", None) /\ KeepWork /\ UNCHANGED proc
  /\ UNCHANGED <<pidFile, updateVars>>

StopChecks(c) ==
  /\ Begins(c)
  /\ IF Alive(pidFile)
       THEN Terminate(pidFile) /\ Goes(c, "poll", pidFile)
       ELSE Goes(c, "remove", None) /\ KeepWork /\ UNCHANGED proc
  /\ UNCHANGED <<pidFile, updateVars>>

(* status forgets a daemon it does not find.                               *)
StatusChecks(c) ==
  /\ Begins(c)
  /\ IF Alive(pidFile) THEN UNCHANGED cmd ELSE Goes(c, "remove", None)
  /\ KeepWork /\ UNCHANGED <<pidFile, proc, updateVars>>

Polls(c) ==
  /\ cmd[c].at = "poll" /\ ~Alive(cmd[c].pid)
  /\ Goes(c, "remove", None)
  /\ KeepWork /\ UNCHANGED <<pidFile, proc, untrack, updateVars>>

(* SIGKILL; a process in an uninterruptible call outlives it.              *)
Forces(c) ==
  /\ cmd[c].at = "force" /\ Goes(c, "remove", None)
  /\ LET p == cmd[c].pid IN
       \/ ~Alive(p) /\ KeepWork /\ UNCHANGED <<proc, untrack>>
       \/ /\ Alive(p) /\ Becomes(p, "dead")
          /\ (IF p \in Daemons THEN EndWork ELSE KeepWork) /\ UNCHANGED untrack
       \/ Alive(p) /\ untrack' = TRUE /\ KeepWork /\ UNCHANGED proc
  /\ UNCHANGED <<pidFile, updateVars>>

RemovePid(c) ==
  /\ cmd[c].at = "remove" /\ EndsCmd(c) /\ Removed
  /\ KeepWork /\ UNCHANGED <<proc, untrack, updateVars>>

-----------------------------------------------------------------------------
(* build_app pulls first; without a model, a database or a valid config    *)
(* the process ends.                                                       *)
Ready(p) ==
  /\ proc[p] = "starting"
  /\ \E x \in {"telegram", "plain", "dead"} : Becomes(p, x)
  /\ \/ diverged' = (diverged /\ edit # head)
     \/ UNCHANGED diverged
  /\ UNCHANGED <<edit, head, remote, beat, scheduleVars, taskVars>>
  /\ UNCHANGED <<pidFile, cmd, untrack, updateVars>>

(* The handles before these two end when the token is cancelled.           *)
FiveSeconds ==
  /\ \/ \E c \in Cmds : cmd[c].at = "poll"
     \/ \E p \in Pids : proc[p] \in {"closing", "waiting"}
  /\ cmd' = [c \in Cmds |-> IF cmd[c].at = "poll" THEN [cmd[c] EXCEPT !.at = "force"] ELSE cmd[c]]
  /\ proc' = [p \in Pids |-> CASE proc[p] = "closing" -> "waiting"
                               [] proc[p] = "waiting" -> "pushing"
                               [] OTHER -> proc[p]]
  /\ KeepWork /\ UNCHANGED <<pidFile, untrack, updateVars>>

(* The rest of shutdown_app: the final commit and push, either of which    *)
(* may fail, and the end of the process.                                   *)
FinalPush(p) ==
  /\ proc[p] = "pushing" /\ Becomes(p, "dead")
  /\ head' \in {head, edit} /\ remote' \in {remote} \cup (IF diverged THEN {} ELSE {head'})
  /\ beat' = "rests" /\ UNCHANGED <<edit, diverged>>
  /\ EndSchedule /\ EndTasks
  /\ UNCHANGED <<pidFile, cmd, untrack, updateVars>>

Crash(p) ==
  /\ p \in Daemons /\ Becomes(p, "dead") /\ EndWork
  /\ UNCHANGED <<pidFile, cmd, untrack, updateVars>>

(* Another program gets the pid, or ends (external).                       *)
PidReused(p) ==
  /\ \/ proc[p] = "dead" /\ Becomes(p, "stranger")
     \/ proc[p] = "stranger" /\ Becomes(p, "dead")
  /\ KeepWork /\ UNCHANGED <<pidFile, cmd, untrack, updateVars>>

-----------------------------------------------------------------------------
(* write_memory changes a file and commits; the commit may fail, and other *)
(* writers (the summaries, the schedule) do not commit.                    *)
Edit ==
  /\ Serving # {} /\ edit < MaxEdits
  /\ edit' = edit + 1 /\ head' \in {head, edit + 1}
  /\ UNCHANGED <<remote, diverged, beat>>

\* Mutant: the heartbeat pushes what it has committed itself.
BeatsOnCommit ==
  /\ Serving # {} /\ beat = "rests"
  /\ head' \in {head, edit}
  /\ beat' = IF head' # head THEN "pushes" ELSE "rests"
  /\ UNCHANGED <<edit, remote, diverged>>

(* heartbeat: commit, then push what the remote does not have.             *)
Beat ==
  /\ Serving # {} /\ beat = "rests"
  /\ head' \in {head, edit}
  /\ beat' = IF head' # remote THEN "pushes" ELSE "rests"
  /\ UNCHANGED <<edit, remote, diverged>>

Push ==
  /\ Serving # {} /\ beat = "pushes" /\ beat' = "rests"
  /\ remote' \in {remote} \cup (IF diverged THEN {} ELSE {head})
  /\ UNCHANGED <<edit, head, diverged>>

OtherMachine == diverged' = TRUE /\ UNCHANGED <<edit, head, remote, beat>>

GitStep == (Edit \/ Beat \/ Push \/ OtherMachine)
             /\ UNCHANGED <<controlVars, updateVars, scheduleVars, taskVars>>

-----------------------------------------------------------------------------
(* update: a download that may be cut short, its checksum when the release *)
(* lists one, then the copy beside the program and the rename over it.     *)
Advance(step) == update' = [update EXCEPT !.at = step] /\ UNCHANGED inPlace
EndsUpdate == update' = NoUpdate /\ UNCHANGED inPlace

(* It is the program that updates itself.                                  *)
Download ==
  /\ update.at = "idle" /\ exe.file # Torn
  /\ \E release \in {"new", "cut"} : update' = [at |-> "verify", release |-> release]
  /\ UNCHANGED <<exe, inPlace>>

Verify(listed) ==
  /\ update.at = "verify"
  /\ IF listed /\ update.release = "cut" THEN EndsUpdate ELSE Advance("extract")
  /\ UNCHANGED exe

Extract ==
  /\ update.at = "extract"
  /\ \/ update.release = "new" /\ Advance("copy")
     \/ EndsUpdate
  /\ UNCHANGED exe

Replace ==
  \/ update.at = "copy" /\ exe' = Emptied(exe) /\ Advance("fill")
  \/ update.at = "fill" /\ exe' = Filled(exe, update.release) /\ Advance("rename")
  \/ update.at = "rename" /\ exe' = Renamed(exe) /\ EndsUpdate

(* Without the permission to write beside the program (install.sh puts it  *)
(* into /usr/local/bin as root), `sudo cp -f` writes over it: cp empties   *)
(* or removes the file, then fills it.                                     *)
SudoCopies ==
  \/ /\ update.at = "copy" /\ exe' = [exe EXCEPT !.file = Torn] /\ inPlace' = TRUE
     /\ update' = [update EXCEPT !.at = "sudo"]
  \/ /\ update.at = "sudo" /\ exe' = [exe EXCEPT !.file = update.release] /\ inPlace' = FALSE
     /\ update' = NoUpdate

UpdateFails == update # NoUpdate /\ EndsUpdate /\ UNCHANGED exe

UpdateStep ==
  /\ Download \/ (\E listed \in BOOLEAN : Verify(listed)) \/ Extract \/ Replace \/ SudoCopies \/ UpdateFails
  /\ UNCHANGED <<controlVars, scheduleVars, taskVars, gitVars>>

-----------------------------------------------------------------------------
CommandStep(c) ==
  \/ StartChecks(c) \/ WritePid(c) \/ WriteFails(c) \/ Watch(c)
  \/ StopChecks(c) \/ StatusChecks(c) \/ Polls(c) \/ Forces(c) \/ RemovePid(c)
  \/ \E p \in Pids : SpawnDaemon(c, p)

ProcessStep == \E p \in Pids : Ready(p) \/ FinalPush(p) \/ Crash(p) \/ PidReused(p)

(* The scheduler sees the token when it sleeps; jobs and tools go on until *)
(* the process ends, and shells beyond.                                    *)
InDaemon ==
  \/ /\ \/ Serving # {} /\ Tick
        \/ Working # {} /\ NextSchedule
     /\ UNCHANGED <<controlVars, gitVars, updateVars, taskVars>>
  \/ /\ \/ Working # {} /\ NextTask
        \/ \E t \in Jobs : ShellEnds(t)
     /\ UNCHANGED <<controlVars, gitVars, updateVars, scheduleVars>>

Next ==
  \/ \E c \in Cmds : CommandStep(c)
  \/ ProcessStep \/ FiveSeconds \/ InDaemon \/ GitStep \/ UpdateStep

(* tokio runs what can run, the shells' deadline comes, the heartbeat      *)
(* beats, a commit does not always fail, and the remote can be reached     *)
(* again and again.  That a sub-agent returns is not assumed.              *)
Fairness ==
  /\ \A t \in Jobs : WF_vars(Working # {} /\ JobSteps(t) /\ UNCHANGED <<controlVars, gitVars, updateVars, scheduleVars>>)
  /\ SF_vars(Beat /\ head' = edit /\ UNCHANGED <<controlVars, updateVars, scheduleVars, taskVars>>)
  /\ SF_vars(Push /\ remote' = head /\ UNCHANGED <<controlVars, updateVars, scheduleVars, taskVars>>)

Spec == Init /\ [][Next]_vars /\ Fairness
-----------------------------------------------------------------------------
(* When no command runs, a daemon that lives is the one in zymi.pid, where *)
(* the next command finds it: there are never two daemons on one database, *)
(* and none that `zymi stop` cannot stop; after whatever crash or reuse of *)
(* a pid, unless two commands overlapped, a process outlived SIGKILL or    *)
(* the PID file could not be written, when the new daemon goes on unknown. *)
DaemonIsTracked ==
  (~untrack /\ \A c \in Cmds : cmd[c].at = "idle") => \A p \in Daemons : pidFile = p

(* A change in the memory directory reaches the remote, also when a commit *)
(* or a push failed, while a daemon serves and no other machine pushed.    *)
ChangesPushed ==
  \A n \in 1 .. MaxEdits : (edit = n /\ Serving # {}) ~> (remote >= n \/ diverged \/ Serving = {})

(* Whatever step an update fails in, the program is the old one or the     *)
(* whole new one; but sudo's copy over the program, while it is under way  *)
(* and once it was cut short, leaves no program.                           *)
BinaryWhole == ~inPlace => exe.file \in {"old", "new"}
=============================================================================
