------------------------------ MODULE MCDaemon ------------------------------
(* Two commands and two pids; a one-time and a cron entry.  The commands,   *)
(* the schedule, the tasks, the backup and the update are explored apart,   *)
(* each but the first against one daemon that starts, crashes and starts    *)
(* again.                                                                   *)
EXTENDS Daemon, TLC

CONSTANTS first, second, p1, a
MCAt == (first :> 1)

OneDaemon ==
  /\ \A p \in Pids \ {p1} : proc[p] = "none"
  /\ proc[p1] \in {"none", "starting", "plain", "dead"}
  /\ \A c \in Cmds \ {a} : cmd[c] = NoCmd
  /\ proc[p1] = "plain" => cmd[a] = NoCmd
NoSchedule == made = {} /\ clock = 0
NoTasks == \A t \in Jobs : job[t] = "none"
NoGit == edit = 0 /\ ~diverged
NoUpdates == update = NoUpdate /\ exe = Saved("old")

Apart ==
  \/ NoSchedule /\ NoTasks /\ NoGit /\ NoUpdates
  \/ OneDaemon /\ \/ NoTasks /\ NoGit /\ NoUpdates /\ ~stale
                  \/ NoSchedule /\ NoGit /\ NoUpdates
                  \/ NoSchedule /\ NoTasks /\ NoUpdates
                  \/ NoSchedule /\ NoTasks /\ NoGit

MCSpec == Init /\ [][Next /\ Apart']_vars /\ Fairness
=============================================================================
