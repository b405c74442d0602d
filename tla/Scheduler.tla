----------------------------- MODULE Scheduler -----------------------------
(***************************************************************************)
(* The scheduler of the daemon (src/scheduler.rs) and the manage_schedule  *)
(* tool (src/tools/schedule.rs).  The tick loads schedule.json, runs the   *)
(* tasks that are due one by one, which may take minutes, and saves the    *)
(* list it loaded; the tool loads, changes and saves it at any time.       *)
(***************************************************************************)
EXTENDS Integers, FiniteSets, SavedFile

CONSTANTS Entries,  \* entries the tool creates
          Once,     \* those with once_at; the others have a cron expression
          At,       \* At[e]: the once_at of a one-time entry
          Tools,    \* calls of manage_schedule at the same time
          MaxTime   \* bound: times of the clock

Rows == [id : Entries, ran : BOOLEAN, last : 0 .. MaxTime]

ASSUME SchedulerAssumption ==
  /\ Once \subseteq Entries /\ MaxTime \in Nat /\ "tick" \notin Tools
  /\ At \in [Once -> 0 .. MaxTime]
  /\ \A R \in SUBSET Rows : R \notin {Torn, Absent}

VARIABLES
  clock,     \* the time
  now,       \* the time of the tick
  schedule,  \* schedule.json and its temporary file
  work,      \* work[w]: the step a writer is in, and its copy of the list
  fires,     \* fires[e]: times the task was started, up to 2
  made,      \* entries the tool was asked to create
  gone,      \* entries the tool was asked to delete
  kept,      \* entries the tool answered for after a save that went through
  during,    \* history: of these, the ones saved while a tick ran its tasks
  stale,     \* history: another writer changed the list in the midst of a save
  unnoted    \* history: one-time entries that ran, and the tick did not save it

scheduleVars == <<clock, now, schedule, work, fires, made, gone, kept, during, stale, unnoted>>

Writers == Tools \cup {"tick"}
Resting == [at |-> "idle", list |-> {}]

InitSchedule ==
  /\ clock = 0 /\ now = 0 /\ schedule = Saved(Absent)
  /\ work = [w \in Writers |-> Resting]
  /\ fires = [e \in Entries |-> 0]
  /\ made = {} /\ gone = {} /\ kept = {} /\ during = {} /\ stale = FALSE /\ unnoted = {}

(* load_schedule: without a file, or with one that cannot be parsed, the   *)
(* list is empty.                                                          *)
LoadSchedule == IF schedule.file \in {Torn, Absent} THEN {} ELSE schedule.file

EntryIds(list) == {entry.id : entry \in list}
Listed(id) == id \in EntryIds(LoadSchedule)

(* should_fire: a one-time entry once, at its time or later; a cron entry  *)
(* when a time of its expression (here, each) has come since its last run  *)
(* or its creation.                                                        *)
ShouldFire(entry) ==
  IF entry.id \in Once THEN At[entry.id] <= now /\ ~entry.ran ELSE entry.last < now

Take(w, step, list) == work' = [work EXCEPT ![w] = [at |-> step, list |-> list]]
Step(w, step) == work' = [work EXCEPT ![w].at = step]

(* Another writer is in the midst of a save: a tool call between its load  *)
(* and its rename, the tick after it ran its tasks.                        *)
Overlaps(w) == \E v \in Writers \ {w} : work[v].at \notin {"idle", "run"}

(* One-time entries that ran and are listed still.                         *)
Unnoted == {e \in Once : fires[e] > 0 /\ Listed(e)}

-----------------------------------------------------------------------------
Minute ==
  /\ clock < MaxTime /\ clock' = clock + 1
  /\ UNCHANGED <<now, schedule, work, fires, made, gone, kept, during, stale, unnoted>>

(* The tick, a minute after the last one ended.                            *)
Tick ==
  /\ work["tick"].at = "idle"
  /\ IF LoadSchedule = {}
       THEN UNCHANGED <<now, work>>
       ELSE now' = clock /\ Take("tick", "run", LoadSchedule)
  /\ UNCHANGED <<clock, schedule, fires, made, gone, kept, during, stale, unnoted>>

(* execute_entry and notify_users: whatever comes out, the run is noted.   *)
Ran(entry) == [entry EXCEPT !.ran = TRUE, !.last = now]

Fire(entry) ==
  /\ work["tick"].at = "run" /\ entry \in work["tick"].list /\ ShouldFire(entry)
  /\ fires' = [fires EXCEPT ![entry.id] = IF @ = 2 THEN 2 ELSE @ + 1]
  /\ Take("tick", "run", (work["tick"].list \ {entry}) \cup {Ran(entry)})
  /\ UNCHANGED <<clock, now, schedule, made, gone, kept, during, stale, unnoted>>

\* Mutant: every entry that ran is dropped.
RetainUnrun(list) == {entry \in list : ~entry.ran}

(* Entries with once_at that ran are dropped.                              *)
Retain(list) == {entry \in list : ~(entry.id \in Once /\ entry.ran)}

TickEnds ==
  /\ work["tick"].at = "run"
  /\ \A entry \in work["tick"].list : ~ShouldFire(entry)
  /\ IF \E entry \in work["tick"].list : entry.ran /\ entry.last = now
       THEN Take("tick", "create", Retain(work["tick"].list)) /\ stale' = (stale \/ Overlaps("tick"))
       ELSE Take("tick", "idle", {}) /\ UNCHANGED stale
  /\ UNCHANGED <<clock, now, schedule, fires, made, gone, kept, during, unnoted>>

-----------------------------------------------------------------------------
(* manage_schedule: create and delete.                                     *)
Add(w, id) ==
  /\ w \in Tools /\ work[w].at = "idle" /\ id \notin made
  /\ Take(w, "create", LoadSchedule \cup {[id |-> id, ran |-> FALSE, last |-> clock]})
  /\ made' = made \cup {id}
  /\ stale' = (stale \/ Overlaps(w))
  /\ UNCHANGED <<clock, now, schedule, fires, gone, kept, during, unnoted>>

Delete(w, id) ==
  /\ w \in Tools /\ work[w].at = "idle" /\ Listed(id)
  /\ Take(w, "create", {entry \in LoadSchedule : entry.id # id})
  /\ gone' = gone \cup {id}
  /\ stale' = (stale \/ Overlaps(w))
  /\ UNCHANGED <<clock, now, schedule, fires, made, kept, during, unnoted>>

(* save_schedule.                                                          *)
SaveSchedule(w) ==
  /\ \/ work[w].at = "create" /\ schedule' = Emptied(schedule) /\ Step(w, "fill")
     \/ work[w].at = "fill" /\ schedule' = Filled(schedule, work[w].list) /\ Step(w, "rename")
  /\ UNCHANGED <<clock, now, fires, made, gone, kept, during, stale, unnoted>>

(* The rename, after which the tool answers.                               *)
EndSave(w) ==
  /\ work[w].at = "rename" /\ schedule' = Renamed(schedule) /\ Take(w, "idle", {})
  /\ IF w = "tick" THEN UNCHANGED <<kept, during>>
     ELSE /\ kept' = kept \cup EntryIds(work[w].list)
          /\ during' = IF work["tick"].at = "idle" THEN during
                       ELSE during \cup (EntryIds(work[w].list) \ EntryIds(work["tick"].list))
  /\ UNCHANGED <<clock, now, fires, made, gone, stale, unnoted>>

(* The write or the rename fails: it is logged, and the tool answers that  *)
(* the entry was created or deleted.                                       *)
SaveFails(w) ==
  /\ work[w].at \in {"create", "fill", "rename"} /\ Take(w, "idle", {})
  /\ unnoted' = IF w = "tick" THEN unnoted \cup Unnoted ELSE unnoted
  /\ UNCHANGED <<clock, now, schedule, fires, made, gone, kept, during, stale>>

(* The process ends: what was not saved is lost, and a run is done again.  *)
EndSchedule ==
  /\ work' = [w \in Writers |-> Resting] /\ unnoted' = unnoted \cup Unnoted
  /\ UNCHANGED <<clock, now, schedule, fires, made, gone, kept, during, stale>>

(* Tick is a step of its own: not of a process that is shutting down.      *)
NextSchedule ==
  \/ Minute \/ TickEnds
  \/ \E entry \in work["tick"].list : Fire(entry)
  \/ \E w \in Tools, id \in Entries : Add(w, id) \/ Delete(w, id)
  \/ \E w \in Writers : SaveSchedule(w) \/ EndSave(w) \/ SaveFails(w)
-----------------------------------------------------------------------------
(* An entry the tool answered for after a save that went through is in     *)
(* schedule.json until it was run or deleted, and a one-time entry runs    *)
(* once, whatever crashes or fails in whatever step; but an entry that was *)
(* saved while a tick ran its tasks may be lost, a run that the tick did   *)
(* not save is repeated, and nothing is said after two saves overlapped.   *)
EntriesSurvive ==
  ~stale =>
    /\ schedule.file # Torn
    /\ \A e \in kept \ (gone \cup during) : Listed(e) \/ (e \in Once /\ fires[e] > 0)
    /\ \A e \in Once \ unnoted : fires[e] <= 1
=============================================================================
