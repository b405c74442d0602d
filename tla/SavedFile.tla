----------------------------- MODULE SavedFile -----------------------------
(***************************************************************************)
(* A JSON file that is saved through a temporary one, as models.json       *)
(* (save_models_config, src/core/config.rs) and schedule.json              *)
(* (save_schedule, src/scheduler.rs) are: the temporary file is created    *)
(* empty, filled and renamed.  Every writer uses the same temporary name.  *)
(***************************************************************************)
CONSTANTS Torn, Absent  \* contents: not parsable, and no file

ASSUME SavedFileAssumption == Torn # Absent

Saved(x) == [file |-> x, tmp |-> Absent]

\* Mutant: the file itself is emptied, then filled.
EmptiedInPlace(f) == [f EXCEPT !.file = Torn]

(* std::fs::write truncates before it writes.                              *)
Emptied(f) == [f EXCEPT !.tmp = Torn]

(* A writer fills the file it opened, also when another renamed it since.  *)
Filled(f, x) == IF f.tmp = Absent THEN [f EXCEPT !.file = x] ELSE [f EXCEPT !.tmp = x]

(* rename fails, and changes nothing, when another took the file away.     *)
Renamed(f) == IF f.tmp = Absent THEN f ELSE Saved(f.tmp)
=============================================================================
