---------------------------- MODULE ApprovalSlot ----------------------------
(***************************************************************************)
(* SharedApprovalHandler (src/core/approval.rs): one slot, behind a tokio  *)
(* RwLock, that holds the handler through which a human is asked.  Every   *)
(* request of a connector puts its own handler there with                  *)
(* ApprovalSlotGuard::set and clears the slot when the guard is dropped.   *)
(* The code that runs the request reads the slot: the worker, a sub-agent  *)
(* and a background task copy the handler out of it; a workflow asks the   *)
(* human while it holds the read lock.                                     *)
(*                                                                         *)
(* The lock is tokio's: waiters are served first come first served, so a   *)
(* reader waits behind a queued writer, and try_write succeeds only when   *)
(* nobody holds it or waits.  A request, its handler and its guard are one *)
(* value here; a request has one guard in its life.                        *)
(***************************************************************************)
EXTENDS Integers, Sequences

CONSTANTS Requests,  \* requests of the connectors
          Cli,       \* those of the CLI: one at a time, and Esc aborts them
          Copies,    \* reads that copy the handler and release the lock
          Asks,      \* questions of workflows, asked under the read lock
          Owner,     \* Owner[r]: the request on whose behalf r reads
          None       \* the empty slot

ASSUME SlotAssumption ==
  /\ Cli \subseteq Requests
  /\ Copies \cap Asks = {}
  /\ Owner \in [Copies \cup Asks -> Requests]
  /\ None \notin Requests

Readers == Copies \cup Asks

VARIABLES
  slot,     \* the handler in the slot, or None
  guard,    \* guard[g]: "idle", "setting" (in set().await), "aborted"
             \* (the same, after Esc), "live" or "gone"
  clears,   \* guards whose deferred clear is spawned and has not run yet
  waiting,  \* the lock's waiters, oldest first
  holders,  \* who holds the lock
  reader,   \* reader[r]: "idle", "reading", "asking" or "done"
  handler   \* handler[r]: what r found in the slot

slotVars == <<slot, guard, clears, waiting, holders, reader, handler>>

Setter(g) == <<"set", g>>
Clearer(g) == <<"clear", g>>
Lender(r) == <<"read", r>>

Writers == {Setter(g) : g \in Requests} \cup {Clearer(g) : g \in Requests}
LockUsers == Writers \cup {Lender(r) : r \in Readers}

Waiters == {waiting[i] : i \in DOMAIN waiting}

-----------------------------------------------------------------------------
InitSlot ==
  /\ slot = None
  /\ guard = [g \in Requests |-> "idle"]
  /\ clears = {}
  /\ waiting = <<>>
  /\ holders = {}
  /\ reader = [r \in Readers |-> "idle"]
  /\ handler = [r \in Readers |-> None]

(* The lock serves its oldest waiter.                                      *)
Grant ==
  /\ waiting # <<>>
  /\ IF Head(waiting) \in Writers THEN holders = {} ELSE holders \cap Writers = {}
  /\ holders' = holders \cup {Head(waiting)}
  /\ waiting' = Tail(waiting)
  /\ UNCHANGED <<slot, guard, clears, reader, handler>>

(* ApprovalSlotGuard::set(slot, handler).await.  The CLI takes the next    *)
(* message after Esc, or once the agent is done, which may be before the   *)
(* connector has returned.                                                 *)
Set(g) ==
  /\ guard[g] = "idle"
  /\ g \in Cli => \A o \in Cli : guard[o] # "setting"
  /\ guard' = [guard EXCEPT ![g] = "setting"]
  /\ waiting' = Append(waiting, Setter(g))
  /\ UNCHANGED <<slot, clears, holders, reader, handler>>

(* An abort takes effect at the task's next await: a granted set may win.  *)
WriteHandler(g) ==
  /\ Setter(g) \in holders
  /\ slot' = g
  /\ guard' = [guard EXCEPT ![g] = "live"]
  /\ holders' = holders \ {Setter(g)}
  /\ UNCHANGED <<clears, waiting, reader, handler>>

(* Esc: agent_task.abort().  (Of a live guard Esc is one cause to drop it.) *)
Interrupt(g) ==
  /\ g \in Cli /\ guard[g] = "setting"
  /\ guard' = [guard EXCEPT ![g] = "aborted"]
  /\ UNCHANGED <<slot, clears, waiting, holders, reader, handler>>

(* The task is dropped in set(): there is no guard, the waiter leaves.     *)
AbortSetting(g) ==
  /\ guard[g] = "aborted"
  /\ guard' = [guard EXCEPT ![g] = "gone"]
  /\ holders' = holders \ {Setter(g)}
  /\ \/ Setter(g) \in holders /\ UNCHANGED waiting
     \/ \E i \in DOMAIN waiting :
          /\ waiting[i] = Setter(g)
          /\ waiting' = [j \in 1 .. Len(waiting) - 1 |->
                           IF j < i THEN waiting[j] ELSE waiting[j + 1]]
  /\ UNCHANGED <<slot, clears, reader, handler>>

TryWriteSucceeds == holders = {} /\ waiting = <<>>

GuardGoes(g) ==
  /\ guard[g] = "live"
  /\ guard' = [guard EXCEPT ![g] = "gone"]
  /\ UNCHANGED <<waiting, holders, reader, handler>>

\* Mutant: a drop that finds the lock taken does nothing.
DropIfFree(g) ==
  /\ GuardGoes(g)
  /\ slot' = IF TryWriteSucceeds THEN None ELSE slot
  /\ UNCHANGED clears

(* Drop: the request was answered, timed out, failed or was aborted.       *)
DropGuard(g) ==
  /\ GuardGoes(g)
  /\ \/ TryWriteSucceeds /\ slot' = None /\ UNCHANGED clears
     \/ ~TryWriteSucceeds /\ clears' = clears \cup {g} /\ UNCHANGED slot

(* The spawned task reaches slot.write().await.                            *)
DeferredClear(g) ==
  /\ g \in clears
  /\ clears' = clears \ {g}
  /\ waiting' = Append(waiting, Clearer(g))
  /\ UNCHANGED <<slot, guard, holders, reader, handler>>

ClearSlot(g) ==
  /\ Clearer(g) \in holders
  /\ slot' = None
  /\ holders' = holders \ {Clearer(g)}
  /\ UNCHANGED <<guard, clears, waiting, reader, handler>>

-----------------------------------------------------------------------------
(* The agent runs for a request once its connector has published it, which *)
(* is after set(); it may still run when the connector has given up.       *)
Read(r) ==
  /\ guard[Owner[r]] \in {"live", "gone"}
  /\ reader[r] = "idle"
  /\ reader' = [reader EXCEPT ![r] = "reading"]
  /\ waiting' = Append(waiting, Lender(r))
  /\ UNCHANGED <<slot, guard, clears, holders, handler>>

Finds(r) ==
  /\ reader[r] = "reading" /\ Lender(r) \in holders
  /\ handler' = [handler EXCEPT ![r] = slot]
  /\ UNCHANGED <<slot, guard, clears, waiting>>

(* shared_approval.read().await.clone()                                    *)
Copy(r) ==
  /\ r \in Copies
  /\ Finds(r)
  /\ reader' = [reader EXCEPT ![r] = "done"]
  /\ holders' = holders \ {Lender(r)}

\* Mutant: the workflow copies the handler out and asks without the lock.
AskCopy(r) ==
  /\ r \in Asks
  /\ Finds(r)
  /\ reader' = [reader EXCEPT ![r] = IF slot = None THEN "done" ELSE "asking"]
  /\ holders' = holders \ {Lender(r)}

(* A workflow's request_approval(): without a handler it decides at once,  *)
(* with one it awaits the human under the read lock.                       *)
Ask(r) ==
  /\ r \in Asks
  /\ Finds(r)
  /\ \/ /\ slot = None
        /\ reader' = [reader EXCEPT ![r] = "done"]
        /\ holders' = holders \ {Lender(r)}
     \/ /\ slot # None
        /\ reader' = [reader EXCEPT ![r] = "asking"]
        /\ UNCHANGED holders

Decided(r) ==
  /\ reader[r] = "asking"
  /\ reader' = [reader EXCEPT ![r] = "done"]
  /\ UNCHANGED <<slot, guard, clears, waiting, handler>>

\* Mutant: the read guard outlives the question.
AnswerKeepsLock(r) == Decided(r) /\ UNCHANGED holders

(* The human decides, the handler times out (Telegram) or its responder is *)
(* dropped (CLI); the read lock is released.                               *)
Answer(r) == Decided(r) /\ holders' = holders \ {Lender(r)}

NextSlot ==
  \/ Grant
  \/ \E g \in Requests :
       \/ Set(g) \/ WriteHandler(g) \/ Interrupt(g) \/ AbortSetting(g)
       \/ DropGuard(g) \/ DeferredClear(g) \/ ClearSlot(g)
  \/ \E r \in Readers : Read(r) \/ Copy(r) \/ Ask(r) \/ Answer(r)

(* Tasks run on, a connector gives up after its deadline, a question is    *)
(* decided.  Nothing makes a request or a read begin, nor anyone press Esc.*)
Fairness ==
  /\ WF_slotVars(Grant)
  /\ \A g \in Requests : /\ WF_slotVars(WriteHandler(g)) /\ WF_slotVars(DropGuard(g))
                         /\ WF_slotVars(DeferredClear(g)) /\ WF_slotVars(ClearSlot(g))
  /\ \A r \in Readers : WF_slotVars(Copy(r)) /\ WF_slotVars(Ask(r)) /\ WF_slotVars(Answer(r))

SlotSpec == InitSlot /\ [][NextSlot]_slotVars
FairSpec == SlotSpec /\ Fairness

-----------------------------------------------------------------------------
(* Every variable stays in its domain; the lock admits one writer or any   *)
(* number of readers (Grant); a question is open only with a handler to    *)
(* put it to (request_approval of the workflow).                           *)
SlotTypeOK ==
  /\ slot \in Requests \cup {None}
  /\ guard \in [Requests -> {"idle", "setting", "aborted", "live", "gone"}]
  /\ clears \subseteq Requests
  /\ waiting \in Seq(LockUsers)
  /\ holders \subseteq LockUsers
  /\ reader \in [Readers -> {"idle", "reading", "asking", "done"}]
  /\ handler \in [Readers -> Requests \cup {None}]
  /\ \A w \in holders \cap Writers : holders = {w}
  /\ \A r \in Asks : reader[r] = "asking" => handler[r] # None

ClearUnderWay(g) == g \in clears \/ Clearer(g) \in Waiters \cup holders

(* The slot never keeps the handler of a request that is over: its guard   *)
(* lives, or the clear its drop deferred is still to run, however sets,    *)
(* clears, questions and aborts of several requests cross (Drop).          *)
NoDeadHandler ==
  slot # None => guard[slot] = "live" \/ ClearUnderWay(slot)

(* While a workflow's question is open nobody replaces or clears the       *)
(* handler it was put to (the read guard held across request_approval).    *)
HandlerPinned ==
  \A r \in Asks : reader[r] = "asking" => slot = handler[r]

(* Whoever waits for the lock gets it: no circle of questions, deferred    *)
(* clears and sets that wait for one another; and a request's handler      *)
(* leaves the slot after the request, however late its clear was served.   *)
WaitersServed ==
  /\ \A w \in LockUsers : w \in Waiters ~> w \notin Waiters
  /\ \A g \in Requests : guard[g] = "gone" ~> [](slot # g)
=============================================================================
