------------------------------ MODULE AgentLoop ------------------------------
(***************************************************************************)
(* Agent::process_stream (core/agent.rs) on one conversation: route to the *)
(* workflow engine or prepare the stored history (core/history.rs), then   *)
(* let the model answer or call tools, every call through the dedup cache  *)
(* and the gate (esaa/orchestrator.rs and esaa/contracts.rs, or the tool's *)
(* own approval), every message written to the history table as it comes.  *)
(*                                                                         *)
(* Runs on a conversation follow one another: the CLI takes no message     *)
(* while one is processed, Telegram queues the updates of a chat, a photo  *)
(* or voice message that cancels an ask_user question included.  (Esc, a   *)
(* second text while a question is open and the connector's deadline let   *)
(* runs overlap: not in this module.)  The process crashes, the storage    *)
(* fails, the model fails, humans refuse.  The background summary that a   *)
(* finished run spawns is in Conversation.                                 *)
(***************************************************************************)
EXTENDS Naturals, Sequences, Messages

CONSTANTS Keys,           \* dedup keys: a tool's name with its arguments
          Gate,           \* Gate[k]: what stands between the call and its effect
          Questions,      \* keys of ask_user calls
          Replies,        \* sequences of keys that a model's reply may call
          MaxIterations,  \* max_iterations (25 in the code)
          MaxReviews,     \* the monitor's max_reviews
          MaxTroubles     \* bound on crashes and storage errors together

ASSUME AgentAssumption ==
  /\ Gate \in [Keys -> {"allowed", "denied", "contract", "tool"}]
  /\ Questions \subseteq Keys
  /\ Replies \subseteq Seq(Keys) \ {<<>>}
  /\ MaxIterations \in Nat /\ MaxReviews \in Nat
  /\ MaxTroubles \in Nat

VARIABLES
  stored,     \* the history table: the conversation's messages, in order
  run,        \* run[r]: where run r stands, and its local variables
  troubles,   \* crashes and storage errors so far
  kept,       \* history: runs whose user message was stored
  torn        \* history: a rewrite of the table was cut short

vars == <<stored, run, troubles, kept, torn>>
history == <<kept, torn>>

-----------------------------------------------------------------------------
NewRun == [pc |-> "new", prompt |-> <<>>, todo |-> <<>>, pending |-> <<>>, iter |-> 0,
           reviews |-> 0, cache |-> {}, dups |-> 0, fresh |-> FALSE, media |-> FALSE,
           granted |-> {}, executed |-> {}]   \* the last two are history

Init ==
  /\ stored = <<>>
  /\ run = [r \in Runs |-> NewRun]
  /\ troubles = 0
  /\ kept = {} /\ torn = FALSE

At(r, places) == run[r].pc \in places
Active(r) == ~ At(r, {"new", "done"})
Over == [NewRun EXCEPT !.pc = "done"]

Store(m) == stored' = Append(stored, m)

(* The conversation is free.                                               *)
Start(r) ==
  /\ At(r, {"new"})
  /\ \A o \in Runs : ~Active(o)
  /\ run' = [run EXCEPT ![r].pc = "routing"]
  /\ UNCHANGED <<stored, troubles, history>>

(* workflow_engine.process() answered: nothing of the user's is stored.    *)
WorkflowAnswers(r) ==
  /\ At(r, {"routing"})
  /\ run' = [run EXCEPT ![r].pc = "finalizing"]
  /\ UNCHANGED <<stored, troubles, history>>

(* A simple task, or an error of the engine: the standard loop.            *)
WorkflowDeclines(r) ==
  /\ At(r, {"routing"})
  /\ run' = [run EXCEPT ![r].pc = "preparing"]
  /\ UNCHANGED <<stored, troubles, history>>

(* prepare_messages(): load and sanitize; a changed history is written     *)
(* back, by a clear and one insert per message.                            *)
Load(r) ==
  /\ At(r, {"preparing"})
  /\ LET h == Sanitize(stored)
     IN  run' = [run EXCEPT ![r].prompt = h, ![r].todo = h,
                            ![r].pc = IF Len(h) # Len(stored) THEN "clearing" ELSE "adding"]
  /\ UNCHANGED <<stored, troubles, history>>

Cleared(r, left) ==
  /\ At(r, {"clearing"})
  /\ stored' = <<>>
  /\ run' = [run EXCEPT ![r].pc = "restoring", ![r].todo = left]
  /\ UNCHANGED <<troubles, history>>

\* Mutant: only the newest message is written back.
ClearMost(r) == Cleared(r, SubSeq(run[r].todo, Len(run[r].todo), Len(run[r].todo)))

Clear(r) == Cleared(r, run[r].todo)

Restore(r) ==
  /\ At(r, {"restoring"}) /\ run[r].todo # <<>>
  /\ Store(Head(run[r].todo))
  /\ run' = [run EXCEPT ![r].todo = Tail(@)]
  /\ UNCHANGED <<troubles, history>>

AddUser(r) ==
  /\ \/ At(r, {"adding"})
     \/ At(r, {"restoring"}) /\ run[r].todo = <<>>
  /\ Store(User(r))
  /\ run' = [run EXCEPT ![r].pc = "thinking", ![r].todo = <<>>,
                        ![r].prompt = Append(@, User(r))]
  /\ kept' = kept \cup {r}
  /\ UNCHANGED <<troubles, torn>>

-----------------------------------------------------------------------------
(* The loop leaves after max_iterations, or after two iterations in a row  *)
(* of nothing but duplicate calls.                                         *)
MustConclude(r) == run[r].iter = MaxIterations \/ run[r].dups >= 2

Thinks(r) == At(r, {"thinking"}) /\ ~MustConclude(r)

(* The model answers; while reviews are left the monitor sees a draft.     *)
Answer(r) ==
  /\ Thinks(r)
  /\ run' = [run EXCEPT ![r].pc = IF run[r].reviews < MaxReviews
                                  THEN "reviewing" ELSE "finalizing"]
  /\ UNCHANGED <<stored, troubles, history>>

(* run_monitor(): APPROVED, an empty review or an error.                   *)
Approve(r) ==
  /\ At(r, {"reviewing"})
  /\ run' = [run EXCEPT ![r].pc = "finalizing"]
  /\ UNCHANGED <<stored, troubles, history>>

Revised(r, reviews) ==
  /\ At(r, {"reviewing"})
  /\ run' = [run EXCEPT ![r].pc = "thinking", ![r].iter = @ + 1, ![r].reviews = reviews,
                        ![r].prompt = Append(@, Revision(r, run[r].iter))]
  /\ UNCHANGED <<stored, troubles, history>>

\* Mutant: the review is not counted, and the loop does not advance.
ReviseForEver(r) ==
  /\ At(r, {"reviewing"})
  /\ run' = [run EXCEPT ![r].pc = "thinking"]
  /\ UNCHANGED <<stored, troubles, history>>

Revise(r) == Revised(r, run[r].reviews + 1)

(* The model calls tools: its message is stored before any of them runs.   *)
CallTools(r) ==
  /\ Thinks(r)
  /\ \E keys \in Replies :
       LET m == Assistant(r, run[r].iter, Len(keys))
       IN  /\ Store(m)
           /\ run' = [run EXCEPT ![r].pc = "calling", ![r].fresh = FALSE,
                                 ![r].pending = keys, ![r].prompt = Append(@, m)]
  /\ UNCHANGED <<troubles, history>>

(* Forced conclusion: one more call of the model, without tools.           *)
Conclude(r) ==
  /\ At(r, {"thinking"}) /\ MustConclude(r)
  /\ run' = [run EXCEPT ![r].pc = "finalizing"]
  /\ UNCHANGED <<stored, troubles, history>>

-----------------------------------------------------------------------------
(* execute_tool_call() for the first call that is pending.                 *)
Key(r) == Head(run[r].pending)
Call(r) ==
  LET last == run[r].prompt[Len(run[r].prompt)]
      done == IF last.role = "result" THEN last.of[3] ELSE 0
  IN  <<r, run[r].iter, done + 1>>

IsDuplicate(r) == Key(r) \in run[r].cache

(* The call is over, its result goes to the history next.                  *)
Ends(r, media, effects) ==
  run' = [run EXCEPT ![r].pc = "storing", ![r].cache = @ \cup {Key(r)},
                     ![r].fresh = TRUE, ![r].media = @ \/ media,
                     ![r].executed = @ \cup effects]

Calling(r) == At(r, {"calling"}) /\ run[r].pending # <<>>

Duplicate(r) ==
  /\ Calling(r) /\ IsDuplicate(r)
  /\ run' = [run EXCEPT ![r].pc = "storing"]
  /\ UNCHANGED <<stored, troubles, history>>

(* Denied by a contract, or no such tool.                                  *)
Deny(r) ==
  /\ Calling(r) /\ ~IsDuplicate(r) /\ Gate[Key(r)] = "denied"
  /\ Ends(r, FALSE, {})
  /\ UNCHANGED <<stored, troubles, history>>

(* RequiresHumanApproval of the contracts, or requires_approval_for() of a *)
(* tool without an intention.                                              *)
Ask(r) ==
  /\ Calling(r) /\ ~IsDuplicate(r) /\ Gate[Key(r)] \in {"contract", "tool"}
  /\ run' = [run EXCEPT ![r].pc = "asking"]
  /\ UNCHANGED <<stored, troubles, history>>

Grant(r) ==
  /\ At(r, {"asking"})
  /\ run' = [run EXCEPT ![r].pc = "approved", ![r].granted = @ \cup {Call(r)}]
  /\ UNCHANGED <<stored, troubles, history>>

\* Mutant: the result of request_approval() is unwrapped to true.
RefuseUnlessError(r) ==
  /\ At(r, {"asking"})
  /\ Ends(r, FALSE, {}) \/ run' = [run EXCEPT ![r].pc = "approved"]
  /\ UNCHANGED <<stored, troubles, history>>

(* The human refuses, the handler times out, there is no handler, or the   *)
(* orchestrator's handler fails.                                           *)
Refuse(r) ==
  /\ At(r, {"asking"})
  /\ Ends(r, FALSE, {})
  /\ UNCHANGED <<stored, troubles, history>>

(* The tool runs, to a result or an error.  An ask_user call may be        *)
(* cancelled by media.                                                     *)
Execute(r) ==
  /\ \/ Calling(r) /\ ~IsDuplicate(r) /\ Gate[Key(r)] = "allowed"
     \/ At(r, {"approved"})
  /\ \E media \in {FALSE, Key(r) \in Questions} : Ends(r, media, {<<Call(r), Key(r)>>})
  /\ UNCHANGED <<stored, troubles, history>>

(* store_tool_result()                                                     *)
StoreResult(r) ==
  /\ At(r, {"storing"})
  /\ Store(ToolResult(Call(r)))
  /\ run' = [run EXCEPT ![r].pc = "calling", ![r].pending = Tail(@),
                        ![r].prompt = Append(@, ToolResult(Call(r)))]
  /\ UNCHANGED <<troubles, history>>

Answered(r) == At(r, {"calling"}) /\ run[r].pending = <<>>

(* Media took the place of an answer: the run ends without one.            *)
StopForMedia(r) ==
  /\ Answered(r) /\ run[r].media
  /\ run' = [run EXCEPT ![r] = Over]
  /\ UNCHANGED <<stored, troubles, history>>

NextIteration(r) ==
  /\ Answered(r) /\ ~run[r].media
  /\ LET dups == IF run[r].fresh THEN 0 ELSE run[r].dups + 1
     IN  run' = [run EXCEPT ![r].pc = "thinking", ![r].dups = dups, ![r].iter = @ + 1]
  /\ UNCHANGED <<stored, troubles, history>>

(* finalize_response()                                                     *)
Finalize(r) ==
  /\ At(r, {"finalizing"})
  /\ Store(Final(r))
  /\ run' = [run EXCEPT ![r] = Over]
  /\ UNCHANGED <<troubles, history>>

-----------------------------------------------------------------------------
(* The model or its timeout fails, or its answer is empty: Err.            *)
LlmFails(r) ==
  /\ At(r, {"thinking"})
  /\ run' = [run EXCEPT ![r] = Over]
  /\ UNCHANGED <<stored, troubles, history>>

(* The handler of a tool's own approval fails: Err (an orchestrator takes  *)
(* that for a refusal).                                                    *)
ApprovalFails(r) ==
  /\ At(r, {"asking"}) /\ Gate[Key(r)] = "tool"
  /\ run' = [run EXCEPT ![r] = Over]
  /\ UNCHANGED <<stored, troubles, history>>

Rewriting(r) == At(r, {"restoring"}) /\ run[r].todo # <<>>

(* A read or a write of the history fails: Err.                            *)
StorageFails(r) ==
  /\ troubles < MaxTroubles /\ troubles' = troubles + 1
  /\ At(r, {"preparing", "clearing", "restoring", "adding", "thinking", "storing", "finalizing"})
  /\ At(r, {"thinking"}) => ~MustConclude(r)
  /\ run' = [run EXCEPT ![r] = Over]
  /\ torn' = (torn \/ Rewriting(r))
  /\ UNCHANGED <<stored, kept>>

Crash ==
  /\ troubles < MaxTroubles /\ troubles' = troubles + 1
  /\ \E r \in Runs : Active(r)
  /\ run' = [r \in Runs |-> IF Active(r) THEN Over ELSE run[r]]
  /\ torn' = (torn \/ \E r \in Runs : Rewriting(r))
  /\ UNCHANGED <<stored, kept>>

Step(r) ==
  \/ WorkflowAnswers(r) \/ WorkflowDeclines(r)
  \/ Load(r) \/ Clear(r) \/ Restore(r) \/ AddUser(r)
  \/ Answer(r) \/ Approve(r) \/ Revise(r) \/ CallTools(r) \/ Conclude(r)
  \/ Duplicate(r) \/ Deny(r) \/ Ask(r) \/ Grant(r) \/ Refuse(r) \/ Execute(r)
  \/ StoreResult(r) \/ StopForMedia(r) \/ NextIteration(r) \/ Finalize(r)
  \/ LlmFails(r) \/ ApprovalFails(r)

Next == Crash \/ \E r \in Runs : Start(r) \/ Step(r) \/ StorageFails(r)

(* What has no deadline in the loop: an approval, an ask_user call, and    *)
(* the calls of a model by the workflow engine and by the monitor.         *)
Waits(r) ==
  \/ At(r, {"asking", "routing", "reviewing"})
  \/ Calling(r) /\ ~IsDuplicate(r) /\ Key(r) \in Questions

(* A run's task is polled, and what it waits for returns (its own calls of *)
(* the model have a timeout, a tool ends), unless it has no deadline.      *)
Fairness == \A r \in Runs : WF_vars(~Waits(r) /\ Step(r))

Spec == Init /\ [][Next]_vars
FairSpec == Spec /\ Fairness

-----------------------------------------------------------------------------
Places == {"new", "routing", "preparing", "clearing", "restoring", "adding", "thinking",
           "reviewing", "calling", "asking", "approved", "storing", "finalizing", "done"}

(* Where a run can be, and the bounds of its loop.                         *)
TypeOK ==
  /\ \A r \in Runs :
       /\ run[r].pc \in Places
       /\ run[r].iter \in 0 .. MaxIterations
       /\ run[r].reviews \in 0 .. MaxReviews
       /\ run[r].dups \in 0 .. 2
       /\ run[r].cache \subseteq Keys
       /\ run[r].pending \in Seq(Keys)
       /\ At(r, {"asking", "approved", "storing"}) => run[r].pending # <<>>
  /\ kept \subseteq Runs
  /\ troubles \in 0 .. MaxTroubles

(* Whatever crashed, failed, was refused or cancelled in earlier runs, a   *)
(* request to the model has no call without its result and no result       *)
(* without its call (sanitize_history, prepare_messages).                  *)
PromptWellFormed ==
  TypeOK /\ \A r \in Runs : At(r, {"thinking"}) => WellFormed(run[r].prompt)

(* A tool runs only when nothing guards the call or a human approved this  *)
(* very call, never because a handler failed or another call was approved  *)
(* (process_intention and the legacy path of execute_tool_call); and a run *)
(* executes no call twice, in no iteration (tool_call_cache).              *)
OnlyAllowedExecuted ==
  \A r \in Runs : \A x \in run[r].executed :
    /\ \/ Gate[x[2]] = "allowed"
       \/ Gate[x[2]] # "denied" /\ x[1] \in run[r].granted
    /\ \A y \in run[r].executed : x[2] = y[2] => x = y

(* A user message that was stored stays in the history, or is about to be  *)
(* written back, unless a crash or an error cut a rewrite short ("so it    *)
(* can't be accidentally truncated", prepare_messages).                    *)
UserKept ==
  torn \/ \A r \in kept :
    \/ \E i \in DOMAIN stored : stored[i] = User(r)
    \/ \E o \in Runs : \E i \in DOMAIN run[o].todo :
         At(o, {"restoring"}) /\ run[o].todo[i] = User(r)

(* Every run ends, or waits for ever for a human or for a model that has   *)
(* no deadline: reviews, duplicates and iterations cannot feed one another *)
(* (the loop of process_stream).                                           *)
RunEnds == \A r \in Runs : <>[](~Active(r) \/ Waits(r))
==============================================================================
