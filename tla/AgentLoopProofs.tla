---------------------------- MODULE AgentLoopProofs ----------------------------
(***************************************************************************)
(* Safety of the agent's loop for any number of runs, keys, replies,       *)
(* iterations and crashes, from the theory of histories: a run at work     *)
(* adds one group at a time to the stored history and to its prompt        *)
(* (Growing); what a crash leaves is sound and broken at its end only, and *)
(* the next run sanitizes it.                                              *)
(***************************************************************************)
EXTENDS AgentLoop, HistoryProofs

-----------------------------------------------------------------------------
Working == {"calling", "asking", "approved", "storing"}
Looping == {"thinking", "reviewing"} \cup Working
Rewritten == {"clearing", "restoring"}

RunState ==
  [pc : Places, prompt : Seq(Msgs), todo : Seq(Msgs), pending : Seq(Keys), iter : Nat,
   reviews : Nat, cache : SUBSET Keys, dups : Nat, fresh : BOOLEAN, media : BOOLEAN,
   granted : SUBSET Ids, executed : SUBSET (Ids \X Keys)]

Types ==
  /\ run \in [Runs -> RunState] /\ stored \in Seq(Msgs)
  /\ kept \subseteq Runs /\ troubles \in 0 .. MaxTroubles /\ torn \in BOOLEAN

(* A run whose record is q.  The bounds of its loop: whoever calls tools   *)
(* or is reviewed had passed the test of MustConclude and of the reviews.  *)
Bounded(q) ==
  /\ q.iter <= MaxIterations /\ q.reviews <= MaxReviews /\ q.dups <= 2
  /\ q.pc \in Working \cup {"reviewing"} => q.iter < MaxIterations /\ q.dups < 2
  /\ q.pc = "reviewing" => q.reviews < MaxReviews
  /\ q.pc \in {"asking", "approved", "storing"} => q.pending # <<>>

(* What was executed was let through, and is in the cache; what is asked   *)
(* about, or was approved, is not yet.                                     *)
LetThrough(x, q) == Gate[x[2]] = "allowed" \/ (Gate[x[2]] # "denied" /\ x[1] \in q.granted)

Gated(q) ==
  /\ \A x \in q.executed :
       /\ x[2] \in q.cache /\ LetThrough(x, q)
       /\ \A y \in q.executed : x[2] = y[2] => x = y
  /\ q.pc \in {"asking", "approved"} =>
       Head(q.pending) \notin q.cache /\ Gate[Head(q.pending)] \in {"contract", "tool"}

(* The messages of a run, in a history, are those of its iterations so far.*)
Older(h, R) ==
  \A a \in DOMAIN h : Calls(h, a) =>
    LET q == R[h[a].run]
    IN  /\ q.pc # "new"
        /\ q.pc # "done" => \/ h[a].iter < q.iter
                            \/ h[a].iter = q.iter /\ q.pc \in Working

(* The group of the tools being called, in the table and in the prompt;    *)
(* the call that comes next; and the call that was approved is this one.   *)
Growing(r, q, h, n) ==
  /\ Open(h, r, q.iter, n, n + Len(q.pending))
  /\ Open(q.prompt, r, q.iter, n, n + Len(q.pending))
  /\ q.pc = "approved" => <<r, q.iter, n + 1>> \in q.granted

Shaped(r, q, h) ==
  /\ q.pc \in Rewritten \cup {"adding", "thinking", "reviewing"} => Closed(q.prompt)
  /\ q.pc \in {"adding", "thinking", "reviewing"} => Closed(h)
  /\ q.pc = "clearing" => q.todo = q.prompt
  /\ q.pc = "restoring" => h \o q.todo = q.prompt
  /\ q.pc \in Working => \E n \in Nat : Growing(r, q, h, n)

Prepared(r, q, h, R) ==
  /\ q.pc \in Rewritten \cup {"adding"} \cup Looping => Older(q.prompt, R)
  /\ Shaped(r, q, h)

RunOK(r, q, h, R) == Bounded(q) /\ Gated(q) /\ Prepared(r, q, h, R)

StoredOK(h, R) == Sound(h) /\ BrokenLast(h) /\ Older(h, R)

(* The user's messages are in the table, or about to come back.            *)
Holds(h, o) == \E i \in DOMAIN h : h[i] = User(o)
UsersHeld(q, h, K) ==
  \A o \in K : /\ Holds(h, o) \/ (q.pc = "restoring" /\ Holds(q.todo, o))
               /\ q.pc = "clearing" => Holds(q.todo, o)

Quiet == {"new", "done"}
OneRun == \A r, o \in Runs : run[r].pc \in Quiet \/ run[o].pc \in Quiet \/ r = o

UsersOK ==
  torn \/ /\ \A r \in Runs : run[r].pc \notin Quiet => UsersHeld(run[r], stored, kept)
          /\ (\A r \in Runs : run[r].pc \in Quiet) => \A o \in kept : Holds(stored, o)

LoopInv ==
  /\ Types /\ OneRun
  /\ \A r \in Runs : RunOK(r, run[r], stored, run)
  /\ StoredOK(stored, run)
  /\ UsersOK

-----------------------------------------------------------------------------
(* A run's step, as records: R becomes Q, q is the run's new record.       *)

Others(r, R, Q) == \A o \in Runs : o # r => Q[o] = R[o]

(* The run that moves is a new one, or goes on with its iterations.        *)
Advances(p, q) ==
  \/ p.pc = "new" /\ q.pc # "new"
  \/ /\ p.pc # "new" /\ q.pc # "new"
     /\ q.pc # "done" =>
          /\ p.pc # "done"
          /\ \/ p.iter < q.iter
             \/ p.iter = q.iter /\ (p.pc \in Working => q.pc \in Working)

LEMMA OlderKept ==
  ASSUME NEW h \in Seq(Msgs), NEW R \in [Runs -> RunState], NEW Q \in [Runs -> RunState],
         NEW r \in Runs, Others(r, R, Q), Advances(R[r], Q[r]), Older(h, R)
  PROVE  Older(h, Q)
<1> SUFFICES ASSUME NEW a \in DOMAIN h, Calls(h, a)
             PROVE  /\ Q[h[a].run].pc # "new"
                    /\ Q[h[a].run].pc # "done" =>
                         \/ h[a].iter < Q[h[a].run].iter
                         \/ h[a].iter = Q[h[a].run].iter /\ Q[h[a].run].pc \in Working
  BY DEF Older
<1>1. h[a].run \in Runs /\ h[a].iter \in Nat
  BY OfGroup
<1>2. /\ R[h[a].run].pc # "new"
      /\ R[h[a].run].pc # "done" =>
           \/ h[a].iter < R[h[a].run].iter
           \/ h[a].iter = R[h[a].run].iter /\ R[h[a].run].pc \in Working
  BY DEF Older
<1>3. CASE h[a].run # r
  BY <1>1, <1>2, <1>3 DEF Others
<1>4. CASE h[a].run = r
  <2>1. R[r].iter \in Nat /\ Q[r].iter \in Nat
    BY DEF RunState
  <2> QED
    BY <1>1, <1>2, <1>4, <2>1 DEF Advances
<1> QED
  BY <1>3, <1>4

LEMMA OlderAppended ==
  ASSUME NEW h \in Seq(Msgs), NEW m \in Msgs, NEW Q, Older(h, Q),
         m.role = "assistant" =>
           Q[m.run].pc \in Working /\ m.iter = Q[m.run].iter
  PROVE  Older(Append(h, m), Q)
<1>1. ASSUME NEW a \in DOMAIN Append(h, m), Calls(Append(h, m), a)
      PROVE  /\ Q[Append(h, m)[a].run].pc # "new"
             /\ Q[Append(h, m)[a].run].pc # "done" =>
                  \/ Append(h, m)[a].iter < Q[Append(h, m)[a].run].iter
                  \/ /\ Append(h, m)[a].iter = Q[Append(h, m)[a].run].iter
                     /\ Q[Append(h, m)[a].run].pc \in Working
  <2>1. CASE a \in DOMAIN h
    <3>1. Append(h, m)[a] = h[a] /\ Calls(h, a)
      BY <1>1, <2>1, GroupsKept
    <3> QED
      BY <2>1, <3>1 DEF Older
  <2>2. CASE a = Len(h) + 1
    <3>1. Append(h, m)[a] = m
      BY <2>2, Appended
    <3>2. m.role = "assistant"
      BY <1>1, <3>1 DEF Calls
    <3> QED
      BY <3>1, <3>2 DEF Working
  <2>3. a \in DOMAIN h \/ a = Len(h) + 1
    BY <1>1, Appended
  <2> QED
    BY <2>1, <2>2, <2>3
<1> QED
  BY <1>1 DEF Older

(* Messages of an older history.                                           *)
LEMMA OlderAmong ==
  ASSUME NEW h, NEW s, NEW Q, Older(h, Q),
         \A j \in DOMAIN s : \E i \in DOMAIN h : h[i] = s[j]
  PROVE  Older(s, Q)
BY DEF Older, Calls

(* What a step of run r must show of its new record and of the table.      *)
LEMMA OneTurn ==
  ASSUME LoopInv, NEW r \in Runs, \A o \in Runs : o # r => run[o].pc \in Quiet,
         run' \in [Runs -> RunState], Others(r, run, run'), stored' \in Seq(Msgs),
         kept' \subseteq Runs, troubles' \in 0 .. MaxTroubles, torn' \in BOOLEAN,
         RunOK(r, run'[r], stored', run'), StoredOK(stored', run'),
         torn' \/ UsersHeld(run'[r], stored', kept')
  PROVE  LoopInv'
<1>1. Types'
  BY DEF Types
<1>2. \A o \in Runs : o # r => run'[o] = run[o] /\ run'[o].pc \in Quiet
  BY DEF Others
<1>3. OneRun'
  BY <1>2 DEF OneRun
<1>4. ASSUME NEW o \in Runs PROVE RunOK(o, run'[o], stored', run')
  <2>1. CASE o # r
    <3>1. run'[o] = run[o] /\ run'[o].pc \in Quiet
      BY <1>2, <2>1
    <3>2. Bounded(run'[o]) /\ Gated(run'[o])
      BY <3>1 DEF LoopInv, RunOK
    <3>3. Prepared(o, run'[o], stored', run')
      BY <3>1 DEF Prepared, Shaped, Quiet, Working, Looping, Rewritten
    <3> QED
      BY <3>2, <3>3 DEF RunOK
  <2> QED
    BY <2>1
<1>5. UsersOK'
  <2>1. CASE torn'
    BY <2>1 DEF UsersOK
  <2>2. CASE UsersHeld(run'[r], stored', kept')
    <3>1. \A o \in Runs : run'[o].pc \notin Quiet => o = r
      BY <1>2
    <3>2. run'[r].pc \in Quiet => \A o \in kept' : Holds(stored', o)
      BY <2>2 DEF UsersHeld, Quiet
    <3> QED
      BY <2>2, <3>1, <3>2 DEF UsersOK
  <2> QED
    BY <2>1, <2>2
<1> QED
  BY <1>1, <1>3, <1>4, <1>5 DEF LoopInv

(* What an active run may count on.                                        *)
LEMMA MyTurn ==
  ASSUME LoopInv, NEW r \in Runs, run[r].pc \notin Quiet
  PROVE  /\ run \in [Runs -> RunState] /\ run[r] \in RunState /\ stored \in Seq(Msgs)
         /\ kept \subseteq Runs /\ troubles \in 0 .. MaxTroubles /\ torn \in BOOLEAN
         /\ \A o \in Runs : o # r => run[o].pc \in Quiet
         /\ Bounded(run[r]) /\ Gated(run[r]) /\ Prepared(r, run[r], stored, run)
         /\ Sound(stored) /\ BrokenLast(stored) /\ Older(stored, run)
         /\ torn \/ UsersHeld(run[r], stored, kept)
<1>1. Types
  BY DEF LoopInv
<1>2. run[r] \in RunState
  BY <1>1 DEF Types
<1> QED
  BY <1>1, <1>2 DEF LoopInv, Types, OneRun, RunOK, StoredOK, UsersOK

(* A step that leaves the table alone.                                     *)
LEMMA TurnInMemory ==
  ASSUME LoopInv, NEW r \in Runs, run[r].pc \notin Quiet,
         run' \in [Runs -> RunState], Others(r, run, run'), UNCHANGED <<stored, kept>>,
         troubles' \in 0 .. MaxTroubles, torn' \in BOOLEAN, torn => torn',
         Advances(run[r], run'[r]), Bounded(run'[r]), Gated(run'[r]),
         Shaped(r, run'[r], stored),
         run'[r].pc \in Rewritten \cup {"adding"} \cup Looping => Older(run'[r].prompt, run),
         torn' \/ UsersHeld(run'[r], stored, kept)
  PROVE  LoopInv'
<1>1. Sound(stored) /\ BrokenLast(stored) /\ Older(stored, run)
  BY MyTurn
<1>2. run \in [Runs -> RunState] /\ stored \in Seq(Msgs) /\ kept \subseteq Runs
  BY MyTurn
<1>3. run'[r].prompt \in Seq(Msgs)
  BY DEF RunState
<1>4. StoredOK(stored', run')
  BY <1>1, <1>2, OlderKept DEF StoredOK
<1>5. Prepared(r, run'[r], stored', run')
  BY <1>2, <1>3, OlderKept DEF Prepared
<1>6. RunOK(r, run'[r], stored', run')
  BY <1>5 DEF RunOK
<1>7. \A o \in Runs : o # r => run[o].pc \in Quiet
  BY MyTurn
<1> QED
  BY <1>2, <1>4, <1>6, <1>7, OneTurn

LEMMA NewRunTyped ==
  /\ NewRun \in RunState /\ NewRun.pc = "new" /\ NewRun.executed = {}
  /\ NewRun.iter = 0 /\ NewRun.reviews = 0 /\ NewRun.dups = 0
<1>1. <<>> \in Seq(Msgs) /\ <<>> \in Seq(Keys) /\ "new" \in Places
  BY DEF Places
<1> QED
  BY <1>1 DEF NewRun, RunState

LEMMA OverTyped ==
  /\ Over \in RunState /\ Over.pc = "done" /\ Over.executed = {}
  /\ Over.iter = 0 /\ Over.reviews = 0 /\ Over.dups = 0
<1>1. Over = [NewRun EXCEPT !.pc = "done"] /\ "done" \in Places
  BY DEF Over, Places
<1> QED
  BY <1>1, NewRunTyped DEF RunState

(* A run that goes away.                                                   *)
LEMMA GoesAway ==
  ASSUME LoopInv, NEW r \in Runs, run[r].pc \notin Quiet,
         run' = [run EXCEPT ![r] = Over], UNCHANGED <<stored, kept>>,
         troubles' \in 0 .. MaxTroubles, torn' \in BOOLEAN, torn => torn',
         torn' \/ ~Rewriting(r)
  PROVE  LoopInv'
<1>1. /\ run \in [Runs -> RunState] /\ run[r] \in RunState
      /\ torn \/ UsersHeld(run[r], stored, kept)
  BY MyTurn
<1>2. /\ Over \in RunState /\ Over.pc = "done" /\ Over.executed = {}
      /\ Over.iter = 0 /\ Over.reviews = 0 /\ Over.dups = 0
  BY OverTyped
<1>3. run' \in [Runs -> RunState] /\ Others(r, run, run') /\ run'[r] = Over
  BY <1>1, <1>2 DEF Others
<1>4. Bounded(Over) /\ Gated(Over) /\ Shaped(r, Over, stored) /\ Advances(run[r], Over)
  BY <1>2, AgentAssumption
     DEF Bounded, Gated, Shaped, Advances, Quiet, Working, Looping, Rewritten
<1>5. Over.pc \notin Rewritten \cup {"adding"} \cup Looping
  BY <1>2 DEF Working, Looping, Rewritten
<1>6. torn' \/ UsersHeld(Over, stored, kept)
  <2>1. ASSUME NEW o \in kept, UsersHeld(run[r], stored, kept), ~Rewriting(r)
        PROVE  Holds(stored, o)
    <3>1. run[r].pc = "restoring" => run[r].todo = <<>>
      BY <2>1 DEF Rewriting, At
    <3> QED
      BY <2>1, <3>1 DEF UsersHeld, Holds
  <2> QED
    BY <1>1, <1>2, <2>1 DEF UsersHeld
<1> QED
  BY <1>3, <1>4, <1>5, <1>6, TurnInMemory

(* A run that only changes its place.                                      *)
LEMMA ChangesPlace ==
  ASSUME LoopInv, NEW r \in Runs, run[r].pc \notin Quiet, NEW x \in Places,
         run' = [run EXCEPT ![r].pc = x], UNCHANGED <<stored, troubles, history>>,
         x \notin Quiet \cup Rewritten \cup {"adding", "thinking", "approved"}, run[r].pc \notin Rewritten,
         x \in Looping => run[r].pc \in Looping,
         x \in Working <=> run[r].pc \in Working,
         x = "reviewing" => /\ run[r].pc = "thinking" /\ run[r].iter < MaxIterations
                            /\ run[r].dups < 2 /\ run[r].reviews < MaxReviews,
         x \in {"asking", "approved", "storing"} => run[r].pending # <<>>,
         x = "asking" => ~IsDuplicate(r) /\ Gate[Key(r)] \in {"contract", "tool"}
  PROVE  LoopInv'
<1>1. /\ run \in [Runs -> RunState] /\ run[r] \in RunState
      /\ troubles \in 0 .. MaxTroubles /\ torn \in BOOLEAN
      /\ Bounded(run[r]) /\ Gated(run[r]) /\ Prepared(r, run[r], stored, run)
      /\ torn \/ UsersHeld(run[r], stored, kept)
  BY MyTurn
<1>2. /\ run' \in [Runs -> RunState] /\ Others(r, run, run')
      /\ run'[r].pc = x /\ run'[r].prompt = run[r].prompt /\ run'[r].todo = run[r].todo
      /\ run'[r].pending = run[r].pending /\ run'[r].iter = run[r].iter
      /\ run'[r].reviews = run[r].reviews /\ run'[r].dups = run[r].dups
      /\ run'[r].cache = run[r].cache
      /\ run'[r].granted = run[r].granted /\ run'[r].executed = run[r].executed
  BY <1>1 DEF Others, RunState
<1>3. run[r].iter \in Nat
  BY <1>1 DEF RunState
<1>4. Bounded(run'[r])
  BY <1>1, <1>2 DEF Bounded, Working
<1>5. Gated(run'[r])
  BY <1>1, <1>2 DEF Gated, LetThrough, IsDuplicate, Key
<1>6. Advances(run[r], run'[r])
  BY <1>2, <1>3 DEF Advances, Quiet
<1>7. run'[r].pc \in Rewritten \cup {"adding"} \cup Looping => Older(run'[r].prompt, run)
  BY <1>1, <1>2 DEF Prepared
<1>8. Shaped(r, run'[r], stored)
  BY <1>1, <1>2 DEF Prepared, Shaped, Growing, Working, Rewritten
<1>9. torn' \/ UsersHeld(run'[r], stored, kept)
  BY <1>1, <1>2 DEF UsersHeld, history, Rewritten
<1> QED
  BY <1>1, <1>2, <1>4, <1>5, <1>6, <1>7, <1>8, <1>9, TurnInMemory DEF history

-----------------------------------------------------------------------------
(* The actions.                                                            *)

LEMMA PlaceChanges ==
  ASSUME LoopInv, NEW r \in Runs,
         \/ WorkflowAnswers(r) \/ WorkflowDeclines(r) \/ Answer(r) \/ Approve(r)
         \/ Conclude(r) \/ Duplicate(r) \/ Ask(r)
  PROVE  LoopInv'
<1> USE DEF At, Quiet, Rewritten, Looping, Working, Places
<1>1. CASE WorkflowAnswers(r)
  BY <1>1, ChangesPlace DEF WorkflowAnswers
<1>2. CASE WorkflowDeclines(r)
  BY <1>2, ChangesPlace DEF WorkflowDeclines
<1>3. CASE Answer(r)
  <2>1. run[r].pc = "thinking" /\ ~MustConclude(r)
    BY <1>3 DEF Answer, Thinks
  <2>2. /\ run[r].iter \in Nat /\ run[r].dups \in Nat /\ run[r].reviews \in Nat
        /\ Bounded(run[r])
    BY <2>1, MyTurn DEF RunState
  <2>3. run[r].iter < MaxIterations /\ run[r].dups < 2
    BY <2>1, <2>2, AgentAssumption DEF MustConclude, Bounded
  <2>4. CASE run[r].reviews < MaxReviews
    <3>1. run' = [run EXCEPT ![r].pc = "reviewing"] /\ UNCHANGED <<stored, troubles, history>>
      BY <1>3, <2>4 DEF Answer
    <3> QED
      BY <2>1, <2>3, <2>4, <3>1, ChangesPlace
  <2>5. CASE ~(run[r].reviews < MaxReviews)
    <3>1. run' = [run EXCEPT ![r].pc = "finalizing"] /\ UNCHANGED <<stored, troubles, history>>
      BY <1>3, <2>5 DEF Answer
    <3> QED
      BY <2>1, <3>1, ChangesPlace
  <2> QED
    BY <2>4, <2>5
<1>4. CASE Approve(r)
  BY <1>4, ChangesPlace DEF Approve
<1>5. CASE Conclude(r)
  BY <1>5, ChangesPlace DEF Conclude
<1>6. CASE Duplicate(r)
  BY <1>6, ChangesPlace DEF Duplicate, Calling
<1>7. CASE Ask(r)
  BY <1>7, ChangesPlace DEF Ask, Calling
<1> QED
  BY <1>1, <1>2, <1>3, <1>4, <1>5, <1>6, <1>7

LEMMA Departs ==
  ASSUME LoopInv, NEW r \in Runs,
         StopForMedia(r) \/ LlmFails(r) \/ ApprovalFails(r) \/ StorageFails(r)
  PROVE  LoopInv'
<1>1. /\ run[r].pc \notin Quiet /\ run' = [run EXCEPT ![r] = Over] /\ UNCHANGED <<stored, kept>>
      /\ (torn' = torn /\ ~Rewriting(r) /\ troubles' = troubles)
         \/ (StorageFails(r) /\ torn' = (torn \/ Rewriting(r)) /\ troubles' = troubles + 1)
  BY DEF StopForMedia, LlmFails, ApprovalFails, StorageFails, Answered, At, Quiet, history, Rewriting
<1>2. troubles \in 0 .. MaxTroubles /\ torn \in BOOLEAN
  BY <1>1, MyTurn
<1>3. torn' \in BOOLEAN /\ (torn => torn') /\ (torn' \/ ~Rewriting(r))
  BY <1>1, <1>2
<1>4. troubles' \in 0 .. MaxTroubles
  BY <1>1, <1>2, AgentAssumption DEF StorageFails
<1> QED
  BY <1>1, <1>3, <1>4, GoesAway

(* A new run, when no other is active.                                     *)
LEMMA Starts == ASSUME LoopInv, NEW r \in Runs, Start(r) PROVE LoopInv'
<1>1. /\ run \in [Runs -> RunState] /\ run[r] \in RunState /\ stored \in Seq(Msgs)
      /\ kept \subseteq Runs /\ troubles \in 0 .. MaxTroubles /\ torn \in BOOLEAN
      /\ Bounded(run[r]) /\ Gated(run[r]) /\ StoredOK(stored, run)
  BY DEF LoopInv, Types, RunOK
<1>2. \A o \in Runs : run[o].pc \in Quiet
  BY DEF Start, Active, At, Quiet
<1>3. /\ run' \in [Runs -> RunState] /\ Others(r, run, run') /\ UNCHANGED <<stored, troubles, kept, torn>>
      /\ run'[r].pc = "routing" /\ run'[r].iter = run[r].iter /\ run'[r].reviews = run[r].reviews
      /\ run'[r].dups = run[r].dups /\ run'[r].cache = run[r].cache
      /\ run'[r].granted = run[r].granted /\ run'[r].executed = run[r].executed
      /\ run[r].pc = "new"
  BY <1>1 DEF Start, Others, RunState, Places, history, At
<1>4. Bounded(run'[r]) /\ Gated(run'[r])
  BY <1>1, <1>3 DEF Bounded, Gated, LetThrough, Working
<1>5. Prepared(r, run'[r], stored', run')
  BY <1>3 DEF Prepared, Shaped, Rewritten, Looping, Working
<1>6. RunOK(r, run'[r], stored', run')
  BY <1>4, <1>5 DEF RunOK
<1>7. Advances(run[r], run'[r])
  BY <1>3 DEF Advances
<1>8. StoredOK(stored', run')
  BY <1>1, <1>3, <1>7, OlderKept DEF StoredOK
<1>9. torn' \/ UsersHeld(run'[r], stored', kept')
  BY <1>2, <1>3 DEF LoopInv, UsersOK, UsersHeld
<1> QED
  BY <1>1, <1>2, <1>3, <1>6, <1>8, <1>9, OneTurn

(* prepare_messages().                                                     *)
LEMMA UserFound ==
  ASSUME NEW h \in Seq(Msgs), NEW s,
         \A i \in DOMAIN h : h[i].role \notin {"assistant", "result"} =>
           \E j \in DOMAIN s : s[j] = h[i],
         NEW o \in Runs, Holds(h, o)
  PROVE  Holds(s, o)
<1>1. PICK i \in DOMAIN h : h[i] = User(o)
  BY DEF Holds
<1>2. h[i].role = "user"
  BY <1>1, Made
<1> QED
  BY <1>1, <1>2 DEF Holds

LEMMA Loads == ASSUME LoopInv, NEW r \in Runs, Load(r) PROVE LoopInv'
<1>1. run[r].pc = "preparing" /\ run[r].pc \notin Quiet /\ UNCHANGED <<stored, troubles, kept, torn>>
  BY DEF Load, At, Quiet, history
<1>2. /\ run \in [Runs -> RunState] /\ run[r] \in RunState /\ stored \in Seq(Msgs)
      /\ troubles \in 0 .. MaxTroubles /\ torn \in BOOLEAN /\ kept \subseteq Runs
      /\ Bounded(run[r]) /\ Gated(run[r])
      /\ Sound(stored) /\ BrokenLast(stored) /\ Older(stored, run)
      /\ torn \/ UsersHeld(run[r], stored, kept)
  BY <1>1, MyTurn
<1>3. PICK h \in Seq(Msgs) : h = Sanitize(stored)
  BY <1>2, Sanitized
<1>4. /\ Closed(h) /\ (Len(h) = Len(stored) => Closed(stored))
      /\ \A i \in DOMAIN stored : stored[i].role \notin {"assistant", "result"} =>
              \E j \in DOMAIN h : h[j] = stored[i]
      /\ \A j \in DOMAIN h : \E i \in DOMAIN stored : stored[i] = h[j]
  BY <1>2, <1>3, Sanitized
<1>5. run' = [run EXCEPT ![r].prompt = h, ![r].todo = h,
                         ![r].pc = IF Len(h) # Len(stored) THEN "clearing" ELSE "adding"]
  BY <1>3 DEF Load
<1>6. /\ run' \in [Runs -> RunState] /\ Others(r, run, run')
      /\ run'[r].prompt = h /\ run'[r].todo = h
      /\ run'[r].pc = IF Len(h) # Len(stored) THEN "clearing" ELSE "adding"
      /\ run'[r].pending = run[r].pending /\ run'[r].iter = run[r].iter
      /\ run'[r].reviews = run[r].reviews /\ run'[r].dups = run[r].dups
      /\ run'[r].cache = run[r].cache
      /\ run'[r].granted = run[r].granted /\ run'[r].executed = run[r].executed
  BY <1>2, <1>5 DEF Others, RunState, Places
<1>7. run'[r].pc \in {"clearing", "adding"}
  BY <1>6
<1>8. Bounded(run'[r]) /\ Gated(run'[r])
  BY <1>2, <1>6, <1>7 DEF Bounded, Gated, LetThrough, Working
<1>9. Advances(run[r], run'[r])
  <2>1. run[r].iter \in Nat
    BY <1>2 DEF RunState
  <2> QED
    BY <1>1, <1>6, <1>7, <2>1 DEF Advances, Working
<1>10. Shaped(r, run'[r], stored)
  BY <1>4, <1>6, <1>7 DEF Shaped, Working, Rewritten
<1>11. Older(run'[r].prompt, run)
  BY <1>2, <1>4, <1>6, OlderAmong
<1>12. torn' \/ UsersHeld(run'[r], stored, kept)
  <2>1. ASSUME UsersHeld(run[r], stored, kept), NEW o \in kept PROVE Holds(stored, o) /\ Holds(h, o)
    <3>1. Holds(stored, o)
      BY <1>1, <2>1 DEF UsersHeld
    <3> QED
      BY <1>2, <1>4, <3>1, UserFound
  <2> QED
    BY <1>1, <1>2, <1>6, <2>1 DEF UsersHeld
<1> QED
  BY <1>1, <1>2, <1>6, <1>8, <1>9, <1>10, <1>11, <1>12, TurnInMemory

LEMMA Clears == ASSUME LoopInv, NEW r \in Runs, Clear(r) PROVE LoopInv'
<1>1. /\ run[r].pc = "clearing" /\ run[r].pc \notin Quiet /\ UNCHANGED <<troubles, kept, torn>>
      /\ stored' = <<>>
      /\ run' = [run EXCEPT ![r].pc = "restoring", ![r].todo = run[r].todo]
  BY DEF Clear, Cleared, At, Quiet, history
<1>2. /\ run \in [Runs -> RunState] /\ run[r] \in RunState
      /\ troubles \in 0 .. MaxTroubles /\ torn \in BOOLEAN /\ kept \subseteq Runs
      /\ \A o \in Runs : o # r => run[o].pc \in Quiet
      /\ Bounded(run[r]) /\ Gated(run[r]) /\ Prepared(r, run[r], stored, run)
      /\ torn \/ UsersHeld(run[r], stored, kept)
  BY <1>1, MyTurn
<1>3. /\ run' \in [Runs -> RunState] /\ Others(r, run, run')
      /\ run'[r].pc = "restoring" /\ run'[r].prompt = run[r].prompt /\ run'[r].todo = run[r].todo
      /\ run'[r].pending = run[r].pending /\ run'[r].iter = run[r].iter
      /\ run'[r].reviews = run[r].reviews /\ run'[r].dups = run[r].dups
      /\ run'[r].cache = run[r].cache
      /\ run'[r].granted = run[r].granted /\ run'[r].executed = run[r].executed
  BY <1>1, <1>2 DEF Others, RunState, Places
<1>4. Bounded(run'[r]) /\ Gated(run'[r])
  BY <1>2, <1>3 DEF Bounded, Gated, LetThrough, Working
<1>5. Closed(run[r].prompt) /\ Older(run[r].prompt, run) /\ run[r].todo = run[r].prompt
  BY <1>1, <1>2 DEF Prepared, Shaped, Rewritten
<1>6. run[r].prompt \in Seq(Msgs) /\ run[r].iter \in Nat
  BY <1>2 DEF RunState
<1>7. Advances(run[r], run'[r])
  BY <1>1, <1>3, <1>6 DEF Advances, Working
<1>8. Older(run'[r].prompt, run')
  BY <1>2, <1>3, <1>5, <1>6, <1>7, OlderKept
<1>9. stored' \o run'[r].todo = run'[r].prompt
  <2>1. <<>> \o run[r].prompt = run[r].prompt
    BY <1>6
  <2> QED
    BY <1>1, <1>3, <1>5, <2>1
<1>10. Prepared(r, run'[r], stored', run')
  BY <1>3, <1>5, <1>8, <1>9 DEF Prepared, Shaped, Working, Rewritten
<1>11. StoredOK(stored', run') /\ stored' \in Seq(Msgs)
  BY <1>1 DEF StoredOK, Sound, BrokenLast, Older, Calls
<1>12. torn' \/ UsersHeld(run'[r], stored', kept')
  BY <1>1, <1>2, <1>3 DEF UsersHeld
<1>13. RunOK(r, run'[r], stored', run')
  BY <1>4, <1>10 DEF RunOK
<1> QED
  BY <1>1, <1>2, <1>3, <1>11, <1>12, <1>13, OneTurn

(* A message goes from the front of what is left to the end of what is     *)
(* back.                                                                   *)
LEMMA Handed ==
  ASSUME NEW s \in Seq(Msgs), NEW t \in Seq(Msgs), t # <<>>
  PROVE  /\ Head(t) \in Msgs /\ Tail(t) \in Seq(Msgs)
         /\ Append(s, Head(t)) \in Seq(Msgs)
         /\ Append(s, Head(t)) \o Tail(t) = s \o t
         /\ \A o : Holds(s, o) \/ Holds(t, o) =>
              Holds(Append(s, Head(t)), o) \/ Holds(Tail(t), o)
<1>1. /\ Head(t) \in Msgs /\ Tail(t) \in Seq(Msgs) /\ Append(s, Head(t)) \in Seq(Msgs)
      /\ Len(t) \in Nat /\ Len(t) > 0 /\ Len(s) \in Nat /\ Len(Tail(t)) = Len(t) - 1
      /\ Head(t) = t[1] /\ \A i \in 1 .. Len(t) - 1 : Tail(t)[i] = t[i + 1]
  OBVIOUS
<1>2. Append(s, Head(t)) \o Tail(t) = s \o t
  <2> DEFINE x == Append(s, Head(t)) \o Tail(t)
             y == s \o t
  <2>1. /\ x \in Seq(Msgs) /\ y \in Seq(Msgs)
        /\ Len(x) = Len(s) + Len(t) /\ Len(y) = Len(s) + Len(t)
    BY <1>1
  <2>2. ASSUME NEW i \in 1 .. Len(s) + Len(t) PROVE x[i] = y[i]
    <3>1. CASE i <= Len(s)
      BY <1>1, <2>2, <3>1
    <3>2. CASE i = Len(s) + 1
      BY <1>1, <2>2, <3>2
    <3>3. CASE i > Len(s) + 1
      BY <1>1, <2>2, <3>3
    <3> QED
      BY <1>1, <3>1, <3>2, <3>3
  <2> QED
    BY <2>1, <2>2
<1>3. ASSUME NEW o, Holds(s, o) PROVE Holds(Append(s, Head(t)), o)
  BY <1>1, <1>3, Appended DEF Holds
<1>4. ASSUME NEW o, Holds(t, o) PROVE Holds(Append(s, Head(t)), o) \/ Holds(Tail(t), o)
  <2>1. PICK i \in 1 .. Len(t) : t[i] = User(o)
    BY <1>4 DEF Holds
  <2>2. CASE i = 1
    <3>1. Append(s, Head(t))[Len(s) + 1] = User(o) /\ Len(s) + 1 \in DOMAIN Append(s, Head(t))
      BY <1>1, <2>1, <2>2, Appended
    <3> QED
      BY <3>1 DEF Holds
  <2>3. CASE i # 1
    <3>1. i - 1 \in DOMAIN Tail(t) /\ Tail(t)[i - 1] = User(o)
      BY <1>1, <2>1, <2>3
    <3> QED
      BY <3>1 DEF Holds
  <2> QED
    BY <2>2, <2>3
<1> QED
  BY <1>1, <1>2, <1>3, <1>4

LEMMA Restores == ASSUME LoopInv, NEW r \in Runs, Restore(r) PROVE LoopInv'
<1>1. /\ run[r].pc = "restoring" /\ run[r].pc \notin Quiet /\ UNCHANGED <<troubles, kept, torn>>
      /\ run[r].todo # <<>> /\ stored' = Append(stored, Head(run[r].todo))
      /\ run' = [run EXCEPT ![r].todo = Tail(run[r].todo)]
  BY DEF Restore, Store, At, Quiet, history
<1>2. /\ run \in [Runs -> RunState] /\ run[r] \in RunState /\ stored \in Seq(Msgs)
      /\ troubles \in 0 .. MaxTroubles /\ torn \in BOOLEAN /\ kept \subseteq Runs
      /\ \A o \in Runs : o # r => run[o].pc \in Quiet
      /\ Bounded(run[r]) /\ Gated(run[r]) /\ Prepared(r, run[r], stored, run)
      /\ torn \/ UsersHeld(run[r], stored, kept)
  BY <1>1, MyTurn
<1>3. run[r].prompt \in Seq(Msgs) /\ run[r].todo \in Seq(Msgs) /\ run[r].iter \in Nat
  BY <1>2 DEF RunState
<1>4. /\ Head(run[r].todo) \in Msgs /\ Tail(run[r].todo) \in Seq(Msgs) /\ stored' \in Seq(Msgs)
      /\ stored' \o Tail(run[r].todo) = stored \o run[r].todo
      /\ \A o : Holds(stored, o) \/ Holds(run[r].todo, o) =>
           Holds(stored', o) \/ Holds(Tail(run[r].todo), o)
  BY <1>1, <1>2, <1>3, Handed
<1>5. /\ run' \in [Runs -> RunState] /\ Others(r, run, run')
      /\ run'[r].pc = "restoring" /\ run'[r].prompt = run[r].prompt
      /\ run'[r].todo = Tail(run[r].todo)
      /\ run'[r].pending = run[r].pending /\ run'[r].iter = run[r].iter
      /\ run'[r].reviews = run[r].reviews /\ run'[r].dups = run[r].dups
      /\ run'[r].cache = run[r].cache
      /\ run'[r].granted = run[r].granted /\ run'[r].executed = run[r].executed
  BY <1>1, <1>2, <1>4 DEF Others, RunState
<1>6. Bounded(run'[r]) /\ Gated(run'[r])
  BY <1>2, <1>5 DEF Bounded, Gated, LetThrough, Working
<1>7. /\ Closed(run[r].prompt) /\ Older(run[r].prompt, run)
      /\ stored \o run[r].todo = run[r].prompt
  BY <1>1, <1>2 DEF Prepared, Shaped, Rewritten
<1>8. Advances(run[r], run'[r])
  BY <1>1, <1>3, <1>5 DEF Advances, Working
<1>9. Older(run'[r].prompt, run')
  BY <1>2, <1>3, <1>5, <1>7, <1>8, OlderKept
<1>10. stored' \o run'[r].todo = run'[r].prompt
  BY <1>4, <1>5, <1>7
<1>11. Prepared(r, run'[r], stored', run')
  BY <1>5, <1>7, <1>9, <1>10 DEF Prepared, Shaped, Working, Rewritten
<1>12. Sound(stored') /\ BrokenLast(stored')
  BY <1>4, <1>5, <1>7, <1>10, BroughtBack
<1>13. Older(stored', run')
  <2>1. \A j \in DOMAIN stored' : \E i \in DOMAIN run'[r].prompt : run'[r].prompt[i] = stored'[j]
    <3>1. PICK s \in Seq(Msgs) : s = stored'
      BY <1>4
    <3>2. PICK u \in Seq(Msgs) : u = run'[r].todo
      BY <1>4, <1>5
    <3>3. \A j \in DOMAIN s : j \in DOMAIN (s \o u) /\ (s \o u)[j] = s[j]
      OBVIOUS
    <3> QED
      BY <1>10, <3>1, <3>2, <3>3
  <2> QED
    BY <1>9, <2>1, OlderAmong
<1>14. torn' \/ UsersHeld(run'[r], stored', kept')
  BY <1>1, <1>2, <1>4, <1>5 DEF UsersHeld
<1>15. RunOK(r, run'[r], stored', run') /\ StoredOK(stored', run')
  BY <1>6, <1>11, <1>12, <1>13 DEF RunOK, StoredOK
<1> QED
  BY <1>1, <1>2, <1>4, <1>5, <1>14, <1>15, OneTurn

LEMMA AddsUser == ASSUME LoopInv, NEW r \in Runs, AddUser(r) PROVE LoopInv'
<1>1. /\ run[r].pc = "adding" \/ (run[r].pc = "restoring" /\ run[r].todo = <<>>)
      /\ run[r].pc \notin Quiet /\ UNCHANGED <<troubles, torn>> /\ kept' = kept \cup {r}
      /\ stored' = Append(stored, User(r))
      /\ run' = [run EXCEPT ![r].pc = "thinking", ![r].todo = <<>>,
                            ![r].prompt = Append(run[r].prompt, User(r))]
  BY DEF AddUser, Store, At, Quiet
<1>2. /\ run \in [Runs -> RunState] /\ run[r] \in RunState /\ stored \in Seq(Msgs)
      /\ troubles \in 0 .. MaxTroubles /\ torn \in BOOLEAN /\ kept \subseteq Runs
      /\ \A o \in Runs : o # r => run[o].pc \in Quiet
      /\ Bounded(run[r]) /\ Gated(run[r]) /\ Prepared(r, run[r], stored, run)
      /\ Older(stored, run)
      /\ torn \/ UsersHeld(run[r], stored, kept)
  BY <1>1, MyTurn
<1>3. run[r].prompt \in Seq(Msgs) /\ run[r].todo \in Seq(Msgs) /\ run[r].iter \in Nat
  BY <1>2 DEF RunState
<1>4. PICK m \in Msgs : m = User(r) /\ m.role = "user"
  BY Made
<1>5. /\ Append(stored, m) \in Seq(Msgs) /\ Append(run[r].prompt, m) \in Seq(Msgs)
      /\ stored' \in Seq(Msgs)
  BY <1>1, <1>2, <1>3, <1>4
<1>6. /\ run' \in [Runs -> RunState] /\ Others(r, run, run')
      /\ run'[r].pc = "thinking" /\ run'[r].prompt = Append(run[r].prompt, m)
      /\ run'[r].pending = run[r].pending /\ run'[r].iter = run[r].iter
      /\ run'[r].reviews = run[r].reviews /\ run'[r].dups = run[r].dups
      /\ run'[r].cache = run[r].cache
      /\ run'[r].granted = run[r].granted /\ run'[r].executed = run[r].executed
  <2>1. <<>> \in Seq(Msgs) /\ "thinking" \in Places
    BY DEF Places
  <2> QED
    BY <1>1, <1>2, <1>4, <1>5, <2>1 DEF Others, RunState
<1>7. Bounded(run'[r]) /\ Gated(run'[r])
  BY <1>2, <1>6 DEF Bounded, Gated, LetThrough, Working
<1>8. /\ Closed(run[r].prompt) /\ Older(run[r].prompt, run) /\ Closed(stored)
  <2>1. Closed(run[r].prompt) /\ Older(run[r].prompt, run)
    BY <1>1, <1>2 DEF Prepared, Shaped, Rewritten
  <2>2. run[r].pc = "restoring" => stored = run[r].prompt
    <3>1. run[r].pc = "restoring" => stored \o <<>> = run[r].prompt
      BY <1>1, <1>2 DEF Prepared, Shaped
    <3>2. stored \o <<>> = stored
      BY <1>2
    <3> QED
      BY <3>1, <3>2
  <2>3. run[r].pc = "adding" => Closed(stored)
    BY <1>2 DEF Prepared, Shaped
  <2> QED
    BY <1>1, <2>1, <2>2, <2>3
<1>9. Closed(stored') /\ Closed(run'[r].prompt)
  BY <1>1, <1>2, <1>3, <1>4, <1>6, <1>8, PlainAppended
<1>10. Advances(run[r], run'[r])
  BY <1>1, <1>3, <1>6 DEF Advances, Working
<1>11. Older(stored, run') /\ Older(run[r].prompt, run')
  BY <1>2, <1>3, <1>6, <1>8, <1>10, OlderKept
<1>12. Older(stored', run') /\ Older(run'[r].prompt, run')
  BY <1>1, <1>2, <1>3, <1>4, <1>6, <1>11, OlderAppended
<1>13. Prepared(r, run'[r], stored', run')
  BY <1>6, <1>9, <1>12 DEF Prepared, Shaped, Working, Rewritten
<1>14. RunOK(r, run'[r], stored', run')
  BY <1>7, <1>13 DEF RunOK
<1>15. StoredOK(stored', run')
  BY <1>5, <1>9, <1>12, ClosedBroken DEF StoredOK
<1>16. torn' \/ UsersHeld(run'[r], stored', kept')
  <2>1. ASSUME UsersHeld(run[r], stored, kept), NEW o \in kept PROVE Holds(stored', o)
    <3>1. Holds(stored, o)
      BY <1>1, <2>1 DEF UsersHeld, Holds
    <3> QED
      BY <1>1, <1>2, <1>4, <3>1, Appended DEF Holds
  <2>2. Holds(stored', r)
    <3>1. Len(stored) + 1 \in DOMAIN Append(stored, m) /\ Append(stored, m)[Len(stored) + 1] = m
      BY <1>2, Appended
    <3> QED
      BY <1>1, <1>4, <3>1 DEF Holds
  <2> QED
    BY <1>1, <1>2, <1>6, <2>1, <2>2 DEF UsersHeld
<1> QED
  BY ZenonT(30), <1>1, <1>2, <1>5, <1>6, <1>14, <1>15, <1>16, OneTurn

(* The monitor's remarks.                                                  *)
LEMMA Revises == ASSUME LoopInv, NEW r \in Runs, Revise(r) PROVE LoopInv'
<1>1. /\ run[r].pc = "reviewing" /\ run[r].pc \notin Quiet /\ UNCHANGED <<stored, troubles, kept, torn>>
      /\ run' = [run EXCEPT ![r].pc = "thinking", ![r].iter = run[r].iter + 1,
                            ![r].reviews = run[r].reviews + 1,
                            ![r].prompt = Append(run[r].prompt, Revision(r, run[r].iter))]
  BY DEF Revise, Revised, At, Quiet, history
<1>2. /\ run \in [Runs -> RunState] /\ run[r] \in RunState
      /\ troubles \in 0 .. MaxTroubles /\ torn \in BOOLEAN
      /\ Bounded(run[r]) /\ Gated(run[r]) /\ Prepared(r, run[r], stored, run)
      /\ torn \/ UsersHeld(run[r], stored, kept)
  BY <1>1, MyTurn
<1>3. run[r].prompt \in Seq(Msgs) /\ run[r].iter \in Nat /\ run[r].reviews \in Nat
  BY <1>2 DEF RunState
<1>4. PICK m \in Msgs : m = Revision(r, run[r].iter) /\ m.role = "revision"
  BY <1>3, Made
<1>5. Append(run[r].prompt, m) \in Seq(Msgs)
  BY <1>3, <1>4
<1>6. /\ run' \in [Runs -> RunState] /\ Others(r, run, run')
      /\ run'[r].pc = "thinking" /\ run'[r].prompt = Append(run[r].prompt, m)
      /\ run'[r].iter = run[r].iter + 1
      /\ run'[r].reviews = run[r].reviews + 1 /\ run'[r].dups = run[r].dups
      /\ run'[r].cache = run[r].cache
      /\ run'[r].granted = run[r].granted /\ run'[r].executed = run[r].executed
  <2>1. "thinking" \in Places /\ run[r].iter + 1 \in Nat /\ run[r].reviews + 1 \in Nat
    BY <1>3 DEF Places
  <2> QED
    BY <1>1, <1>2, <1>4, <1>5, <2>1 DEF Others, RunState
<1>7. Bounded(run'[r]) /\ Gated(run'[r])
  <2>1. Bounded(run'[r])
    BY <1>1, <1>2, <1>3, <1>6, AgentAssumption DEF Bounded, Working
  <2>2. Gated(run'[r])
    BY <1>1, <1>2, <1>6 DEF Gated, LetThrough
  <2> QED
    BY <2>1, <2>2
<1>8. Closed(run[r].prompt) /\ Older(run[r].prompt, run) /\ Closed(stored)
  BY <1>1, <1>2 DEF Prepared, Shaped, Rewritten, Looping
<1>9. Advances(run[r], run'[r])
  BY <1>1, <1>3, <1>6 DEF Advances
<1>10. Closed(run'[r].prompt)
  BY <1>3, <1>4, <1>6, <1>8, PlainAppended
<1>11. Older(run'[r].prompt, run)
  BY <1>3, <1>4, <1>6, <1>8, OlderAppended
<1>12. Shaped(r, run'[r], stored)
  BY <1>6, <1>8, <1>10 DEF Shaped, Working, Rewritten
<1>13. torn' \/ UsersHeld(run'[r], stored, kept)
  BY <1>1, <1>2, <1>6 DEF UsersHeld
<1> QED
  BY <1>1, <1>2, <1>6, <1>7, <1>9, <1>11, <1>12, <1>13, TurnInMemory

(* The calls of a reply.                                                   *)
LEMMA UsersStay ==
  ASSUME NEW h \in Seq(Msgs), NEW m \in Msgs, NEW p, NEW q, NEW K,
         p.pc \notin Rewritten, q.pc \notin Rewritten, UsersHeld(p, h, K)
  PROVE  UsersHeld(q, Append(h, m), K)
<1> SUFFICES ASSUME NEW o \in K PROVE Holds(Append(h, m), o)
  BY DEF UsersHeld, Rewritten
<1>1. Holds(h, o)
  BY DEF UsersHeld, Rewritten
<1> QED
  BY <1>1, Appended DEF Holds

LEMMA CallsTools == ASSUME LoopInv, NEW r \in Runs, CallTools(r) PROVE LoopInv'
<1>1. PICK keys \in Replies :
        /\ stored' = Append(stored, Assistant(r, run[r].iter, Len(keys)))
        /\ run' = [run EXCEPT ![r].pc = "calling", ![r].fresh = FALSE, ![r].pending = keys,
                              ![r].prompt = Append(run[r].prompt,
                                                   Assistant(r, run[r].iter, Len(keys)))]
  BY DEF CallTools, Store
<1>2. /\ run[r].pc = "thinking" /\ run[r].pc \notin Quiet /\ ~MustConclude(r)
      /\ UNCHANGED <<troubles, kept, torn>>
  BY DEF CallTools, Thinks, At, Quiet, history
<1>3. /\ run \in [Runs -> RunState] /\ run[r] \in RunState /\ stored \in Seq(Msgs)
      /\ troubles \in 0 .. MaxTroubles /\ torn \in BOOLEAN /\ kept \subseteq Runs
      /\ \A o \in Runs : o # r => run[o].pc \in Quiet
      /\ Bounded(run[r]) /\ Gated(run[r]) /\ Prepared(r, run[r], stored, run)
      /\ Older(stored, run)
      /\ torn \/ UsersHeld(run[r], stored, kept)
  BY <1>2, MyTurn
<1>4. /\ run[r].prompt \in Seq(Msgs) /\ run[r].iter \in Nat /\ run[r].dups \in Nat
      /\ keys \in Seq(Keys) /\ Len(keys) \in Nat
  BY <1>3, AgentAssumption DEF RunState
<1>5. PICK m \in Msgs : /\ m = Assistant(r, run[r].iter, Len(keys)) /\ m.role = "assistant"
                        /\ m.run = r /\ m.iter = run[r].iter
  BY <1>4, Made
<1>6. Append(stored, m) \in Seq(Msgs) /\ Append(run[r].prompt, m) \in Seq(Msgs)
  BY <1>3, <1>4, <1>5
<1>7. /\ run' \in [Runs -> RunState] /\ Others(r, run, run')
      /\ run'[r].pc = "calling" /\ run'[r].prompt = Append(run[r].prompt, m)
      /\ run'[r].pending = keys /\ run'[r].iter = run[r].iter
      /\ run'[r].reviews = run[r].reviews /\ run'[r].dups = run[r].dups
      /\ run'[r].cache = run[r].cache
      /\ run'[r].granted = run[r].granted /\ run'[r].executed = run[r].executed
  BY <1>1, <1>3, <1>4, <1>5, <1>6 DEF Others, RunState, Places
<1>8. Bounded(run'[r]) /\ Gated(run'[r])
  <2>1. run[r].iter < MaxIterations /\ run[r].dups < 2
    BY <1>2, <1>3, <1>4, AgentAssumption DEF Bounded, MustConclude
  <2>2. Bounded(run'[r])
    BY <1>3, <1>7, <2>1 DEF Bounded
  <2>3. Gated(run'[r])
    BY <1>3, <1>7 DEF Gated, LetThrough
  <2> QED
    BY <2>2, <2>3
<1>9. Closed(run[r].prompt) /\ Older(run[r].prompt, run) /\ Closed(stored)
  BY <1>2, <1>3 DEF Prepared, Shaped, Rewritten, Looping
<1>10. ASSUME NEW h \in Seq(Msgs), Older(h, run), NEW a \in DOMAIN h, Calls(h, a)
       PROVE  ~(h[a].run = r /\ h[a].iter = run[r].iter)
  <2>1. /\ run[h[a].run].pc # "done" =>
             \/ h[a].iter < run[h[a].run].iter
             \/ h[a].iter = run[h[a].run].iter /\ run[h[a].run].pc \in Working
    BY <1>10 DEF Older
  <2> QED
    BY <1>2, <1>4, <2>1 DEF Working
<1>11. /\ Open(stored', r, run'[r].iter, 0, 0 + Len(keys))
       /\ Open(run'[r].prompt, r, run'[r].iter, 0, 0 + Len(keys))
  <2>1. 0 + Len(keys) = Len(keys)
    BY <1>4
  <2>2. Open(Append(stored, Assistant(r, run[r].iter, Len(keys))), r, run[r].iter, 0, Len(keys))
    BY <1>3, <1>4, <1>9, <1>10, GroupOpened
  <2>3. Open(Append(run[r].prompt, Assistant(r, run[r].iter, Len(keys))), r, run[r].iter, 0, Len(keys))
    BY <1>3, <1>4, <1>9, <1>10, GroupOpened
  <2> QED
    BY <1>1, <1>5, <1>7, <2>1, <2>2, <2>3
<1>12. Growing(r, run'[r], stored', 0)
  BY <1>7, <1>11 DEF Growing
<1>13. Advances(run[r], run'[r])
  BY <1>2, <1>4, <1>7 DEF Advances, Working
<1>14. Older(stored, run') /\ Older(run[r].prompt, run')
  BY <1>3, <1>4, <1>7, <1>9, <1>13, OlderKept
<1>15. Older(stored', run') /\ Older(run'[r].prompt, run')
  <2>1. run'[m.run].pc \in Working /\ m.iter = run'[m.run].iter
    BY <1>5, <1>7 DEF Working
  <2>2. Older(Append(stored, m), run')
    BY <1>3, <1>14, <2>1, OlderAppended
  <2>3. Older(Append(run[r].prompt, m), run')
    BY <1>4, <1>14, <2>1, OlderAppended
  <2> QED
    BY <1>1, <1>5, <1>7, <2>2, <2>3
<1>16. Prepared(r, run'[r], stored', run')
  BY <1>7, <1>12, <1>15 DEF Prepared, Shaped, Rewritten
<1>17. RunOK(r, run'[r], stored', run')
  BY <1>8, <1>16 DEF RunOK
<1>18. stored' \in Seq(Msgs) /\ StoredOK(stored', run')
  <2>1. stored' \in Seq(Msgs)
    BY <1>1, <1>5, <1>6
  <2>2. run'[r].iter \in Nat
    BY <1>4, <1>7
  <2> QED
    BY <1>11, <1>15, <2>1, <2>2, OpenBroken DEF StoredOK
<1>19. torn' \/ UsersHeld(run'[r], stored', kept')
  <2>1. run[r].pc \notin Rewritten /\ run'[r].pc \notin Rewritten
    BY <1>2, <1>7 DEF Rewritten
  <2> QED
    BY <1>1, <1>2, <1>3, <1>5, <2>1, UsersStay
<1> QED
  BY <1>2, <1>3, <1>7, <1>17, <1>18, <1>19, OneTurn

(* A call is known by the results before it.                               *)
LEMMA ThisCall ==
  ASSUME LoopInv, NEW r \in Runs, run[r].pc \in Working
  PROVE  \E n \in Nat : Growing(r, run[r], stored, n) /\ Call(r) = <<r, run[r].iter, n + 1>>
<1>1. /\ Prepared(r, run[r], stored, run) /\ run[r] \in RunState
  BY MyTurn DEF Working, Quiet
<1>2. run[r].prompt \in Seq(Msgs) /\ run[r].iter \in Nat
  BY <1>1 DEF RunState
<1>3. PICK n \in Nat : Growing(r, run[r], stored, n)
  BY <1>1 DEF Prepared, Shaped
<1> DEFINE h == run[r].prompt
           i == run[r].iter
           c == n + Len(run[r].pending)
<1>4. Open(h, r, i, n, c)
  BY <1>3 DEF Growing
<1> HIDE DEF h, i, c
<1>5. h \in Seq(Msgs) /\ i \in Nat
  BY <1>2 DEF h, i
<1>6. /\ Len(h) \in Nat /\ Calls(h, Len(h) - n)
      /\ \A k \in 1 .. n : h[Len(h) - n + k] = ToolResult(<<r, i, k>>)
  BY SMTT(30), <1>4, <1>5, OpenGroup
<1>7. (IF h[Len(h)].role = "result" THEN h[Len(h)].of[3] ELSE 0) = n
  <2>1. CASE n = 0
    BY <1>6, <2>1 DEF Calls
  <2>2. CASE n # 0
    <3>1. n \in 1 .. n /\ Len(h) - n + n = Len(h)
      BY <1>6, <2>2
    <3>2. h[Len(h)] = ToolResult(<<r, i, n>>)
      BY <1>6, <3>1
    <3> QED
      BY <3>2, Resulting
  <2> QED
    BY <2>1, <2>2
<1>8. Call(r) = <<r, i, n + 1>>
  BY <1>7 DEF Call, h, i
<1> QED
  BY <1>3, <1>8 DEF i

LEMMA Grants == ASSUME LoopInv, NEW r \in Runs, Grant(r) PROVE LoopInv'
<1>1. /\ run[r].pc = "asking" /\ run[r].pc \notin Quiet /\ UNCHANGED <<stored, troubles, kept, torn>>
      /\ run' = [run EXCEPT ![r].pc = "approved", ![r].granted = run[r].granted \cup {Call(r)}]
  BY DEF Grant, At, Quiet, history
<1>2. /\ run \in [Runs -> RunState] /\ run[r] \in RunState
      /\ troubles \in 0 .. MaxTroubles /\ torn \in BOOLEAN
      /\ Bounded(run[r]) /\ Gated(run[r]) /\ Prepared(r, run[r], stored, run)
      /\ torn \/ UsersHeld(run[r], stored, kept)
  BY <1>1, MyTurn
<1>3. PICK n \in Nat : Growing(r, run[r], stored, n) /\ Call(r) = <<r, run[r].iter, n + 1>>
  BY <1>1, ThisCall DEF Working
<1>4. Call(r) \in Ids /\ run[r].iter \in Nat
  BY <1>2, <1>3 DEF Ids, RunState
<1>5. /\ run' \in [Runs -> RunState] /\ Others(r, run, run')
      /\ run'[r].pc = "approved" /\ run'[r].prompt = run[r].prompt
      /\ run'[r].pending = run[r].pending /\ run'[r].iter = run[r].iter
      /\ run'[r].reviews = run[r].reviews /\ run'[r].dups = run[r].dups
      /\ run'[r].cache = run[r].cache /\ run'[r].granted = run[r].granted \cup {Call(r)}
      /\ run'[r].executed = run[r].executed
  BY ZenonT(30), <1>1, <1>2, <1>4 DEF Others, RunState, Places
<1>6. Bounded(run'[r])
  BY <1>1, <1>2, <1>5 DEF Bounded, Working
<1>7. Gated(run'[r])
  BY <1>1, <1>2, <1>5 DEF Gated, LetThrough
<1>8. Growing(r, run'[r], stored, n)
  BY <1>3, <1>5 DEF Growing
<1>9. Shaped(r, run'[r], stored)
  BY <1>5, <1>8 DEF Shaped, Rewritten
<1>10. Older(run'[r].prompt, run)
  BY <1>1, <1>2, <1>5 DEF Prepared, Looping, Working
<1>11. Advances(run[r], run'[r])
  BY <1>1, <1>4, <1>5 DEF Advances, Working
<1>12. torn' \/ UsersHeld(run'[r], stored, kept)
  BY <1>1, <1>2, <1>5 DEF UsersHeld
<1> QED
  BY <1>1, <1>2, <1>5, <1>6, <1>7, <1>9, <1>10, <1>11, <1>12, TurnInMemory

(* A call that is over, with what it had as an effect.                     *)
LEMMA EndsOf ==
  ASSUME LoopInv, NEW r \in Runs, run[r].pc \in {"calling", "asking", "approved"},
         run[r].pending # <<>>, Key(r) \notin run[r].cache,
         NEW media \in BOOLEAN, NEW effects \in SUBSET {<<Call(r), Key(r)>>},
         effects # {} => LetThrough(<<Call(r), Key(r)>>, run[r]),
         Ends(r, media, effects), UNCHANGED <<stored, troubles, history>>
  PROVE  LoopInv'
<1>1. /\ run[r].pc \in Working /\ run[r].pc \notin Quiet /\ UNCHANGED <<stored, troubles, kept, torn>>
      /\ run' = [run EXCEPT ![r].pc = "storing", ![r].cache = run[r].cache \cup {Key(r)},
                            ![r].fresh = TRUE, ![r].media = run[r].media \/ media,
                            ![r].executed = run[r].executed \cup effects]
  BY DEF Ends, Working, Quiet, history
<1>2. /\ run \in [Runs -> RunState] /\ run[r] \in RunState
      /\ troubles \in 0 .. MaxTroubles /\ torn \in BOOLEAN
      /\ Bounded(run[r]) /\ Gated(run[r]) /\ Prepared(r, run[r], stored, run)
      /\ torn \/ UsersHeld(run[r], stored, kept)
  BY <1>1, MyTurn
<1>3. PICK n \in Nat : Growing(r, run[r], stored, n) /\ Call(r) = <<r, run[r].iter, n + 1>>
  BY <1>1, ThisCall
<1>4. Call(r) \in Ids /\ Key(r) \in Keys /\ run[r].iter \in Nat /\ Key(r) = Head(run[r].pending)
  <2>1. run[r].pending \in Seq(Keys) /\ run[r].iter \in Nat
    BY <1>2 DEF RunState
  <2> QED
    BY <1>3, <2>1 DEF Ids, Key
<1>5. effects \subseteq Ids \X Keys
  BY <1>4
<1>6. /\ run' \in [Runs -> RunState] /\ Others(r, run, run')
      /\ run'[r].pc = "storing" /\ run'[r].prompt = run[r].prompt
      /\ run'[r].pending = run[r].pending /\ run'[r].iter = run[r].iter
      /\ run'[r].reviews = run[r].reviews /\ run'[r].dups = run[r].dups
      /\ run'[r].cache = run[r].cache \cup {Key(r)} /\ run'[r].granted = run[r].granted
      /\ run'[r].executed = run[r].executed \cup effects
  <2>1. /\ run[r].cache \cup {Key(r)} \in SUBSET Keys
        /\ run[r].executed \cup effects \in SUBSET (Ids \X Keys)
        /\ (run[r].media \/ media) \in BOOLEAN /\ "storing" \in Places
    BY <1>2, <1>4, <1>5 DEF RunState, Places
  <2> QED
    BY ZenonT(30), <1>1, <1>2, <2>1 DEF Others, RunState
<1>7. Bounded(run'[r])
  BY <1>1, <1>2, <1>6 DEF Bounded
<1>8. Gated(run'[r])
  <2>1. ASSUME NEW x \in run'[r].executed
        PROVE  /\ x[2] \in run'[r].cache /\ LetThrough(x, run'[r])
               /\ \A y \in run'[r].executed : x[2] = y[2] => x = y
    <3> DEFINE e == <<Call(r), Key(r)>>
    <3>1. e[2] = Key(r)
      OBVIOUS
    <3>2. \A y \in run'[r].executed : y \in run[r].executed \/ (y = e /\ effects # {})
      BY <1>6
    <3>3. \A y \in run[r].executed : /\ y[2] \in run[r].cache /\ LetThrough(y, run[r])
                                     /\ \A z \in run[r].executed : y[2] = z[2] => y = z
      BY <1>2 DEF Gated
    <3>4. \A y : LetThrough(y, run[r]) => LetThrough(y, run'[r])
      BY <1>6 DEF LetThrough
    <3> HIDE DEF e
    <3>5. CASE x \in run[r].executed
      <4>1. x[2] \in run[r].cache /\ x[2] # e[2]
        BY <3>1, <3>3, <3>5
      <4>2. LetThrough(x, run'[r])
        BY <3>3, <3>4, <3>5
      <4> QED
        BY <1>6, <3>2, <3>3, <3>5, <4>1, <4>2
    <3>6. CASE x = e /\ effects # {}
      <4>1. LetThrough(x, run'[r])
        BY <3>4, <3>6 DEF e
      <4>2. \A y \in run[r].executed : y[2] # x[2]
        BY <3>1, <3>3, <3>6
      <4> QED
        BY <1>6, <3>1, <3>2, <3>6, <4>1, <4>2
    <3> QED
      BY <3>2, <3>5, <3>6
  <2> QED
    BY <1>6, <2>1 DEF Gated
<1>9. Growing(r, run'[r], stored, n)
  BY <1>3, <1>6 DEF Growing
<1>10. Shaped(r, run'[r], stored)
  BY <1>6, <1>9 DEF Shaped, Rewritten
<1>11. Older(run'[r].prompt, run)
  BY <1>1, <1>2, <1>6 DEF Prepared, Looping
<1>12. Advances(run[r], run'[r])
  BY <1>1, <1>4, <1>6 DEF Advances, Working
<1>13. torn' \/ UsersHeld(run'[r], stored, kept)
  BY <1>1, <1>2, <1>6 DEF UsersHeld, Working
<1>14. /\ troubles' \in 0 .. MaxTroubles /\ torn' \in BOOLEAN /\ (torn => torn')
       /\ UNCHANGED <<stored, kept>>
  BY <1>1, <1>2
<1> QED
  BY <1>1, <1>6, <1>7, <1>8, <1>10, <1>11, <1>12, <1>13, <1>14, TurnInMemory

LEMMA CallEnds ==
  ASSUME LoopInv, NEW r \in Runs, Deny(r) \/ Refuse(r) \/ Execute(r)
  PROVE  LoopInv'
<1>1. CASE Deny(r)
  BY <1>1, EndsOf DEF Deny, Calling, At, IsDuplicate
<1>2. ASSUME run[r].pc \in {"asking", "approved"}
      PROVE  /\ run[r].pending # <<>> /\ Key(r) \notin run[r].cache
             /\ Gate[Key(r)] \in {"contract", "tool"}
  BY <1>2, MyTurn DEF Quiet, Bounded, Gated, Key
<1>3. CASE Refuse(r)
  BY <1>2, <1>3, EndsOf DEF Refuse, At
<1>4. CASE Execute(r)
  <2>1. \E media \in {FALSE, Key(r) \in Questions} : Ends(r, media, {<<Call(r), Key(r)>>})
    BY <1>4, Zenon DEF Execute
  <2>2. UNCHANGED <<stored, troubles, history>>
    BY <1>4 DEF Execute
  <2>3. FALSE \in BOOLEAN /\ (Key(r) \in Questions) \in BOOLEAN
    OBVIOUS
  <2>4. PICK media \in BOOLEAN : Ends(r, media, {<<Call(r), Key(r)>>})
    BY <2>1, <2>3, Zenon
  <2>5. CASE run[r].pc = "approved"
    <3>1. run[r].pc \in Working
      BY <2>5 DEF Working
    <3>2. PICK n \in Nat : Growing(r, run[r], stored, n) /\ Call(r) = <<r, run[r].iter, n + 1>>
      BY <3>1, ThisCall
    <3>3. Call(r) \in run[r].granted
      BY <2>5, <3>2 DEF Growing
    <3>4. LetThrough(<<Call(r), Key(r)>>, run[r])
      BY <1>2, <2>5, <3>3 DEF LetThrough
    <3> QED
      BY <1>2, <2>2, <2>4, <2>5, <3>4, EndsOf
  <2>6. CASE Calling(r) /\ ~IsDuplicate(r) /\ Gate[Key(r)] = "allowed"
    <3>1. LetThrough(<<Call(r), Key(r)>>, run[r])
      BY <2>6 DEF LetThrough
    <3>2. run[r].pc = "calling" /\ run[r].pending # <<>> /\ Key(r) \notin run[r].cache
      BY <2>6 DEF Calling, At, IsDuplicate
    <3> QED
      BY <2>2, <2>4, <3>1, <3>2, EndsOf
  <2> QED
    BY <1>4, <2>5, <2>6 DEF Execute, At
<1> QED
  BY <1>1, <1>3, <1>4

(* store_tool_result()                                                     *)
LEMMA StoresResult == ASSUME LoopInv, NEW r \in Runs, StoreResult(r) PROVE LoopInv'
<1>1. /\ run[r].pc = "storing" /\ run[r].pc \in Working /\ run[r].pc \notin Quiet
      /\ UNCHANGED <<troubles, kept, torn>>
      /\ stored' = Append(stored, ToolResult(Call(r)))
      /\ run' = [run EXCEPT ![r].pc = "calling", ![r].pending = Tail(run[r].pending),
                            ![r].prompt = Append(run[r].prompt, ToolResult(Call(r)))]
  BY DEF StoreResult, Store, At, Working, Quiet, history
<1>2. /\ run \in [Runs -> RunState] /\ run[r] \in RunState /\ stored \in Seq(Msgs)
      /\ troubles \in 0 .. MaxTroubles /\ torn \in BOOLEAN /\ kept \subseteq Runs
      /\ \A o \in Runs : o # r => run[o].pc \in Quiet
      /\ Bounded(run[r]) /\ Gated(run[r]) /\ Prepared(r, run[r], stored, run)
      /\ Older(stored, run)
      /\ torn \/ UsersHeld(run[r], stored, kept)
  BY <1>1, MyTurn
<1>3. PICK n \in Nat : Growing(r, run[r], stored, n) /\ Call(r) = <<r, run[r].iter, n + 1>>
  BY <1>1, ThisCall
<1>4. /\ run[r].prompt \in Seq(Msgs) /\ run[r].iter \in Nat
      /\ run[r].pending \in Seq(Keys) /\ run[r].pending # <<>>
  BY <1>1, <1>2 DEF RunState, Bounded
<1>5. /\ Tail(run[r].pending) \in Seq(Keys) /\ Len(run[r].pending) \in Nat
      /\ Len(run[r].pending) # 0 /\ Len(Tail(run[r].pending)) = Len(run[r].pending) - 1
  BY <1>4
<1>6. PICK m \in Msgs : m = ToolResult(Call(r)) /\ m.role = "result"
  <2>1. Call(r) \in Ids
    BY <1>3, <1>4 DEF Ids
  <2> QED
    BY <2>1, Resulting
<1>7. Append(stored, m) \in Seq(Msgs) /\ Append(run[r].prompt, m) \in Seq(Msgs)
  BY <1>2, <1>4, <1>6
<1>8. /\ run' \in [Runs -> RunState] /\ Others(r, run, run')
      /\ run'[r].pc = "calling" /\ run'[r].prompt = Append(run[r].prompt, m)
      /\ run'[r].pending = Tail(run[r].pending) /\ run'[r].iter = run[r].iter
      /\ run'[r].reviews = run[r].reviews /\ run'[r].dups = run[r].dups
      /\ run'[r].cache = run[r].cache
      /\ run'[r].granted = run[r].granted /\ run'[r].executed = run[r].executed
  BY <1>1, <1>2, <1>5, <1>6, <1>7 DEF Others, RunState, Places
<1>9. Bounded(run'[r]) /\ Gated(run'[r])
  BY <1>1, <1>2, <1>8 DEF Bounded, Gated, LetThrough
<1>10. Growing(r, run'[r], stored', n + 1)
  <2> DEFINE c == n + Len(run[r].pending)
  <2>1. n < c /\ n + 1 + Len(run'[r].pending) = c
    <3>1. Len(run'[r].pending) = Len(run[r].pending) - 1
      BY <1>5, <1>8
    <3>2. Len(run[r].pending) \in Nat /\ Len(run[r].pending) # 0
      BY <1>5
    <3>3. \A l \in Nat : l # 0 => n < n + l /\ n + 1 + (l - 1) = n + l
      OBVIOUS
    <3> QED
      BY <3>1, <3>2, <3>3
  <2>2. Open(stored, r, run[r].iter, n, c) /\ Open(run[r].prompt, r, run[r].iter, n, c)
    BY <1>3 DEF Growing
  <2> HIDE DEF c
  <2>3. Open(Append(stored, ToolResult(<<r, run[r].iter, n + 1>>)), r, run[r].iter, n + 1, c)
    BY <1>2, <1>4, <2>1, <2>2, GroupGrows
  <2>4. Open(Append(run[r].prompt, ToolResult(<<r, run[r].iter, n + 1>>)), r, run[r].iter, n + 1, c)
    BY <1>4, <2>1, <2>2, GroupGrows
  <2>5. Open(stored', r, run'[r].iter, n + 1, c) /\ Open(run'[r].prompt, r, run'[r].iter, n + 1, c)
    BY <1>1, <1>3, <1>6, <1>8, <2>3, <2>4
  <2> QED
    BY <1>8, <2>1, <2>5 DEF Growing
<1>11. Advances(run[r], run'[r])
  BY <1>1, <1>4, <1>8 DEF Advances, Working
<1>12. Older(run[r].prompt, run)
  BY <1>1, <1>2 DEF Prepared, Looping
<1>13. Older(stored, run') /\ Older(run[r].prompt, run')
  BY <1>2, <1>4, <1>8, <1>11, <1>12, OlderKept
<1>14. Older(stored', run') /\ Older(run'[r].prompt, run')
  <2>1. Older(Append(stored, m), run')
    BY <1>2, <1>6, <1>13, OlderAppended
  <2>2. Older(Append(run[r].prompt, m), run')
    BY <1>4, <1>6, <1>13, OlderAppended
  <2> QED
    BY <1>1, <1>6, <1>8, <2>1, <2>2
<1>15. Prepared(r, run'[r], stored', run')
  BY <1>8, <1>10, <1>14 DEF Prepared, Shaped, Rewritten
<1>16. RunOK(r, run'[r], stored', run')
  BY <1>9, <1>15 DEF RunOK
<1>17. stored' \in Seq(Msgs) /\ StoredOK(stored', run')
  <2>1. stored' \in Seq(Msgs)
    BY <1>1, <1>6, <1>7
  <2>2. run'[r].iter \in Nat
    BY <1>4, <1>8
  <2>3. Sound(stored') /\ BrokenLast(stored')
    BY <1>10, <2>1, <2>2, OpenBroken DEF Growing
  <2> QED
    BY <1>14, <2>1, <2>3 DEF StoredOK
<1>18. torn' \/ UsersHeld(run'[r], stored', kept')
  <2>1. run[r].pc \notin Rewritten /\ run'[r].pc \notin Rewritten
    BY <1>1, <1>8 DEF Rewritten
  <2> QED
    BY <1>1, <1>2, <1>6, <2>1, UsersStay
<1> QED
  BY <1>1, <1>2, <1>8, <1>16, <1>17, <1>18, OneTurn

LEMMA GoesOn == ASSUME LoopInv, NEW r \in Runs, NextIteration(r) PROVE LoopInv'
<1>1. /\ run[r].pc = "calling" /\ run[r].pc \in Working /\ run[r].pc \notin Quiet
      /\ run[r].pending = <<>> /\ UNCHANGED <<stored, troubles, kept, torn>>
  BY DEF NextIteration, Answered, At, Working, Quiet, history
<1>2. /\ run \in [Runs -> RunState] /\ run[r] \in RunState /\ stored \in Seq(Msgs)
      /\ troubles \in 0 .. MaxTroubles /\ torn \in BOOLEAN
      /\ Bounded(run[r]) /\ Gated(run[r]) /\ Prepared(r, run[r], stored, run)
      /\ torn \/ UsersHeld(run[r], stored, kept)
  BY <1>1, MyTurn
<1>3. PICK n \in Nat : Growing(r, run[r], stored, n)
  BY <1>1, ThisCall
<1>4. run[r].prompt \in Seq(Msgs) /\ run[r].iter \in Nat /\ run[r].dups \in Nat
  BY <1>2 DEF RunState
<1>5. PICK dups \in Nat :
        /\ dups = 0 \/ dups = run[r].dups + 1
        /\ run' = [run EXCEPT ![r].pc = "thinking", ![r].dups = dups, ![r].iter = run[r].iter + 1]
  <2>1. 0 \in Nat /\ run[r].dups + 1 \in Nat
    BY <1>4
  <2>2. CASE run[r].fresh
    BY <2>1, <2>2 DEF NextIteration
  <2>3. CASE ~run[r].fresh
    BY <2>1, <2>3 DEF NextIteration
  <2> QED
    BY <2>2, <2>3
<1>6. /\ run' \in [Runs -> RunState] /\ Others(r, run, run')
      /\ run'[r].pc = "thinking" /\ run'[r].prompt = run[r].prompt
      /\ run'[r].iter = run[r].iter + 1 /\ run'[r].dups = dups
      /\ run'[r].reviews = run[r].reviews /\ run'[r].cache = run[r].cache
      /\ run'[r].granted = run[r].granted /\ run'[r].executed = run[r].executed
  <2>1. run[r].iter + 1 \in Nat /\ "thinking" \in Places
    BY <1>4 DEF Places
  <2> QED
    BY <1>2, <1>5, <2>1 DEF Others, RunState
<1>7. Bounded(run'[r])
  BY <1>1, <1>2, <1>4, <1>5, <1>6, AgentAssumption DEF Bounded, Working
<1>8. Gated(run'[r])
  BY <1>2, <1>6 DEF Gated, LetThrough
<1>9. Closed(stored) /\ Closed(run[r].prompt)
  <2>1. n + Len(run[r].pending) = n
    BY <1>1
  <2>2. Open(stored, r, run[r].iter, n, n) /\ Open(run[r].prompt, r, run[r].iter, n, n)
    BY <1>3, <2>1 DEF Growing
  <2> QED
    BY <1>2, <1>4, <2>2, GroupDone
<1>10. Shaped(r, run'[r], stored)
  BY <1>6, <1>9 DEF Shaped, Working, Rewritten
<1>11. Older(run'[r].prompt, run)
  BY <1>1, <1>2, <1>6 DEF Prepared, Looping
<1>12. Advances(run[r], run'[r])
  BY <1>1, <1>4, <1>6 DEF Advances
<1>13. torn' \/ UsersHeld(run'[r], stored, kept)
  BY <1>1, <1>2, <1>6 DEF UsersHeld
<1> QED
  BY <1>1, <1>2, <1>6, <1>7, <1>8, <1>10, <1>11, <1>12, <1>13, TurnInMemory

LEMMA Finalizes == ASSUME LoopInv, NEW r \in Runs, Finalize(r) PROVE LoopInv'
<1>1. /\ run[r].pc = "finalizing" /\ run[r].pc \notin Quiet /\ UNCHANGED <<troubles, kept, torn>>
      /\ stored' = Append(stored, Final(r)) /\ run' = [run EXCEPT ![r] = Over]
  BY DEF Finalize, Store, At, Quiet, history
<1>2. /\ run \in [Runs -> RunState] /\ stored \in Seq(Msgs)
      /\ troubles \in 0 .. MaxTroubles /\ torn \in BOOLEAN /\ kept \subseteq Runs
      /\ \A o \in Runs : o # r => run[o].pc \in Quiet
      /\ Sound(stored) /\ BrokenLast(stored) /\ Older(stored, run)
      /\ torn \/ UsersHeld(run[r], stored, kept)
  BY <1>1, MyTurn
<1>3. PICK m \in Msgs : m = Final(r) /\ m.role = "final"
  BY Made
<1>4. /\ Over \in RunState /\ Over.pc = "done" /\ Over.executed = {}
      /\ Over.iter = 0 /\ Over.reviews = 0 /\ Over.dups = 0
  BY OverTyped
<1>5. run' \in [Runs -> RunState] /\ Others(r, run, run') /\ run'[r] = Over
  BY <1>1, <1>2, <1>4 DEF Others
<1>6. RunOK(r, run'[r], stored', run')
  BY <1>4, <1>5, AgentAssumption
     DEF RunOK, Bounded, Gated, Prepared, Shaped, Working, Looping, Rewritten
<1>7. Advances(run[r], run'[r])
  BY <1>1, <1>4, <1>5 DEF Advances
<1>8. Older(Append(stored, m), run')
  <2>1. Older(stored, run')
    BY <1>2, <1>5, <1>7, OlderKept
  <2> QED
    BY <1>2, <1>3, <2>1, OlderAppended
<1>9. stored' \in Seq(Msgs) /\ StoredOK(stored', run')
  <2>1. Append(stored, m) \in Seq(Msgs)
    BY <1>2
  <2>2. Sound(Append(stored, m)) /\ BrokenLast(Append(stored, m))
    BY <1>2, <1>3, PlainAppended
  <2> QED
    BY <1>1, <1>3, <1>8, <2>1, <2>2 DEF StoredOK
<1>10. torn' \/ UsersHeld(run'[r], stored', kept')
  <2>1. run[r].pc \notin Rewritten /\ run'[r].pc \notin Rewritten
    BY <1>1, <1>4, <1>5 DEF Rewritten
  <2> QED
    BY <1>1, <1>2, <1>3, <2>1, UsersStay
<1> QED
  BY <1>1, <1>2, <1>5, <1>6, <1>9, <1>10, OneTurn

(* A crash takes the one run that is active.                               *)
LEMMA Crashes == LoopInv /\ Crash => LoopInv'
<1> SUFFICES ASSUME LoopInv, Crash PROVE LoopInv'
  OBVIOUS
<1>1. PICK r \in Runs : run[r].pc \notin Quiet
  BY DEF Crash, Active, At, Quiet
<1>2. /\ run \in [Runs -> RunState] /\ troubles \in 0 .. MaxTroubles /\ torn \in BOOLEAN
      /\ \A o \in Runs : o # r => run[o].pc \in Quiet
  BY <1>1, MyTurn
<1>3. run' = [run EXCEPT ![r] = Over]
  BY <1>1, <1>2 DEF Crash, Active, At, Quiet
<1>4. /\ UNCHANGED <<stored, kept>> /\ torn' \in BOOLEAN /\ (torn => torn')
      /\ (torn' \/ ~Rewriting(r)) /\ troubles' \in 0 .. MaxTroubles
  <2>1. /\ UNCHANGED <<stored, kept>> /\ troubles' = troubles + 1 /\ troubles < MaxTroubles
        /\ torn' = (torn \/ \E o \in Runs : Rewriting(o))
    BY DEF Crash
  <2>2. troubles' \in 0 .. MaxTroubles
    BY <1>2, <2>1, AgentAssumption
  <2>3. torn' \in BOOLEAN /\ (torn => torn') /\ (torn' \/ ~Rewriting(r))
    BY <2>1
  <2> QED
    BY <2>1, <2>2, <2>3
<1> QED
  BY <1>1, <1>3, <1>4, GoesAway

-----------------------------------------------------------------------------
LEMMA LoopInit == Init => LoopInv
<1> SUFFICES ASSUME Init PROVE LoopInv
  OBVIOUS
<1>1. /\ stored = <<>> /\ troubles = 0 /\ kept = {} /\ torn = FALSE
      /\ \A r \in Runs : run[r] = NewRun
      /\ run \in [Runs -> RunState]
  BY NewRunTyped DEF Init
<1>2. Types
  <2>1. stored \in Seq(Msgs) /\ kept \subseteq Runs /\ torn \in BOOLEAN
    <3>1. <<>> \in Seq(Msgs)
      OBVIOUS
    <3> QED
      BY <1>1, <3>1
  <2>2. troubles \in 0 .. MaxTroubles
    BY <1>1, AgentAssumption
  <2> QED
    BY <1>1, <2>1, <2>2 DEF Types
<1>3. OneRun /\ UsersOK
  BY <1>1, NewRunTyped DEF OneRun, UsersOK, Quiet
<1>4. ASSUME NEW r \in Runs PROVE RunOK(r, run[r], stored, run)
  BY <1>1, NewRunTyped, AgentAssumption
     DEF RunOK, Bounded, Gated, Prepared, Shaped, Working, Looping, Rewritten
<1>5. StoredOK(stored, run)
  BY <1>1 DEF StoredOK, Sound, BrokenLast, Older, Calls
<1> QED
  BY <1>2, <1>3, <1>4, <1>5 DEF LoopInv

LEMMA LoopStep == LoopInv /\ [Next]_vars => LoopInv'
<1> SUFFICES ASSUME LoopInv, [Next]_vars PROVE LoopInv'
  OBVIOUS
<1>1. ASSUME NEW r \in Runs, Step(r) PROVE LoopInv'
  <2>1. CASE \/ WorkflowAnswers(r) \/ WorkflowDeclines(r) \/ Answer(r) \/ Approve(r)
             \/ Conclude(r) \/ Duplicate(r) \/ Ask(r)
    BY <2>1, PlaceChanges
  <2>2. CASE StopForMedia(r) \/ LlmFails(r) \/ ApprovalFails(r)
    BY <2>2, Departs
  <2>3. CASE Load(r) \/ Clear(r) \/ Restore(r) \/ AddUser(r)
    BY <2>3, Loads, Clears, Restores, AddsUser
  <2>4. CASE Revise(r) \/ CallTools(r) \/ Grant(r)
    BY <2>4, Revises, CallsTools, Grants
  <2>5. CASE Deny(r) \/ Refuse(r) \/ Execute(r)
    BY <2>5, CallEnds
  <2>6. CASE StoreResult(r) \/ NextIteration(r) \/ Finalize(r)
    BY <2>6, StoresResult, GoesOn, Finalizes
  <2> QED
    BY <1>1, <2>1, <2>2, <2>3, <2>4, <2>5, <2>6 DEF Step
<1>2. CASE UNCHANGED vars
  BY <1>2 DEF vars, LoopInv, Types, OneRun, UsersOK
<1> QED
  BY <1>1, <1>2, Crashes, Starts, Departs DEF Next

(* The agent's loop keeps its invariant, whatever the number of runs.      *)
THEOREM LoopInvariant == Spec => []LoopInv
<1> QED
  BY LoopInit, LoopStep, PTL DEF Spec

(* Where a run can be, and the bounds of its loop.                         *)
LEMMA LoopTypes == LoopInv => TypeOK
<1> SUFFICES ASSUME LoopInv PROVE TypeOK
  OBVIOUS
<1>1. Types
  BY DEF LoopInv
<1>2. ASSUME NEW r \in Runs
      PROVE  /\ run[r].pc \in Places /\ run[r].iter \in 0 .. MaxIterations
             /\ run[r].reviews \in 0 .. MaxReviews /\ run[r].dups \in 0 .. 2
             /\ run[r].cache \subseteq Keys /\ run[r].pending \in Seq(Keys)
             /\ At(r, {"asking", "approved", "storing"}) => run[r].pending # <<>>
  <2>1. run[r] \in RunState /\ Bounded(run[r])
    BY <1>1 DEF Types, LoopInv, RunOK
  <2> QED
    BY <2>1, AgentAssumption DEF RunState, Bounded, At
<1> QED
  BY <1>1, <1>2 DEF Types, TypeOK

(* However many runs crashed, failed, were refused or cancelled on the     *)
(* conversation, a request to the model pairs every call with its result:  *)
(* sanitize_history() repairs what is stored, and the loop adds only whole *)
(* groups.                                                                 *)
THEOREM LoopPromptWellFormed == Spec => []PromptWellFormed
<1>1. LoopInv => PromptWellFormed
  <2> SUFFICES ASSUME LoopInv, NEW r \in Runs, At(r, {"thinking"})
               PROVE  WellFormed(run[r].prompt)
    BY LoopTypes DEF PromptWellFormed
  <2>1. Types /\ RunOK(r, run[r], stored, run)
    BY DEF LoopInv
  <2>2. run[r].prompt \in Seq(Msgs)
    BY <2>1 DEF Types, RunState
  <2>3. Closed(run[r].prompt)
    BY <2>1 DEF RunOK, Prepared, Shaped, At
  <2> QED
    BY <2>2, <2>3, ClosedWellFormed
<1> QED
  BY <1>1, LoopInvariant, PTL

(* No tool runs but what nothing guards, or what a human approved, this    *)
(* very call; and no run executes a call twice.                            *)
THEOREM LoopOnlyAllowedExecuted == Spec => []OnlyAllowedExecuted
<1>1. LoopInv => OnlyAllowedExecuted
  BY DEF LoopInv, RunOK, Gated, LetThrough, OnlyAllowedExecuted
<1> QED
  BY <1>1, LoopInvariant, PTL

(* A user message that was stored is in the history, or on its way back to *)
(* it, unless a rewrite was cut short.                                     *)
THEOREM LoopUserKept == Spec => []UserKept
<1>1. LoopInv => UserKept
  <2> SUFFICES ASSUME LoopInv, ~torn, NEW o \in kept
               PROVE  \/ \E i \in DOMAIN stored : stored[i] = User(o)
                      \/ \E r \in Runs : \E i \in DOMAIN run[r].todo :
                           At(r, {"restoring"}) /\ run[r].todo[i] = User(o)
    BY DEF UserKept
  <2>1. CASE \A r \in Runs : run[r].pc \in Quiet
    BY <2>1 DEF LoopInv, UsersOK, Holds
  <2>2. ASSUME NEW r \in Runs, run[r].pc \notin Quiet
        PROVE  Holds(stored, o) \/ (run[r].pc = "restoring" /\ Holds(run[r].todo, o))
    BY <2>2 DEF LoopInv, UsersOK, UsersHeld
  <2> QED
    BY <2>1, <2>2 DEF Holds, At
<1> QED
  BY <1>1, LoopInvariant, PTL
==============================================================================
