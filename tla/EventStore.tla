----------------------------- MODULE EventStore -----------------------------
(***************************************************************************)
(* SqliteEventStore (src/events/store.rs): the events table of             *)
(* conversations.db.  append() runs three autocommit statements under the  *)
(* mutex of the process's own connection: SELECT MAX(sequence), SELECT the *)
(* last hash of the stream, INSERT.  The mutex orders the tasks of one     *)
(* process; nothing orders the statements of two processes (two CLI        *)
(* sessions, or the CLI beside the daemon, open the same file, and WAL     *)
(* lets one read while the other is between two statements).               *)
(***************************************************************************)
EXTENDS EventStreams, Naturals, Sequences

CONSTANTS Processes,  \* operating-system processes
          Tasks,      \* blocking-pool tasks that run append()
          ProcessOf,  \* the process each task runs in
          NoTask      \* nobody holds the connection mutex

ASSUME StoreAssumption ==
  /\ Events # {}
  /\ ProcessOf \in [Tasks -> Processes]
  /\ NoTask \notin Tasks

VARIABLES
  rows,      \* the table, in rowid order
  mutex,     \* mutex[p]: the task that holds p's connection
  pc,        \* where each append() stands
  arg,       \* arg[t]: the event task t appends
  nextSeq,   \* nextSeq[t]: local next_seq of append()
  prevHash,  \* prevHash[t]: local prev_hash of append()
  unused     \* events whose uuid has not been drawn yet

storeVars == <<rows, mutex, pc, arg, nextSeq, prevHash, unused>>

-----------------------------------------------------------------------------
(* The columns the properties tell apart.  `data' is the serialised event, *)
(* produced before the sequence is known, so its own sequence field still  *)
(* has the 0 of Event::new.  SHA-256 is modelled as an injective           *)
(* constructor of its three inputs.                                        *)

NoHash == <<>>

compute_hash(event_id, data, prev) == <<event_id, data, prev>>

Serialised(e) == [id |-> e, sequence |-> 0]

Row(e, seq, prev) ==
  [ event_id |-> e, stream_id |-> StreamOf[e], sequence |-> seq,
    data |-> Serialised(e), prev_hash |-> prev,
    hash |-> compute_hash(e, Serialised(e), prev) ]

(* Queries are functions of a table tb, so that they can be asked of rows  *)
(* and of rows'.  ORDER BY sequence is served by idx_events_stream_seq,    *)
(* whose entries with equal keys are in rowid order.                       *)
StreamRows(tb, s) == { i \in DOMAIN tb : tb[i].stream_id = s }

Before(tb, i, j) ==
  \/ tb[i].sequence < tb[j].sequence
  \/ tb[i].sequence = tb[j].sequence /\ i < j

IsLast(tb, R, i) == i \in R /\ \A j \in R : j = i \/ Before(tb, j, i)

LastOf(tb, R) == CHOOSE i \in R : IsLast(tb, R, i)

HashOfLast(tb, R) == IF R = {} THEN NoHash ELSE tb[LastOf(tb, R)].hash

(* COALESCE(MAX(sequence), 0)                                              *)
last_sequence(tb, s) ==
  IF StreamRows(tb, s) = {} THEN 0
  ELSE tb[LastOf(tb, StreamRows(tb, s))].sequence

-----------------------------------------------------------------------------
(* Readers.                                                                *)

(* verify_chain: walk the stream in sequence order; every prev_hash must   *)
(* equal the previous row's hash and every hash must be recomputable.      *)
Earlier(tb, i) == { j \in StreamRows(tb, tb[i].stream_id) : Before(tb, j, i) }

LinkHolds(tb, i) ==
  /\ tb[i].prev_hash = HashOfLast(tb, Earlier(tb, i))
  /\ tb[i].hash = compute_hash(tb[i].event_id, tb[i].data, tb[i].prev_hash)

verify_chain(tb, s) == \A i \in StreamRows(tb, s) : LinkHolds(tb, i)

-----------------------------------------------------------------------------
InitStore ==
  /\ rows = <<>>
  /\ mutex = [p \in Processes |-> NoTask]
  /\ pc = [t \in Tasks |-> "idle"]
  /\ arg \in [Tasks -> {CHOOSE e \in Events : TRUE}]
  /\ nextSeq = [t \in Tasks |-> 0]
  /\ prevHash = [t \in Tasks |-> NoHash]
  /\ unused = Events

Called(t, e, left) ==
  /\ pc[t] = "idle" /\ e \in unused
  /\ unused' = left
  /\ arg' = [arg EXCEPT ![t] = e]
  /\ pc' = [pc EXCEPT ![t] = "called"]
  /\ UNCHANGED <<rows, mutex, nextSeq, prevHash>>

\* Mutant: an event can be appended again under the same id.
CallAgain(t, e) == Called(t, e, unused)

(* append() is called with a fresh event and serialises it.                *)
Call(t, e) == Called(t, e, unused \ {e})

Numbered(t, q) ==
  /\ pc[t] = "called"
  /\ mutex' = [mutex EXCEPT ![ProcessOf[t]] = t]
  /\ nextSeq' = [nextSeq EXCEPT ![t] = q]
  /\ pc' = [pc EXCEPT ![t] = "numbered"]
  /\ UNCHANGED <<rows, arg, prevHash, unused>>

\* Mutant: the connection is not locked.
SelectNextSeqUnlocked(t) == Numbered(t, last_sequence(rows, StreamOf[arg[t]]) + 1)

(* blocking_lock(), then SELECT COALESCE(MAX(sequence), 0) + 1.            *)
SelectNextSeq(t) ==
  /\ mutex[ProcessOf[t]] = NoTask
  /\ Numbered(t, last_sequence(rows, StreamOf[arg[t]]) + 1)

Linked(t, h) ==
  /\ pc[t] = "numbered"
  /\ prevHash' = [prevHash EXCEPT ![t] = h]
  /\ pc' = [pc EXCEPT ![t] = "linked"]
  /\ UNCHANGED <<rows, mutex, arg, nextSeq, unused>>

\* Mutant: the last hash of the whole table.
SelectTableHash(t) == Linked(t, HashOfLast(rows, DOMAIN rows))

(* SELECT hash ... ORDER BY sequence DESC LIMIT 1.                         *)
SelectPrevHash(t) == Linked(t, HashOfLast(rows, StreamRows(rows, StreamOf[arg[t]])))

Unlock(t) == mutex' = [mutex EXCEPT ![ProcessOf[t]] = NoTask]

(* INSERT INTO events; the closure ends and drops the mutex guard.         *)
Insert(t) ==
  /\ pc[t] = "linked"
  /\ rows' = Append(rows, Row(arg[t], nextSeq[t], prevHash[t]))
  /\ Unlock(t)
  /\ pc' = [pc EXCEPT ![t] = "idle"]
  /\ UNCHANGED <<arg, nextSeq, prevHash, unused>>

(* Any statement may return an error (busy_timeout, disk): `?' leaves the  *)
(* closure, the guard is dropped and nothing was written.                  *)
Fail(t) ==
  /\ pc[t] \in {"numbered", "linked"}
  /\ Unlock(t)
  /\ pc' = [pc EXCEPT ![t] = "idle"]
  /\ UNCHANGED <<rows, arg, nextSeq, prevHash, unused>>

(* A process dies: its tasks and its mutex go, the table stays.            *)
Crash(p) ==
  /\ pc' = [t \in Tasks |-> IF ProcessOf[t] = p THEN "idle" ELSE pc[t]]
  /\ mutex' = [mutex EXCEPT ![p] = NoTask]
  /\ UNCHANGED <<rows, arg, nextSeq, prevHash, unused>>

NextStore ==
  \/ \E t \in Tasks, e \in Events : Call(t, e)
  \/ \E t \in Tasks : \/ SelectNextSeq(t)
                      \/ SelectPrevHash(t)
                      \/ Insert(t)
                      \/ Fail(t)
  \/ \E p \in Processes : Crash(p)

StoreSpec == InitStore /\ [][NextStore]_storeVars

-----------------------------------------------------------------------------
(* A row is what append() writes for some event, number and previous hash. *)
RowOK(r) ==
  /\ r.event_id \in Events
  /\ r.sequence \in Nat \ {0}
  /\ r = Row(r.event_id, r.sequence, r.prev_hash)

TableOK(tb) ==
  /\ tb \in Seq({tb[i] : i \in DOMAIN tb})
  /\ \A i \in DOMAIN tb : RowOK(tb[i])

(* The type of the store's variables.                                      *)
StoreTypeOK ==
  /\ TableOK(rows)
  /\ mutex \in [Processes -> Tasks \cup {NoTask}]
  /\ pc \in [Tasks -> {"idle", "called", "numbered", "linked"}]
  /\ arg \in [Tasks -> Events]
  /\ nextSeq \in [Tasks -> Nat]
  /\ DOMAIN prevHash = Tasks
  /\ unused \subseteq Events

-----------------------------------------------------------------------------
(* All tasks share one process: the mutex then orders every append.        *)
SingleProcess == \A t, u \in Tasks : ProcessOf[t] = ProcessOf[u]

(* "Monotonically increasing sequence number within the stream"            *)
(* (src/events/mod.rs:21): in insertion order, whatever appends overlap,   *)
(* fail or die half way.                                                   *)
Increases(tb) ==
  \A i, j \in DOMAIN tb :
    (tb[i].stream_id = tb[j].stream_id /\ i < j) => tb[i].sequence < tb[j].sequence

SequenceIncreases == Increases(rows)

(* A failed or interrupted append leaves no hole: below every sequence     *)
(* number of a stream all the smaller ones are there.                      *)
GapFree(tb) ==
  \A i \in DOMAIN tb : \A k \in 1..tb[i].sequence :
    \E j \in DOMAIN tb : /\ tb[j].stream_id = tb[i].stream_id
                         /\ tb[j].sequence = k

NoGaps == GapFree(rows)

(* Whatever the interleaving, verify_chain() accepts every stream append() *)
(* has produced: no false report of a broken hash chain.                   *)
ChainVerifies == \A s \in Streams : verify_chain(rows, s)

(* Why: whoever is between two statements of append() holds the mutex, and *)
(* what it has read is still what the table says.                          *)
ReadsAreFresh ==
  \A t \in Tasks :
    /\ pc[t] \in {"numbered", "linked"} =>
         /\ mutex[ProcessOf[t]] = t
         /\ nextSeq[t] = last_sequence(rows, StreamOf[arg[t]]) + 1
    /\ pc[t] = "linked" =>
         prevHash[t] = HashOfLast(rows, StreamRows(rows, StreamOf[arg[t]]))

-----------------------------------------------------------------------------
(* The table as the abstract log: position k of stream s holds the event   *)
(* whose row has sequence k.                                               *)
RowAt(tb, s, k) == CHOOSE i \in StreamRows(tb, s) : tb[i].sequence = k

LogOf(tb) ==
  [ s \in Streams |->
      [ k \in 1..last_sequence(tb, s) |-> tb[RowAt(tb, s, k)].event_id ] ]

StreamLog == LogOf(rows)

Log == INSTANCE EventLog WITH log <- StreamLog

(* The three statements of append() look like one indivisible step to      *)
(* every reader, and a failed append like no step at all.                  *)
ImplementsLog == Log!LogSpec
=============================================================================
