------------------------------ MODULE SharedProofs ------------------------------
(***************************************************************************)
(* The three objects that all tasks of a process share, each behind its    *)
(* own lock: the event store, the bus and the approval slot.  They do not  *)
(* call each other, but for the bus that appends to the store (a step of   *)
(* EventLog, which the store implements), so the three arguments below are *)
(* independent.                                                            *)
(***************************************************************************)
EXTENDS EventStore, EventBus, ApprovalSlot, Integers, WellFoundedInduction, TLAPS

-----------------------------------------------------------------------------
(***************************************************************************)
(* The store.  What one process that owns conversations.db may rely on,    *)
(* for any number of tasks, events and streams: the sequence numbers of a  *)
(* stream increase without gaps and its hash chain verifies, whichever     *)
(* appends overlap, fail or die between two statements.                    *)
(*                                                                         *)
(* First facts about the queries on a table tb, then what they return on   *)
(* Append(tb, r), then the inductive invariant.                            *)
(***************************************************************************)

(* Every non-empty set of indices has a greatest one.                      *)
LEMMA MaxExists ==
  ASSUME NEW n \in Nat, NEW R, R \subseteq 1..n, R # {}
  PROVE  \E i \in R : \A j \in R : j <= i
<1> DEFINE T == { m \in Nat : \E i \in R : m + i = n }
<1>1. PICK r \in R : TRUE
  OBVIOUS
<1>2. n - r \in T
  OBVIOUS
<1>3. PICK m \in T : \A k \in T : ~(<<k, m>> \in OpToRel(<, Nat))
  <2>1. T \subseteq Nat /\ T # {}
    BY <1>2
  <2> HIDE DEF T
  <2> QED
    BY <2>1, NatLessThanWellFounded, WFMin
<1>4. PICK i \in R : m + i = n
  OBVIOUS
<1>5. ASSUME NEW j \in R
      PROVE  j <= i
  <2>1. n - j \in T
    OBVIOUS
  <2>2. ~(n - j < m)
    BY <2>1, <1>3 DEF OpToRel
  <2> QED
    BY <2>2, <1>4
<1> QED
  BY <1>5

-----------------------------------------------------------------------------
(* Tables.                                                                 *)

(* The indices of a table, and the columns of its rows.                    *)
LEMMA TableProperties ==
  ASSUME NEW tb, TableOK(tb)
  PROVE  /\ Len(tb) \in Nat
         /\ DOMAIN tb = 1..Len(tb)
         /\ \A i \in DOMAIN tb : /\ tb[i].event_id \in Events
                                 /\ tb[i].sequence \in Nat \ {0}
                                 /\ tb[i].stream_id \in Streams
                                 /\ tb[i].hash = compute_hash(tb[i].event_id, tb[i].data, tb[i].prev_hash)
<1>1. Len(tb) \in Nat /\ DOMAIN tb = 1..Len(tb)
  BY DEF TableOK
<1>2. ASSUME NEW i \in DOMAIN tb
      PROVE  /\ tb[i].event_id \in Events
             /\ tb[i].sequence \in Nat \ {0}
             /\ tb[i].stream_id \in Streams
             /\ tb[i].hash = compute_hash(tb[i].event_id, tb[i].data, tb[i].prev_hash)
  <2>1. RowOK(tb[i])
    BY DEF TableOK
  <2> DEFINE e == tb[i].event_id
             q == tb[i].sequence
             p == tb[i].prev_hash
  <2>2. e \in Events /\ q \in Nat \ {0} /\ tb[i] = Row(e, q, p)
    BY <2>1 DEF RowOK
  <2>3. /\ Row(e, q, p).stream_id = StreamOf[e]
        /\ Row(e, q, p).data = Serialised(e)
        /\ Row(e, q, p).hash = compute_hash(e, Serialised(e), p)
    BY DEF Row
  <2>4. StreamOf[e] \in Streams
    BY <2>2, StoreAssumption, StreamOfType
  <2> HIDE DEF e, q, p
  <2>5. /\ tb[i].stream_id \in Streams
        /\ tb[i].hash = compute_hash(e, tb[i].data, p)
    BY <2>2, <2>3, <2>4
  <2> QED
    BY <2>2, <2>5 DEF e, q, p
<1> QED
  BY <1>1, <1>2

(* What an INSERT makes of a table.                                        *)
LEMMA InsertedTable ==
  ASSUME NEW tb, TableOK(tb), NEW r, RowOK(r)
  PROVE  /\ TableOK(Append(tb, r))
         /\ Len(Append(tb, r)) = Len(tb) + 1
         /\ DOMAIN Append(tb, r) = DOMAIN tb \cup {Len(tb) + 1}
         /\ Len(tb) + 1 \notin DOMAIN tb
         /\ \A i \in DOMAIN tb : Append(tb, r)[i] = tb[i]
         /\ Append(tb, r)[Len(tb) + 1] = r
<1> DEFINE tb2 == Append(tb, r)
           S   == {tb[i] : i \in DOMAIN tb} \cup {r}
           n   == Len(tb)
<1>1. n \in Nat /\ DOMAIN tb = 1..n
  BY DEF TableOK
<1>2. tb \in Seq(S)
  BY DEF TableOK
<1>3. /\ Len(tb2) = n + 1
      /\ DOMAIN tb2 = 1..(n + 1)
      /\ \A i \in 1..n : tb2[i] = tb[i]
      /\ tb2[n + 1] = r
  <2> HIDE DEF S
  <2> QED
    BY <1>1, <1>2
<1>4. tb2 \in Seq({tb2[i] : i \in DOMAIN tb2})
  <2> HIDE DEF tb2
  <2>1. tb2 = [i \in 1..(n + 1) |-> tb2[i]]
    <3>1. tb2 \in Seq(S)
      BY <1>2 DEF tb2
    <3> HIDE DEF S
    <3> QED
      BY <3>1, <1>3
  <2> QED
    BY <2>1, <1>1, <1>3
<1>5. \A i \in DOMAIN tb2 : RowOK(tb2[i])
  <2>1. \A i \in DOMAIN tb : RowOK(tb[i])
    BY DEF TableOK
  <2> HIDE DEF tb2
  <2> QED
    BY <2>1, <1>1, <1>3
<1>6. DOMAIN tb2 = DOMAIN tb \cup {n + 1} /\ n + 1 \notin DOMAIN tb
  <2> HIDE DEF tb2
  <2> QED
    BY <1>1, <1>3
<1>7. TableOK(tb2)
  <2> HIDE DEF tb2
  <2> QED
    BY <1>4, <1>5 DEF TableOK
<1> QED
  BY <1>1, <1>3, <1>6, <1>7

-----------------------------------------------------------------------------
(* Queries on a table whose sequences increase.                            *)

(* ORDER BY sequence and the rowid order agree: the last row of a set of   *)
(* rows of one stream is the one inserted last.                            *)
LEMMA LastIsGreatest ==
  ASSUME NEW tb, TableOK(tb), Increases(tb), NEW s,
         NEW R, R \subseteq StreamRows(tb, s), NEW i \in R, \A j \in R : j <= i
  PROVE  LastOf(tb, R) = i
<1>1. \A j \in R : j \in DOMAIN tb /\ j \in Nat /\ tb[j].stream_id = s
                   /\ tb[j].sequence \in Nat
  BY TableProperties DEF StreamRows
<1>2. ASSUME NEW j \in R, j # i
      PROVE  tb[j].sequence < tb[i].sequence
  <2>1. j < i
    BY <1>1, <1>2
  <2> QED
    BY <1>1, <2>1 DEF Increases
<1>3. IsLast(tb, R, i)
  BY <1>2 DEF IsLast, Before
<1>4. ASSUME NEW k, IsLast(tb, R, k)
      PROVE  k = i
  <2>1. k \in R /\ (i = k \/ Before(tb, i, k))
    BY <1>4 DEF IsLast
  <2>2. ASSUME k # i
        PROVE  FALSE
    <3>1. tb[k].sequence < tb[i].sequence
      BY <2>1, <2>2, <1>2
    <3> QED
      BY <2>1, <2>2, <3>1, <1>1 DEF Before
  <2> QED
    BY <2>2
<1>5. \E k \in R : IsLast(tb, R, k)
  BY <1>3
<1>6. IsLast(tb, R, LastOf(tb, R))
  BY <1>5 DEF LastOf
<1> QED
  BY <1>4, <1>6

LEMMA LastExists ==
  ASSUME NEW tb, TableOK(tb), Increases(tb), NEW s,
         NEW R, R \subseteq StreamRows(tb, s), R # {}
  PROVE  LastOf(tb, R) \in R /\ \A j \in R : j <= LastOf(tb, R)
<1>1. Len(tb) \in Nat /\ R \subseteq 1..Len(tb)
  BY TableProperties DEF StreamRows
<1>2. PICK i \in R : \A j \in R : j <= i
  BY <1>1, MaxExists
<1>3. LastOf(tb, R) = i
  BY <1>2, LastIsGreatest
<1> QED
  BY <1>2, <1>3

(* last_sequence() is an upper bound, attained unless the stream is empty. *)
LEMMA LastSequence ==
  ASSUME NEW tb, TableOK(tb), Increases(tb), NEW s
  PROVE  /\ last_sequence(tb, s) \in Nat
         /\ \A i \in StreamRows(tb, s) : tb[i].sequence <= last_sequence(tb, s)
         /\ \/ StreamRows(tb, s) = {} /\ last_sequence(tb, s) = 0
            \/ \E i \in StreamRows(tb, s) : tb[i].sequence = last_sequence(tb, s)
<1> DEFINE R == StreamRows(tb, s)
<1>1. CASE R = {}
  BY <1>1 DEF last_sequence
<1>2. CASE R # {}
  <2> DEFINE l == LastOf(tb, R)
  <2>1. l \in R /\ \A j \in R : j <= l
    BY <1>2, LastExists
  <2>2. last_sequence(tb, s) = tb[l].sequence
    BY <1>2 DEF last_sequence
  <2>3. \A j \in R : /\ j \in DOMAIN tb /\ j \in Nat
                     /\ tb[j].stream_id = s /\ tb[j].sequence \in Nat
    BY TableProperties DEF StreamRows
  <2> HIDE DEF R, l
  <2>4. ASSUME NEW j \in R
        PROVE  tb[j].sequence <= tb[l].sequence
    <3>1. CASE j = l
      BY <3>1, <2>3
    <3>2. CASE j # l
      <4>1. j < l
        BY <3>2, <2>1, <2>3
      <4> QED
        BY <4>1, <2>1, <2>3 DEF Increases
    <3> QED
      BY <3>1, <3>2
  <2> QED
    BY <2>1, <2>2, <2>3, <2>4 DEF R
<1> QED
  BY <1>1, <1>2

-----------------------------------------------------------------------------
(* One append: r is the row that append() computes from the table tb.      *)
NextRow(tb, r) ==
  /\ RowOK(r)
  /\ r.sequence = last_sequence(tb, r.stream_id) + 1

LEMMA InsertStreamRows ==
  ASSUME NEW tb, TableOK(tb), NEW r, RowOK(r), NEW s
  PROVE  StreamRows(Append(tb, r), s) =
           IF r.stream_id = s THEN StreamRows(tb, s) \cup {Len(tb) + 1}
           ELSE StreamRows(tb, s)
BY InsertedTable DEF StreamRows

(* The new row gets the greatest sequence of its stream.                   *)
LEMMA InsertIncreases ==
  ASSUME NEW tb, TableOK(tb), Increases(tb), NEW r, NextRow(tb, r)
  PROVE  Increases(Append(tb, r))
<1> DEFINE tb2 == Append(tb, r)
           n   == Len(tb) + 1
<1>1. /\ DOMAIN tb2 = DOMAIN tb \cup {n}
      /\ \A i \in DOMAIN tb : tb2[i] = tb[i] /\ i < n
      /\ tb2[n] = r
      /\ \A i \in DOMAIN tb : ~(n < i)
      /\ n \in Nat
  BY InsertedTable, TableProperties DEF NextRow
<1>2. \A i \in StreamRows(tb, r.stream_id) : tb[i].sequence < r.sequence
  <2>1. \A i \in DOMAIN tb : tb[i].sequence \in Nat
    BY TableProperties
  <2> QED
    BY <2>1, LastSequence DEF NextRow, StreamRows
<1> HIDE DEF tb2, n
<1>3. ASSUME NEW i \in DOMAIN tb2, NEW j \in DOMAIN tb2,
             tb2[i].stream_id = tb2[j].stream_id, i < j
      PROVE  tb2[i].sequence < tb2[j].sequence
  <2>1. CASE j = n
    <3>1. i \in DOMAIN tb
      BY <1>1, <1>3, <2>1
    <3> QED
      BY <1>1, <1>2, <1>3, <2>1, <3>1 DEF StreamRows
  <2>2. CASE j # n
    <3>1. i \in DOMAIN tb /\ j \in DOMAIN tb
      BY <1>1, <1>3, <2>2
    <3> QED
      BY <1>1, <1>3, <3>1 DEF Increases
  <2> QED
    BY <2>1, <2>2
<1> QED
  BY <1>3 DEF Increases, tb2

LEMMA InsertGapFree ==
  ASSUME NEW tb, TableOK(tb), Increases(tb), GapFree(tb), NEW r, NextRow(tb, r)
  PROVE  GapFree(Append(tb, r))
<1> DEFINE tb2 == Append(tb, r)
           n   == Len(tb) + 1
           s   == r.stream_id
<1>1. /\ DOMAIN tb2 = DOMAIN tb \cup {n}
      /\ \A i \in DOMAIN tb : tb2[i] = tb[i]
      /\ tb2[n] = r
  BY InsertedTable DEF NextRow
<1>2. /\ last_sequence(tb, s) \in Nat /\ r.sequence = last_sequence(tb, s) + 1
      /\ \/ last_sequence(tb, s) = 0
         \/ \E i \in StreamRows(tb, s) : tb[i].sequence = last_sequence(tb, s)
  BY LastSequence DEF NextRow
<1> HIDE DEF tb2, n
<1>3. ASSUME NEW k \in 1..r.sequence
      PROVE  \E j \in DOMAIN tb2 : tb2[j].stream_id = s /\ tb2[j].sequence = k
  <2>1. CASE k = r.sequence
    BY <1>1, <2>1
  <2>2. CASE k # r.sequence
    <3>1. k \in 1..last_sequence(tb, s)
      BY <1>2, <2>2
    <3>2. PICK i \in StreamRows(tb, s) : tb[i].sequence = last_sequence(tb, s)
      BY <1>2, <3>1
    <3>3. PICK j \in DOMAIN tb : tb[j].stream_id = tb[i].stream_id /\ tb[j].sequence = k
      BY <3>1, <3>2 DEF GapFree, StreamRows
    <3> QED
      BY <1>1, <3>2, <3>3 DEF StreamRows
  <2> QED
    BY <2>1, <2>2
<1>4. ASSUME NEW i \in DOMAIN tb, NEW k \in 1..tb[i].sequence
      PROVE  \E j \in DOMAIN tb2 : tb2[j].stream_id = tb[i].stream_id /\ tb2[j].sequence = k
  BY <1>1 DEF GapFree
<1>5. GapFree(tb2)
  BY <1>1, <1>3, <1>4 DEF GapFree
<1> QED
  BY <1>5 DEF tb2

(* The last hash of rows that were already there does not change.          *)
LEMMA InsertKeepsHash ==
  ASSUME NEW tb, TableOK(tb), Increases(tb), NEW r, NextRow(tb, r),
         NEW s, NEW R, R \subseteq StreamRows(tb, s)
  PROVE  HashOfLast(Append(tb, r), R) = HashOfLast(tb, R)
<1> DEFINE tb2 == Append(tb, r)
           i   == LastOf(tb, R)
<1>1. CASE R = {}
  BY <1>1 DEF HashOfLast
<1>2. CASE R # {}
  <2>1. i \in R /\ \A j \in R : j <= i
    BY <1>2, LastExists
  <2>2. TableOK(tb2) /\ Increases(tb2)
    BY InsertedTable, InsertIncreases DEF NextRow
  <2>3. R \subseteq StreamRows(tb2, s)
    BY InsertStreamRows DEF NextRow
  <2>4. tb2[i] = tb[i]
    BY <2>1, InsertedTable DEF NextRow, StreamRows
  <2> HIDE DEF tb2, i
  <2>5. LastOf(tb2, R) = i
    BY <2>1, <2>2, <2>3, LastIsGreatest
  <2> QED
    BY <1>2, <2>4, <2>5 DEF HashOfLast, tb2, i
<1> QED
  BY <1>1, <1>2

ChainOK(tb) == \A s \in Streams : verify_chain(tb, s)

(* Appending a row that links to the last one keeps every chain verifiable. *)
LEMMA InsertChain ==
  ASSUME NEW tb, TableOK(tb), Increases(tb), ChainOK(tb), NEW r, NextRow(tb, r),
         r.prev_hash = HashOfLast(tb, StreamRows(tb, r.stream_id))
  PROVE  ChainOK(Append(tb, r))
<1> DEFINE tb2 == Append(tb, r)
           n   == Len(tb) + 1
<1>1. /\ DOMAIN tb2 = DOMAIN tb \cup {n}
      /\ n \notin DOMAIN tb
      /\ \A i \in DOMAIN tb : tb2[i] = tb[i] /\ i < n
      /\ tb2[n] = r
      /\ n \in Nat
  BY InsertedTable, TableProperties DEF NextRow
<1>2. TableOK(tb2) /\ Increases(tb2)
  BY InsertedTable, InsertIncreases DEF NextRow
<1>3. ASSUME NEW R, NEW s, R \subseteq StreamRows(tb, s)
      PROVE  HashOfLast(tb2, R) = HashOfLast(tb, R)
  BY <1>3, InsertKeepsHash
<1>4. \A s : StreamRows(tb2, s) = IF r.stream_id = s THEN StreamRows(tb, s) \cup {n}
                                  ELSE StreamRows(tb, s)
  BY InsertStreamRows DEF NextRow
<1>5. ASSUME NEW i \in DOMAIN tb2
      PROVE  /\ tb2[i].hash = compute_hash(tb2[i].event_id, tb2[i].data, tb2[i].prev_hash)
             /\ tb2[i].stream_id \in Streams /\ tb2[i].sequence \in Nat
  BY <1>2, TableProperties
<1> HIDE DEF tb2, n
<1>6. ASSUME NEW i \in DOMAIN tb
      PROVE  Earlier(tb2, i) = Earlier(tb, i)
  <2>1. \A j \in StreamRows(tb, tb[i].stream_id) : Before(tb2, j, i) <=> Before(tb, j, i)
    BY <1>1 DEF Before, StreamRows
  <2>2. r.stream_id = tb[i].stream_id => ~Before(tb2, n, i)
    <3>1. ASSUME r.stream_id = tb[i].stream_id
          PROVE  tb2[i].sequence < tb2[n].sequence
      BY <1>1, <1>2, <3>1 DEF Increases
    <3>2. tb2[i].sequence \in Nat /\ tb2[n].sequence \in Nat
      BY <1>1, <1>5
    <3> QED
      BY <3>1, <3>2 DEF Before
  <2> QED
    BY <1>1, <1>4, <2>1, <2>2 DEF Earlier
<1>7. Earlier(tb2, n) = StreamRows(tb, r.stream_id)
  <2>1. ASSUME NEW j \in StreamRows(tb, r.stream_id)
        PROVE  Before(tb2, j, n)
    <3>1. j \in DOMAIN tb /\ tb[j].stream_id = r.stream_id
      BY DEF StreamRows
    <3> QED
      BY <1>1, <1>2, <3>1 DEF Before, Increases
  <2>2. ~Before(tb2, n, n)
    BY <1>1, <1>5 DEF Before
  <2> QED
    BY <1>1, <1>4, <2>1, <2>2 DEF Earlier
<1>8. ASSUME NEW i \in DOMAIN tb2
      PROVE  LinkHolds(tb2, i)
  <2>1. CASE i \in DOMAIN tb
    <3>1. LinkHolds(tb, i)
      <4>1. tb[i].stream_id \in Streams /\ i \in StreamRows(tb, tb[i].stream_id)
        BY <2>1, TableProperties DEF StreamRows
      <4> QED
        BY <4>1 DEF ChainOK, verify_chain
    <3>2. HashOfLast(tb2, Earlier(tb, i)) = HashOfLast(tb, Earlier(tb, i))
      <4>1. Earlier(tb, i) \subseteq StreamRows(tb, tb[i].stream_id)
        BY DEF Earlier
      <4> QED
        BY <4>1, <1>3
    <3> QED
      BY <1>1, <1>5, <1>6, <2>1, <3>1, <3>2 DEF LinkHolds
  <2>2. CASE i = n
    <3>1. HashOfLast(tb2, StreamRows(tb, r.stream_id)) = r.prev_hash
      BY <1>3
    <3> QED
      BY <1>1, <1>5, <1>7, <2>2, <3>1 DEF LinkHolds
  <2> QED
    BY <1>1, <2>1, <2>2
<1>9. ChainOK(tb2)
  BY <1>8 DEF ChainOK, verify_chain, StreamRows
<1> QED
  BY <1>9 DEF tb2

-----------------------------------------------------------------------------
(* The inductive invariant.  The three properties of the table hold of     *)
(* Append(rows, row) only because the row was computed from this very      *)
(* table, which is what ReadsAreFresh says.                                *)
StoreInv ==
  StoreTypeOK /\ SequenceIncreases /\ NoGaps /\ ChainVerifies /\ ReadsAreFresh

LEMMA StoreInit == InitStore => StoreInv
<1> SUFFICES ASSUME InitStore
             PROVE  StoreInv
  OBVIOUS
<1>1. StoreTypeOK
  <2>1. TableOK(rows)
    BY DEF InitStore, TableOK
  <2>2. arg \in [Tasks -> Events]
    <3>1. (CHOOSE e \in Events : TRUE) \in Events
      BY StoreAssumption, StreamOfType
    <3> QED
      BY <3>1 DEF InitStore
  <2> QED
    BY <2>1, <2>2 DEF InitStore, StoreTypeOK
<1>2. SequenceIncreases /\ NoGaps /\ ChainVerifies
  BY DEF InitStore, SequenceIncreases, Increases, NoGaps, GapFree, ChainVerifies,
         verify_chain, StreamRows
<1>3. ReadsAreFresh
  BY DEF InitStore, ReadsAreFresh
<1> QED
  BY <1>1, <1>2, <1>3 DEF StoreInv

(* A task between two statements is the only one that is.                  *)
LEMMA OneWriter ==
  ASSUME SingleProcess, ReadsAreFresh, NEW t \in Tasks, NEW u \in Tasks,
         pc[t] \in {"numbered", "linked"}, pc[u] \in {"numbered", "linked"}
  PROVE  t = u
BY DEF SingleProcess, ReadsAreFresh

LEMMA StoreNext ==
  ASSUME SingleProcess, StoreInv, [NextStore]_storeVars
  PROVE  StoreInv'
<1> USE DEF StoreInv
<1> DEFINE TableInv == SequenceIncreases /\ NoGaps /\ ChainVerifies
<1>1. ASSUME UNCHANGED rows
      PROVE  TableInv' /\ TableOK(rows)'
  BY <1>1 DEF SequenceIncreases, NoGaps, ChainVerifies, StoreTypeOK
<1>2. ASSUME NEW t \in Tasks, NEW e \in Events, Call(t, e)
      PROVE  StoreInv'
  <2>1. StoreTypeOK'
    BY <1>1, <1>2 DEF Call, Called, StoreTypeOK
  <2>2. ReadsAreFresh'
    BY <1>2 DEF Call, Called, StoreTypeOK, ReadsAreFresh
  <2> QED
    BY <1>1, <1>2, <2>1, <2>2 DEF Call, Called
<1>3. ASSUME NEW t \in Tasks, SelectNextSeq(t)
      PROVE  StoreInv'
  <2>1. last_sequence(rows, StreamOf[arg[t]]) \in Nat
    BY LastSequence DEF StoreTypeOK, SequenceIncreases
  <2>2. StoreTypeOK'
    <3> DEFINE q == last_sequence(rows, StreamOf[arg[t]]) + 1
    <3>1. q \in Nat /\ Numbered(t, q)
      BY <1>3, <2>1 DEF SelectNextSeq
    <3> HIDE DEF q
    <3>2. TableOK(rows)'
      BY <1>1, <3>1 DEF Numbered
    <3> QED
      BY <3>1, <3>2, StoreAssumption, StreamOfType DEF Numbered, StoreTypeOK
  <2>3. ReadsAreFresh'
    <3> SUFFICES ASSUME NEW u \in Tasks, pc'[u] \in {"numbered", "linked"}
                 PROVE  /\ mutex'[ProcessOf[u]] = u
                        /\ nextSeq'[u] = last_sequence(rows, StreamOf[arg[u]]) + 1
                        /\ pc'[u] = "linked" =>
                             prevHash'[u] = HashOfLast(rows, StreamRows(rows, StreamOf[arg[u]]))
      BY <1>3 DEF ReadsAreFresh, SelectNextSeq, Numbered
    <3>1. CASE u = t
      BY <1>3, <3>1, StoreAssumption, StreamOfType DEF SelectNextSeq, Numbered, StoreTypeOK
    <3>2. CASE u # t
      BY <1>3, <3>2, StoreAssumption, StreamOfType DEF SelectNextSeq, Numbered, StoreTypeOK, ReadsAreFresh, SingleProcess
    <3> QED
      BY <3>1, <3>2
  <2> QED
    BY <1>1, <1>3, <2>2, <2>3 DEF SelectNextSeq, Numbered
<1>4. ASSUME NEW t \in Tasks, SelectPrevHash(t)
      PROVE  StoreInv'
  <2>1. StoreTypeOK'
    BY <1>1, <1>4 DEF SelectPrevHash, Linked, StoreTypeOK
  <2>2. ReadsAreFresh'
    BY <1>4 DEF SelectPrevHash, Linked, StoreTypeOK, ReadsAreFresh
  <2> QED
    BY <1>1, <1>4, <2>1, <2>2 DEF SelectPrevHash, Linked
<1>5. ASSUME NEW t \in Tasks, Insert(t)
      PROVE  StoreInv'
  <2> DEFINE r == Row(arg[t], nextSeq[t], prevHash[t])
  <2>1. pc[t] = "linked" /\ rows' = Append(rows, r)
    BY <1>5 DEF Insert
  <2>2. /\ nextSeq[t] = last_sequence(rows, StreamOf[arg[t]]) + 1
        /\ prevHash[t] = HashOfLast(rows, StreamRows(rows, StreamOf[arg[t]]))
    BY <2>1 DEF ReadsAreFresh
  <2>3. /\ r.event_id = arg[t] /\ r.stream_id = StreamOf[arg[t]]
        /\ r.sequence = nextSeq[t] /\ r.prev_hash = prevHash[t]
    BY DEF Row
  <2>4. last_sequence(rows, StreamOf[arg[t]]) \in Nat /\ arg[t] \in Events
    BY LastSequence DEF StoreTypeOK, SequenceIncreases
  <2>5. NextRow(rows, r)
    <3>1. r.sequence \in Nat \ {0}
      BY <2>2, <2>3, <2>4
    <3>2. RowOK(r)
      BY <2>3, <2>4, <3>1 DEF RowOK
    <3> QED
      BY <2>2, <2>3, <3>2 DEF NextRow
  <2> HIDE DEF r
  <2>6. TableInv' /\ TableOK(rows)'
    <3>1. TableOK(rows) /\ Increases(rows) /\ GapFree(rows) /\ ChainOK(rows)
      BY DEF StoreTypeOK, SequenceIncreases, NoGaps, ChainVerifies, ChainOK
    <3>2. TableOK(Append(rows, r))
      BY <2>5, <3>1, InsertedTable DEF NextRow
    <3>3. Increases(Append(rows, r)) /\ GapFree(Append(rows, r))
      BY <2>5, <3>1, InsertIncreases, InsertGapFree
    <3>4. ChainOK(Append(rows, r))
      BY <2>2, <2>3, <2>5, <3>1, InsertChain
    <3> QED
      BY <2>1, <3>2, <3>3, <3>4 DEF SequenceIncreases, NoGaps, ChainVerifies, ChainOK
  <2>7. StoreTypeOK'
    BY <1>5, <2>6 DEF Insert, Unlock, StoreTypeOK
  <2>8. ReadsAreFresh'
    <3>1. \A u \in Tasks : pc'[u] \notin {"numbered", "linked"}
      BY <1>5, <2>1, OneWriter DEF Insert, StoreTypeOK
    <3> QED
      BY <3>1 DEF ReadsAreFresh
  <2> QED
    BY <2>6, <2>7, <2>8
<1>6. ASSUME NEW t \in Tasks, Fail(t)
      PROVE  StoreInv'
  <2>1. StoreTypeOK'
    BY <1>1, <1>6 DEF Fail, Unlock, StoreTypeOK
  <2>2. ReadsAreFresh'
    <3>1. \A u \in Tasks : pc'[u] \notin {"numbered", "linked"}
      BY <1>6, OneWriter DEF Fail, StoreTypeOK
    <3> QED
      BY <3>1 DEF ReadsAreFresh
  <2> QED
    BY <1>1, <1>6, <2>1, <2>2 DEF Fail
<1>7. ASSUME NEW p \in Processes, Crash(p)
      PROVE  StoreInv'
  <2>1. StoreTypeOK'
    BY <1>1, <1>7 DEF Crash, StoreTypeOK
  <2>2. ReadsAreFresh'
    BY <1>7, StoreAssumption, StreamOfType DEF Crash, StoreTypeOK, ReadsAreFresh
  <2> QED
    BY <1>1, <1>7, <2>1, <2>2 DEF Crash
<1>8. ASSUME UNCHANGED storeVars
      PROVE  StoreInv'
  BY <1>1, <1>8 DEF storeVars, StoreTypeOK, ReadsAreFresh
<1> QED
  BY <1>2, <1>3, <1>4, <1>5, <1>6, <1>7, <1>8 DEF NextStore

(* One process owns the database: its tasks share the mutex.  Then, of any *)
(* number of tasks, events and streams, whatever append() calls overlap,   *)
(* fail or are cut by a crash: the table is well formed, ...               *)
THEOREM StoreInvariant == SingleProcess => (StoreSpec => []StoreInv)
<1>1. SingleProcess /\ StoreInv /\ [NextStore]_storeVars => StoreInv'
  BY StoreNext
<1>2. SingleProcess => (StoreInv /\ [][NextStore]_storeVars => []StoreInv)
  <2> SUFFICES ASSUME SingleProcess
               PROVE  StoreInv /\ [][NextStore]_storeVars => []StoreInv
    OBVIOUS
  <2>1. StoreInv /\ [NextStore]_storeVars => StoreInv'
    BY <1>1
  <2> QED
    BY <2>1, PTL
<1> QED
  BY <1>2, StoreInit, PTL DEF StoreSpec

(* ... (src/events/store.rs:75-86, the columns) ...                        *)
THEOREM StoreTypeCorrect == SingleProcess => (StoreSpec => []StoreTypeOK)
<1>1. StoreInv => StoreTypeOK
  BY DEF StoreInv
<1> QED
  BY <1>1, StoreInvariant, PTL

(* ... the sequence numbers of a stream increase (src/events/mod.rs:21),   *)
(* and none is skipped by an append that failed, ...                       *)
THEOREM StoreSequences == SingleProcess => (StoreSpec => [](SequenceIncreases /\ NoGaps))
<1>1. StoreInv => SequenceIncreases /\ NoGaps
  BY DEF StoreInv
<1> QED
  BY <1>1, StoreInvariant, PTL

(* ... and verify_chain() accepts every stream.                            *)
THEOREM StoreChains == SingleProcess => (StoreSpec => []ChainVerifies)
<1>1. StoreInv => ChainVerifies
  BY DEF StoreInv
<1> QED
  BY <1>1, StoreInvariant, PTL

-----------------------------------------------------------------------------
(* Refinement: the rows of a table as the abstract log.                    *)

LEMMA RowAtUnique ==
  ASSUME NEW tb, TableOK(tb), Increases(tb), NEW s, NEW i \in StreamRows(tb, s)
  PROVE  RowAt(tb, s, tb[i].sequence) = i
<1>1. \A j \in StreamRows(tb, s) :
        j \in DOMAIN tb /\ j \in Nat /\ tb[j].stream_id = s /\ tb[j].sequence \in Nat
  BY TableProperties DEF StreamRows
<1>2. ASSUME NEW j \in StreamRows(tb, s), tb[j].sequence = tb[i].sequence
      PROVE  j = i
  <2>1. ~(i < j) /\ ~(j < i)
    BY <1>1, <1>2 DEF Increases
  <2> QED
    BY <1>1, <2>1
<1> QED
  BY <1>2 DEF RowAt

LEMMA InsertLastSequence ==
  ASSUME NEW tb, TableOK(tb), Increases(tb), NEW r, NextRow(tb, r), NEW s
  PROVE  last_sequence(Append(tb, r), s) =
           IF r.stream_id = s THEN last_sequence(tb, s) + 1 ELSE last_sequence(tb, s)
<1> DEFINE tb2 == Append(tb, r)
           n   == Len(tb) + 1
<1>1. /\ \A i \in DOMAIN tb : tb2[i] = tb[i] /\ i <= n
      /\ tb2[n] = r /\ n \in Nat
      /\ TableOK(tb2) /\ Increases(tb2)
  BY InsertedTable, InsertIncreases, TableProperties DEF NextRow
<1>2. StreamRows(tb2, s) = IF r.stream_id = s THEN StreamRows(tb, s) \cup {n}
                           ELSE StreamRows(tb, s)
  BY InsertStreamRows DEF NextRow
<1> HIDE DEF tb2, n
<1>3. CASE r.stream_id = s
  <2>1. n \in StreamRows(tb2, s) /\ \A j \in StreamRows(tb2, s) : j <= n
    BY <1>1, <1>2, <1>3 DEF StreamRows
  <2>2. LastOf(tb2, StreamRows(tb2, s)) = n
    BY <1>1, <2>1, LastIsGreatest
  <2>3. last_sequence(tb2, s) = r.sequence
    BY <1>1, <2>1, <2>2 DEF last_sequence
  <2> QED
    BY <1>3, <2>3 DEF NextRow, tb2
<1>4. CASE r.stream_id # s /\ StreamRows(tb, s) = {}
  BY <1>2, <1>4 DEF last_sequence, tb2
<1>5. CASE r.stream_id # s /\ StreamRows(tb, s) # {}
  <2> DEFINE i == LastOf(tb, StreamRows(tb, s))
  <2>1. i \in StreamRows(tb, s) /\ \A j \in StreamRows(tb, s) : j <= i
    BY <1>5, LastExists
  <2> HIDE DEF i
  <2>2. LastOf(tb2, StreamRows(tb2, s)) = i
    BY <1>1, <1>2, <1>5, <2>1, LastIsGreatest
  <2>3. tb2[i] = tb[i]
    BY <1>1, <2>1 DEF StreamRows
  <2> QED
    BY <1>2, <1>5, <2>2, <2>3 DEF last_sequence, tb2, i
<1> QED
  BY <1>3, <1>4, <1>5

(* Every position of a stream's log is the event of one row.               *)
LEMMA PositionHasRow ==
  ASSUME NEW tb, TableOK(tb), Increases(tb), GapFree(tb), NEW s,
         NEW k \in 1..last_sequence(tb, s)
  PROVE  \E i \in StreamRows(tb, s) : tb[i].sequence = k /\ RowAt(tb, s, k) = i
<1>1. PICK l \in StreamRows(tb, s) : tb[l].sequence = last_sequence(tb, s)
  BY LastSequence
<1>2. PICK i \in DOMAIN tb : tb[i].stream_id = tb[l].stream_id /\ tb[i].sequence = k
  BY <1>1 DEF GapFree, StreamRows
<1>3. i \in StreamRows(tb, s)
  BY <1>1, <1>2 DEF StreamRows
<1> QED
  BY <1>2, <1>3, RowAtUnique

LEMMA LogOfType ==
  ASSUME NEW tb, TableOK(tb), Increases(tb), GapFree(tb), NEW s \in Streams
  PROVE  /\ LogOf(tb)[s] \in Seq(Events)
         /\ Len(LogOf(tb)[s]) = last_sequence(tb, s)
         /\ \A k \in 1..last_sequence(tb, s) :
              \E i \in StreamRows(tb, s) : tb[i].sequence = k /\ LogOf(tb)[s][k] = tb[i].event_id
<1> DEFINE m == last_sequence(tb, s)
           f == [k \in 1..m |-> tb[RowAt(tb, s, k)].event_id]
<1>1. m \in Nat
  BY LastSequence
<1>2. LogOf(tb)[s] = f
  BY DEF LogOf
<1>3. ASSUME NEW k \in 1..m
      PROVE  /\ f[k] \in Events
             /\ \E i \in StreamRows(tb, s) : tb[i].sequence = k /\ f[k] = tb[i].event_id
  <2>1. PICK i \in StreamRows(tb, s) : tb[i].sequence = k /\ RowAt(tb, s, k) = i
    BY PositionHasRow
  <2>2. tb[i].event_id \in Events
    BY TableProperties DEF StreamRows
  <2> QED
    BY <2>1, <2>2
<1>4. f \in [1..m -> Events]
  BY <1>3
<1> HIDE DEF f, m
<1>5. f \in Seq(Events) /\ Len(f) = m
  BY <1>1, <1>4
<1> QED
  BY <1>2, <1>3, <1>5 DEF m

(* An INSERT is one append to the abstract log.                            *)
LEMMA InsertLog ==
  ASSUME NEW tb, TableOK(tb), Increases(tb), GapFree(tb), NEW r, NextRow(tb, r)
  PROVE  LogOf(Append(tb, r)) =
           [LogOf(tb) EXCEPT ![r.stream_id] = Append(@, r.event_id)]
<1> DEFINE tb2 == Append(tb, r)
           n   == Len(tb) + 1
           s0  == r.stream_id
<1>1. /\ \A i \in DOMAIN tb : tb2[i] = tb[i]
      /\ tb2[n] = r
      /\ TableOK(tb2) /\ Increases(tb2) /\ GapFree(tb2)
  BY InsertedTable, InsertIncreases, InsertGapFree DEF NextRow
<1>2. \A s : StreamRows(tb2, s) = IF s0 = s THEN StreamRows(tb, s) \cup {n}
                                  ELSE StreamRows(tb, s)
  BY InsertStreamRows DEF NextRow
<1>3. \A s : last_sequence(tb2, s) = IF s0 = s THEN last_sequence(tb, s) + 1
                                     ELSE last_sequence(tb, s)
  BY InsertLastSequence
<1>4. s0 \in Streams /\ r.sequence = last_sequence(tb, s0) + 1 /\ r.event_id \in Events
  <2>1. s0 \in Streams
    <3>1. n \in DOMAIN tb2
      BY InsertedTable DEF NextRow
    <3> HIDE DEF tb2, n
    <3> QED
      BY <1>1, <3>1, TableProperties
  <2> QED
    BY <2>1 DEF NextRow, RowOK
<1>5. \A s \in Streams : last_sequence(tb, s) \in Nat
  BY LastSequence
<1> HIDE DEF tb2, n, s0
<1>6. ASSUME NEW s \in Streams, NEW k \in 1..last_sequence(tb, s)
      PROVE  LogOf(tb2)[s][k] = LogOf(tb)[s][k]
  <2>1. PICK i \in StreamRows(tb, s) : tb[i].sequence = k /\ RowAt(tb, s, k) = i
    BY PositionHasRow
  <2>2. i \in StreamRows(tb2, s) /\ tb2[i] = tb[i]
    BY <1>1, <1>2, <2>1 DEF StreamRows
  <2>3. RowAt(tb2, s, k) = i
    BY <1>1, <2>1, <2>2, RowAtUnique
  <2>4. k \in 1..last_sequence(tb2, s)
    BY <1>3, <1>5
  <2> QED
    BY <2>1, <2>2, <2>3, <2>4 DEF LogOf
<1>7. LogOf(tb2)[s0][r.sequence] = r.event_id
  <2>1. n \in StreamRows(tb2, s0) /\ tb2[n] = r
    BY <1>1, <1>2
  <2>2. RowAt(tb2, s0, r.sequence) = n
    BY <1>1, <2>1, RowAtUnique
  <2>3. r.sequence \in 1..last_sequence(tb2, s0)
    BY <1>3, <1>4, <1>5
  <2> QED
    BY <1>4, <2>1, <2>2, <2>3 DEF LogOf
<1>8. ASSUME NEW s \in Streams
      PROVE  LogOf(tb2)[s] = IF s = s0 THEN Append(LogOf(tb)[s], r.event_id) ELSE LogOf(tb)[s]
  <2> DEFINE f == LogOf(tb)[s]
             g == LogOf(tb2)[s]
             m == last_sequence(tb, s)
  <2>1. f \in Seq(Events) /\ Len(f) = m
    BY LogOfType
  <2>2. g \in Seq(Events) /\ Len(g) = last_sequence(tb2, s)
    BY <1>1, LogOfType
  <2>3. m \in Nat /\ \A k \in 1..m : g[k] = f[k]
    BY <1>5, <1>6
  <2>4. CASE s = s0
    <3>1. Len(g) = m + 1 /\ g[m + 1] = r.event_id
      BY <1>3, <1>4, <1>7, <2>2, <2>4
    <3> HIDE DEF f, g, m
    <3> QED
      BY <1>4, <2>1, <2>2, <2>3, <2>4, <3>1 DEF f, g
  <2>5. CASE s # s0
    <3>1. Len(g) = m
      BY <1>3, <2>2, <2>5
    <3> HIDE DEF f, g, m
    <3>2. f = g
      BY <2>1, <2>2, <2>3, <3>1
    <3> QED
      BY <2>5, <3>2 DEF f, g
  <2> QED
    BY <2>4, <2>5
<1>9. /\ LogOf(tb2) = [s \in Streams |-> LogOf(tb2)[s]]
      /\ LogOf(tb) = [s \in Streams |-> LogOf(tb)[s]]
  BY DEF LogOf
<1>10. LogOf(tb2) = [LogOf(tb) EXCEPT ![s0] = Append(@, r.event_id)]
  BY <1>4, <1>8, <1>9
<1> QED
  BY <1>10 DEF tb2, s0

(* A uuid is drawn once: no two appends, finished or not, share an event.  *)
FreshEvents ==
  /\ \A i \in DOMAIN rows : rows[i].event_id \notin unused
  /\ \A t \in Tasks : pc[t] # "idle" =>
       /\ arg[t] \notin unused
       /\ \A i \in DOMAIN rows : rows[i].event_id # arg[t]
       /\ \A u \in Tasks : pc[u] # "idle" /\ arg[u] = arg[t] => u = t

LEMMA FreshNext ==
  ASSUME StoreTypeOK, FreshEvents, [NextStore]_storeVars
  PROVE  FreshEvents'
<1>1. ASSUME NEW t \in Tasks, NEW e \in Events, Call(t, e)
      PROVE  FreshEvents'
  BY <1>1 DEF Call, Called, StoreTypeOK, FreshEvents
<1>2. ASSUME NEW t \in Tasks, SelectNextSeq(t) \/ SelectPrevHash(t) \/ Fail(t)
      PROVE  FreshEvents'
  <2>1. /\ UNCHANGED <<rows, arg, unused>>
        /\ \A u \in Tasks : pc'[u] # "idle" => pc[u] # "idle"
    BY <1>2 DEF SelectNextSeq, Numbered, SelectPrevHash, Linked, Fail, StoreTypeOK
  <2> QED
    BY <2>1 DEF FreshEvents
<1>3. ASSUME NEW t \in Tasks, Insert(t)
      PROVE  FreshEvents'
  <2> DEFINE r == Row(arg[t], nextSeq[t], prevHash[t])
  <2>1. /\ rows' = Append(rows, r) /\ pc[t] = "linked"
        /\ UNCHANGED <<arg, unused>>
        /\ \A u \in Tasks : pc'[u] # "idle" => u # t /\ pc[u] # "idle"
    BY <1>3 DEF Insert, StoreTypeOK
  <2>2. r.event_id = arg[t]
    BY DEF Row
  <2>3. /\ DOMAIN rows' = DOMAIN rows \cup {Len(rows) + 1}
        /\ \A i \in DOMAIN rows : rows'[i] = rows[i]
        /\ rows'[Len(rows) + 1] = r
    <3> DEFINE S == {rows[i] : i \in DOMAIN rows}
    <3>1. rows \in Seq(S)
      BY DEF StoreTypeOK, TableOK
    <3> HIDE DEF S, r
    <3>2. rows \in Seq(S \cup {r})
      BY <3>1
    <3> QED
      BY <2>1, <3>2
  <2> HIDE DEF r
  <2>4. \A i \in DOMAIN rows' : rows'[i].event_id \notin unused
    BY <2>1, <2>2, <2>3 DEF FreshEvents
  <2>5. ASSUME NEW u \in Tasks, pc'[u] # "idle", NEW i \in DOMAIN rows'
        PROVE  rows'[i].event_id # arg[u]
    BY <2>1, <2>2, <2>3, <2>5 DEF FreshEvents
  <2> QED
    BY <2>1, <2>4, <2>5 DEF FreshEvents
<1>4. ASSUME NEW p \in Processes, Crash(p)
      PROVE  FreshEvents'
  <2>1. /\ UNCHANGED <<rows, arg, unused>>
        /\ \A u \in Tasks : pc'[u] # "idle" => pc[u] # "idle"
    BY <1>4 DEF Crash, StoreTypeOK
  <2> QED
    BY <2>1 DEF FreshEvents
<1>5. ASSUME UNCHANGED storeVars
      PROVE  FreshEvents'
  BY <1>5 DEF storeVars, FreshEvents
<1> QED
  BY <1>1, <1>2, <1>3, <1>4, <1>5 DEF NextStore

(* The three statements of append() implement one step of EventLog.        *)
LEMMA StepImplementsLog ==
  ASSUME SingleProcess, StoreInv, FreshEvents, [NextStore]_storeVars
  PROVE  [Log!LogNext]_StreamLog
<1> USE DEF StoreInv
<1>1. ASSUME UNCHANGED rows
      PROVE  UNCHANGED StreamLog
  BY <1>1 DEF StreamLog
<1>2. ASSUME NEW t \in Tasks, Insert(t)
      PROVE  Log!LogNext
  <2> DEFINE r == Row(arg[t], nextSeq[t], prevHash[t])
             e == arg[t]
  <2>1. pc[t] = "linked" /\ rows' = Append(rows, r)
    BY <1>2 DEF Insert
  <2>2. nextSeq[t] = last_sequence(rows, StreamOf[e]) + 1
    BY <2>1 DEF ReadsAreFresh
  <2>3. /\ r.event_id = e /\ r.stream_id = StreamOf[e]
        /\ r.sequence = nextSeq[t] /\ r.prev_hash = prevHash[t]
    BY DEF Row
  <2>4. last_sequence(rows, StreamOf[e]) \in Nat /\ e \in Events
    BY LastSequence DEF StoreTypeOK, SequenceIncreases
  <2>5. NextRow(rows, r)
    <3>1. r.sequence \in Nat \ {0}
      BY <2>2, <2>3, <2>4
    <3>2. RowOK(r)
      BY <2>3, <2>4, <3>1 DEF RowOK
    <3> QED
      BY <2>2, <2>3, <3>2 DEF NextRow
  <2> HIDE DEF r
  <2>6. TableOK(rows) /\ Increases(rows) /\ GapFree(rows)
    BY DEF StoreTypeOK, SequenceIncreases, NoGaps
  <2>7. StreamLog' = [StreamLog EXCEPT ![StreamOf[e]] = Append(@, e)]
    BY <2>1, <2>3, <2>5, <2>6, InsertLog DEF StreamLog
  <2>8. e \notin Log!Stored
    <3> SUFFICES ASSUME NEW s \in Streams, NEW k \in DOMAIN StreamLog[s], StreamLog[s][k] = e
                 PROVE  FALSE
      BY DEF Log!Stored
    <3>1. k \in 1..last_sequence(rows, s)
      BY DEF StreamLog, LogOf
    <3>2. PICK i \in StreamRows(rows, s) : StreamLog[s][k] = rows[i].event_id
      BY <2>6, <3>1, LogOfType DEF StreamLog
    <3> QED
      BY <2>1, <3>2 DEF FreshEvents, StreamRows
  <2> QED
    BY <2>4, <2>7, <2>8 DEF Log!LogNext, Log!AppendEvent
<1>3. ASSUME NEW t \in Tasks, NEW e \in Events, Call(t, e)
      PROVE  UNCHANGED rows
  BY <1>3 DEF Call, Called
<1>4. ASSUME NEW t \in Tasks, SelectNextSeq(t) \/ SelectPrevHash(t) \/ Fail(t)
      PROVE  UNCHANGED rows
  BY <1>4 DEF SelectNextSeq, Numbered, SelectPrevHash, Linked, Fail
<1>5. ASSUME NEW p \in Processes, Crash(p)
      PROVE  UNCHANGED rows
  BY <1>5 DEF Crash
<1>6. ASSUME UNCHANGED storeVars
      PROVE  UNCHANGED rows
  BY <1>6 DEF storeVars
<1> QED
  BY <1>1, <1>2, <1>3, <1>4, <1>5, <1>6 DEF NextStore

(* With one process, the store is the append-only log of its trait         *)
(* (src/events/store.rs:10-58): to every reader an append happens at once  *)
(* or not at all.                                                          *)
THEOREM StoreImplementsLog == SingleProcess => (StoreSpec => ImplementsLog)
<1>1. InitStore => Log!LogInit /\ FreshEvents
  <2>1. InitStore => \A s \in Streams : last_sequence(rows, s) = 0
    BY DEF InitStore, last_sequence, StreamRows
  <2>2. ASSUME InitStore
        PROVE  StreamLog = [s \in Streams |-> <<>>]
    <3>1. \A s \in Streams : StreamLog[s] = <<>>
      BY <2>1, <2>2 DEF StreamLog, LogOf
    <3> QED
      BY <3>1 DEF StreamLog, LogOf
  <2> QED
    BY <2>2 DEF InitStore, FreshEvents, Log!LogInit
<1>2. StoreInv /\ FreshEvents /\ [NextStore]_storeVars => FreshEvents'
  BY FreshNext DEF StoreInv
<1>3. ASSUME SingleProcess
      PROVE  StoreInv /\ FreshEvents /\ [NextStore]_storeVars => [Log!LogNext]_StreamLog
  BY <1>3, StepImplementsLog
<1>4. ASSUME SingleProcess
      PROVE  StoreSpec => ImplementsLog
  <2>1. StoreSpec => []StoreInv
    BY <1>4, StoreInvariant
  <2>2. StoreInv /\ FreshEvents /\ [NextStore]_storeVars => [Log!LogNext]_StreamLog
    BY <1>3, <1>4
  <2> QED
    BY <1>1, <1>2, <2>1, <2>2, PTL DEF StoreSpec, ImplementsLog, Log!LogSpec
<1> QED
  BY <1>4

-----------------------------------------------------------------------------
(***************************************************************************)
(* The bus.  What publish() guarantees to any number of publishers and     *)
(* receivers, for every capacity of the channels: the safety properties of *)
(* EventBus, from an inductive invariant that follows each fan-out.        *)
(***************************************************************************)

(* What has been appended to a sequence is in it.                          *)
LEMMA AppendRange ==
  ASSUME NEW S, NEW q \in Seq(S), NEW e \in S
  PROVE  /\ Append(q, e) \in Seq(S)
         /\ DOMAIN Append(q, e) = DOMAIN q \cup {Len(q) + 1}
         /\ DOMAIN q = 1..Len(q) /\ Len(q) \in Nat
         /\ \A k \in DOMAIN q : Append(q, e)[k] = q[k]
         /\ Append(q, e)[Len(q) + 1] = e
         /\ {Append(q, e)[k] : k \in DOMAIN Append(q, e)} = {q[k] : k \in DOMAIN q} \cup {e}
<1>1. /\ Append(q, e) \in Seq(S)
      /\ DOMAIN Append(q, e) = DOMAIN q \cup {Len(q) + 1}
      /\ DOMAIN q = 1..Len(q) /\ Len(q) \in Nat
      /\ \A k \in DOMAIN q : Append(q, e)[k] = q[k]
      /\ Append(q, e)[Len(q) + 1] = e
  OBVIOUS
<1>2. {Append(q, e)[k] : k \in DOMAIN Append(q, e)} = {q[k] : k \in DOMAIN q} \cup {e}
  BY <1>1
<1> QED
  BY <1>1, <1>2

(* An append adds its event to what the store holds.                       *)
LEMMA AppendStored ==
  ASSUME LogTypeOK, NEW e \in Events, AppendEvent(e)
  PROVE  LogTypeOK' /\ Stored' = Stored \cup {e}
<1> DEFINE s0 == StreamOf[e]
<1>1. s0 \in Streams
  BY StreamOfType
<1>2. log[s0] \in Seq(Events)
  BY <1>1 DEF LogTypeOK
<1>3. log' = [log EXCEPT ![s0] = Append(log[s0], e)]
  BY DEF AppendEvent
<1>4. LogTypeOK'
  BY <1>1, <1>2, <1>3 DEF LogTypeOK
<1> DEFINE Of(l) == {l[k] : k \in DOMAIN l}
<1>5. Of(log'[s0]) = Of(log[s0]) \cup {e} /\ \A s \in Streams \ {s0} : log'[s] = log[s]
  BY <1>1, <1>2, <1>3, AppendRange DEF LogTypeOK
<1>6. Stored' = UNION { Of(log'[s]) : s \in Streams } /\ Stored = UNION { Of(log[s]) : s \in Streams }
  BY DEF Stored
<1>7. Stored' = Stored \cup {e}
  <2> HIDE DEF Of, s0
  <2>1. ASSUME NEW x \in Stored'
        PROVE  x \in Stored \cup {e}
    BY <1>5, <1>6
  <2>2. ASSUME NEW x \in Stored
        PROVE  x \in Stored'
    <3>1. PICK s \in Streams : x \in Of(log[s])
      BY <1>6
    <3>2. x \in Of(log'[s])
      BY <1>5, <3>1
    <3> QED
      BY <1>6, <3>2
  <2>3. e \in Stored'
    BY <1>1, <1>5, <1>6
  <2> QED
    BY <2>1, <2>2, <2>3
<1> QED
  BY <1>4, <1>7

-----------------------------------------------------------------------------
(* The inductive invariant.                                                *)

(* An event under way is stored, has one publisher and has not returned.   *)
Underway ==
  /\ \A p \in Publishers : pub[p] # "idle" => ev[p] \in Stored \ returned
  /\ \A p, q \in Publishers :
       pub[p] # "idle" /\ pub[q] # "idle" /\ ev[p] = ev[q] => p = q

(* What is remembered of the past.                                         *)
Past ==
  /\ returned \subseteq Stored
  /\ \A e \in Events : before[e] \subseteq returned

(* Who is in the subscriber list.                                          *)
Members ==
  \A s \in Subscribers : /\ IsOpen(s) => s \in subs
                         /\ receiver[s] = "none" => Delivered(s) = {}

(* A fan-out serves the senders it has tried, and no others yet.           *)
FanOutProgress ==
  \A p \in Publishers :
    /\ pub[p] # "sending" => tried[p] = {}
    /\ pub[p] # "idle" => \A s \in Subscribers \ tried[p] : ev[p] \notin Delivered(s)
    /\ pub[p] = "sending" =>
         \A s \in tried[p] : IsOpen(s) => ev[p] \in Delivered(s) \cup missed[s]

BusInv ==
  /\ BusTypeOK /\ StoreFirst /\ Underway /\ Past /\ Members /\ FanOutProgress
  /\ AtMostOnce /\ NoSilentLoss /\ RealTimeOrder

LEMMA BusInit == InitBus => BusInv
<1> SUFFICES ASSUME InitBus
             PROVE  BusInv
  OBVIOUS
<1>1. (CHOOSE e \in Events : TRUE) \in Events
  BY BusAssumption
<1>2. BusTypeOK
  BY <1>1, BusAssumption DEF InitBus, BusTypeOK, LogInit, LogTypeOK
<1>3. \A s \in Subscribers : got[s] = <<>> /\ Delivered(s) = {} /\ missed[s] = {}
  BY DEF InitBus, Delivered
<1>4. StoreFirst /\ Underway /\ Past /\ Members /\ FanOutProgress
  BY <1>3 DEF InitBus, StoreFirst, Underway, Past, Members, FanOutProgress, IsOpen
<1>5. AtMostOnce /\ NoSilentLoss /\ RealTimeOrder
  BY <1>3 DEF InitBus, AtMostOnce, NoSilentLoss, RealTimeOrder, IsOpen
<1> QED
  BY <1>2, <1>4, <1>5 DEF BusInv

-----------------------------------------------------------------------------
(* One lemma per operation.                                                *)

LEMMA PersistInv ==
  ASSUME BusInv, NEW p \in Publishers, NEW e \in Events, Persist(p, e)
  PROVE  BusInv'
<1> USE DEF BusInv
<1>1. /\ pub[p] = "idle" /\ e \notin Stored
      /\ ev' = [ev EXCEPT ![p] = e] /\ pub' = [pub EXCEPT ![p] = "stored"]
      /\ before' = [before EXCEPT ![e] = returned]
      /\ UNCHANGED <<subs, receiver, queue, tried, got, missed, joined, returned>>
  BY DEF Persist, Accepted
<1>2. LogTypeOK' /\ Stored' = Stored \cup {e}
  BY AppendStored DEF Persist, BusTypeOK
<1>3. \A s \in Subscribers : /\ Delivered(s)' = Delivered(s) /\ (IsOpen(s))' = IsOpen(s)
                             /\ e \notin Delivered(s)
  BY <1>1 DEF Delivered, IsOpen, StoreFirst
<1>4. BusTypeOK'
  BY <1>1, <1>2 DEF BusTypeOK
<1>5. StoreFirst' /\ Members' /\ NoSilentLoss' /\ AtMostOnce'
  BY <1>1, <1>2, <1>3 DEF StoreFirst, Members, NoSilentLoss, AtMostOnce
<1>6. Underway' /\ Past'
  BY <1>1, <1>2 DEF Underway, Past, BusTypeOK
<1>7. FanOutProgress'
  BY <1>1, <1>3 DEF FanOutProgress, BusTypeOK
<1>8. RealTimeOrder'
  <2> SUFFICES ASSUME NEW s \in Subscribers, NEW i \in DOMAIN got[s], NEW j \in DOMAIN got[s], i < j
               PROVE  got[s][j] \notin before'[got[s][i]]
    BY <1>1 DEF RealTimeOrder
  <2>1. got[s][i] \in Delivered(s)
    BY DEF Delivered
  <2>2. got[s][i] # e /\ got[s][i] \in Events
    BY <1>3, <2>1 DEF BusTypeOK
  <2> QED
    BY <1>1, <2>2 DEF RealTimeOrder, BusTypeOK
<1> QED
  BY <1>4, <1>5, <1>6, <1>7, <1>8

LEMMA LockInv ==
  ASSUME BusInv, NEW p \in Publishers, LockSubscribers(p) \/ Abort(p)
  PROVE  BusInv'
<1> USE DEF BusInv
<1>1. /\ pub[p] = "stored"
      /\ pub' = [pub EXCEPT ![p] = "sending"] \/ pub' = [pub EXCEPT ![p] = "idle"]
      /\ UNCHANGED <<log, subs, receiver, queue, ev, tried, got, missed, joined, returned, before>>
  BY DEF LockSubscribers, Locked, Abort, history
<1>2. /\ Stored' = Stored
      /\ \A s \in Subscribers : Delivered(s)' = Delivered(s) /\ (IsOpen(s))' = IsOpen(s)
  BY <1>1 DEF Stored, Delivered, IsOpen
<1>3. BusTypeOK'
  BY <1>1 DEF BusTypeOK, LogTypeOK
<1>4. StoreFirst' /\ Members' /\ NoSilentLoss' /\ AtMostOnce' /\ RealTimeOrder'
  BY <1>1, <1>2 DEF StoreFirst, Members, NoSilentLoss, AtMostOnce, RealTimeOrder
<1>5. Underway' /\ Past'
  BY ZenonT(30), <1>1, <1>2 DEF Underway, Past, BusTypeOK
<1>6. FanOutProgress'
  <2>1. tried[p] = {} /\ \A s \in Subscribers : ev[p] \notin Delivered(s)
    BY <1>1 DEF FanOutProgress
  <2>2. \A q \in Publishers : q # p => pub'[q] = pub[q]
    BY <1>1 DEF BusTypeOK
  <2>3. ASSUME NEW q \in Publishers
        PROVE  /\ pub'[q] # "sending" => tried[q] = {}
               /\ pub'[q] # "idle" => \A s \in Subscribers \ tried[q] : ev[q] \notin Delivered(s)
               /\ pub'[q] = "sending" =>
                    \A s \in tried[q] : IsOpen(s) => ev[q] \in Delivered(s) \cup missed[s]
    BY <2>1, <2>2 DEF FanOutProgress
  <2> QED
    BY <1>1, <1>2, <2>3 DEF FanOutProgress, BusTypeOK
<1> QED
  BY <1>3, <1>4, <1>5, <1>6

LEMMA TrySendInv ==
  ASSUME BusInv, NEW p \in Publishers, NEW s \in Subscribers, TrySend(p, s)
  PROVE  BusInv'
<1> USE DEF BusInv
<1>1. /\ pub[p] = "sending" /\ s \in subs \ tried[p]
      /\ tried' = [tried EXCEPT ![p] = @ \cup {s}]
      /\ UNCHANGED <<log, subs, receiver, pub, ev, joined, returned, before>>
  BY DEF TrySend, Sending
<1>2. Stored' = Stored /\ \A x \in Subscribers : (IsOpen(x))' = IsOpen(x)
  BY <1>1 DEF Stored, IsOpen
<1>3. /\ ev[p] \in Events /\ ev[p] \in Stored /\ ev[p] \notin returned
      /\ ev[p] \notin Delivered(s)
  BY <1>1 DEF Underway, FanOutProgress, BusTypeOK
<1>4. CASE IsOpen(s) /\ HasRoom(s) /\ Deliver(p, s)
  <2>1. /\ queue' = [queue EXCEPT ![s] = Append(@, ev[p])]
        /\ got' = [got EXCEPT ![s] = Append(@, ev[p])] /\ UNCHANGED missed
    BY <1>4 DEF Deliver
  <2>2. got[s] \in Seq(Events) /\ queue[s] \in Seq(Events) /\ Len(queue[s]) < Capacity
    BY <1>4 DEF BusTypeOK, HasRoom
  <2>3. /\ Append(got[s], ev[p]) \in Seq(Events) /\ Append(queue[s], ev[p]) \in Seq(Events)
        /\ Len(Append(queue[s], ev[p])) <= Capacity
    BY <1>3, <2>2, BusAssumption
  <2>4. BusTypeOK'
    BY <1>1, <2>1, <2>3 DEF BusTypeOK, LogTypeOK
  <2>5. /\ got'[s] = Append(got[s], ev[p])
        /\ \A x \in Subscribers \ {s} : got'[x] = got[x]
    BY <2>1 DEF BusTypeOK
  <2>6. /\ Delivered(s)' = Delivered(s) \cup {ev[p]}
        /\ \A x \in Subscribers \ {s} : Delivered(x)' = Delivered(x)
    BY <1>3, <2>2, <2>5, AppendRange DEF Delivered
  <2>7. StoreFirst' /\ NoSilentLoss'
    BY <1>1, <1>2, <1>3, <2>1, <2>6 DEF StoreFirst, NoSilentLoss
  <2>8. Members'
    BY <1>1, <1>2, <1>4, <2>6 DEF Members, IsOpen
  <2>9. Underway' /\ Past'
    BY <1>1, <1>2 DEF Underway, Past
  <2>10. FanOutProgress'
    BY <1>1, <1>2, <2>1, <2>6 DEF FanOutProgress, Underway, BusTypeOK
  <2>11. /\ DOMAIN got'[s] = DOMAIN got[s] \cup {Len(got[s]) + 1}
         /\ DOMAIN got[s] = 1..Len(got[s]) /\ Len(got[s]) \in Nat
         /\ \A k \in DOMAIN got[s] : got'[s][k] = got[s][k] /\ got[s][k] \in Delivered(s)
         /\ got'[s][Len(got[s]) + 1] = ev[p]
    BY <1>3, <2>2, <2>5, AppendRange DEF Delivered
  <2>12. AtMostOnce'
    <3> SUFFICES ASSUME NEW x \in Subscribers, NEW i \in DOMAIN got'[x], NEW j \in DOMAIN got'[x],
                        got'[x][i] = got'[x][j]
                 PROVE  i = j
      BY DEF AtMostOnce
    <3>1. CASE x # s
      BY <2>5, <3>1 DEF AtMostOnce
    <3>2. CASE x = s
      <4>1. CASE i \in DOMAIN got[s] /\ j \in DOMAIN got[s]
        BY <2>11, <3>2, <4>1 DEF AtMostOnce
      <4>2. CASE i \notin DOMAIN got[s] \/ j \notin DOMAIN got[s]
        BY <1>3, <2>11, <3>2, <4>2
      <4> QED
        BY <4>1, <4>2
    <3> QED
      BY <3>1, <3>2
  <2>13. RealTimeOrder'
    <3> SUFFICES ASSUME NEW x \in Subscribers, NEW i \in DOMAIN got'[x], NEW j \in DOMAIN got'[x], i < j
                 PROVE  got'[x][j] \notin before[got'[x][i]]
      BY <1>1 DEF RealTimeOrder
    <3>1. CASE x # s
      BY <2>5, <3>1 DEF RealTimeOrder
    <3>2. CASE x = s /\ j = Len(got[s]) + 1
      <4>1. i \in DOMAIN got[s] /\ got'[s][j] = ev[p]
        BY <2>11, <3>2
      <4>2. got'[s][i] \in Events
        BY <2>2, <2>11, <4>1
      <4> QED
        BY <1>3, <3>2, <4>1, <4>2 DEF Past
    <3>3. CASE x = s /\ j # Len(got[s]) + 1
      <4>1. i \in DOMAIN got[s] /\ j \in DOMAIN got[s]
        BY <2>11, <3>3
      <4> QED
        BY <2>11, <3>3, <4>1 DEF RealTimeOrder
    <3> QED
      BY <3>1, <3>2, <3>3
  <2> QED
    BY <2>4, <2>7, <2>8, <2>9, <2>10, <2>12, <2>13
<1>5. CASE Drop(p, s)
  <2>1. /\ UNCHANGED <<queue, got>>
        /\ missed' = IF IsOpen(s) THEN [missed EXCEPT ![s] = @ \cup {ev[p]}] ELSE missed
    BY <1>5 DEF Drop
  <2>2. \A x \in Subscribers : Delivered(x)' = Delivered(x)
    BY <2>1 DEF Delivered
  <2>3. \A x \in Subscribers : missed[x] \subseteq missed'[x] /\ missed'[x] \subseteq missed[x] \cup {ev[p]}
    BY <2>1 DEF BusTypeOK
  <2>4. IsOpen(s) => ev[p] \in missed'[s]
    BY <2>1 DEF BusTypeOK
  <2>5. BusTypeOK'
    <3>1. missed' \in [Subscribers -> SUBSET Events]
      BY <1>3, <2>1 DEF BusTypeOK
    <3> QED
      BY <1>1, <2>1, <3>1 DEF BusTypeOK, LogTypeOK
  <2>6. StoreFirst' /\ NoSilentLoss' /\ Members'
    BY <1>1, <1>2, <1>3, <2>2, <2>3 DEF StoreFirst, NoSilentLoss, Members
  <2>7. Underway' /\ Past' /\ AtMostOnce' /\ RealTimeOrder'
    BY <1>1, <1>2, <2>1 DEF Underway, Past, AtMostOnce, RealTimeOrder
  <2>8. FanOutProgress'
    BY <1>1, <1>2, <2>2, <2>3, <2>4 DEF FanOutProgress, BusTypeOK
  <2> QED
    BY <2>5, <2>6, <2>7, <2>8
<1> QED
  BY <1>4, <1>5 DEF TrySend

LEMMA ReturnInv ==
  ASSUME BusInv, NEW p \in Publishers, Return(p)
  PROVE  BusInv'
<1> USE DEF BusInv
<1>1. /\ pub[p] = "sending" /\ tried[p] = subs
      /\ pub' = [pub EXCEPT ![p] = "idle"] /\ tried' = [tried EXCEPT ![p] = {}]
      /\ returned' = returned \cup {ev[p]}
      /\ UNCHANGED <<log, subs, receiver, queue, ev, got, missed, joined, before>>
  BY DEF Return, Finished
<1>2. /\ Stored' = Stored
      /\ \A s \in Subscribers : Delivered(s)' = Delivered(s) /\ (IsOpen(s))' = IsOpen(s)
  BY <1>1 DEF Stored, Delivered, IsOpen
<1>3. ev[p] \in Events /\ ev[p] \in Stored
  BY <1>1 DEF Underway, BusTypeOK
<1>4. BusTypeOK'
  BY <1>1, <1>3 DEF BusTypeOK, LogTypeOK
<1>5. StoreFirst' /\ Members' /\ AtMostOnce' /\ RealTimeOrder'
  BY <1>1, <1>2 DEF StoreFirst, Members, AtMostOnce, RealTimeOrder
<1>6. Underway' /\ Past'
  BY <1>1, <1>2, <1>3 DEF Underway, Past, BusTypeOK
<1>7. FanOutProgress'
  BY <1>1, <1>2 DEF FanOutProgress, BusTypeOK
<1>8. NoSilentLoss'
  <2>1. \A s \in Subscribers : IsOpen(s) => ev[p] \in Delivered(s) \cup missed[s]
    BY <1>1 DEF Members, FanOutProgress
  <2> QED
    BY <1>1, <1>2, <2>1 DEF NoSilentLoss
<1> QED
  BY <1>4, <1>5, <1>6, <1>7, <1>8

LEMMA SubscribeInv ==
  ASSUME BusInv, NEW s \in Subscribers, Subscribe(s)
  PROVE  BusInv'
<1> USE DEF BusInv
<1>1. /\ receiver[s] = "none" /\ \A p \in Publishers : pub[p] # "sending"
      /\ subs' = {x \in subs : IsOpen(x)} \cup {s}
      /\ receiver' = [receiver EXCEPT ![s] = "open"]
      /\ joined' = [joined EXCEPT ![s] = Stored]
      /\ UNCHANGED <<log, queue, pub, ev, tried, got, missed, returned, before>>
  BY DEF Subscribe, Subscribed
<1>2. Stored' = Stored /\ Stored \subseteq Events /\ \A x \in Subscribers : Delivered(x)' = Delivered(x)
  BY <1>1 DEF Stored, Delivered, BusTypeOK, LogTypeOK
<1>3. IsOpen(s)' /\ \A x \in Subscribers \ {s} : (IsOpen(x))' = IsOpen(x)
  BY <1>1 DEF IsOpen, BusTypeOK
<1>4. BusTypeOK'
  BY <1>1, <1>2 DEF BusTypeOK, LogTypeOK
<1>5. StoreFirst' /\ Underway' /\ Past' /\ AtMostOnce' /\ RealTimeOrder'
  BY <1>1, <1>2 DEF StoreFirst, Underway, Past, AtMostOnce, RealTimeOrder
<1>6. Members'
  BY <1>1, <1>2, <1>3 DEF Members, BusTypeOK
<1>7. FanOutProgress'
  BY <1>1, <1>2 DEF FanOutProgress
<1>8. NoSilentLoss'
  <2>1. joined'[s] = Stored /\ returned \subseteq Stored
    BY <1>1 DEF Past, BusTypeOK
  <2>2. \A x \in Subscribers \ {s} : joined'[x] = joined[x]
    BY <1>1 DEF BusTypeOK
  <2> QED
    BY <1>1, <1>2, <1>3, <2>1, <2>2 DEF NoSilentLoss
<1> QED
  BY <1>4, <1>5, <1>6, <1>7, <1>8

LEMMA ReceiverInv ==
  ASSUME BusInv, NEW s \in Subscribers, Recv(s) \/ Close(s)
  PROVE  BusInv'
<1> USE DEF BusInv
<1>1. /\ IsOpen(s)
      /\ receiver' = receiver \/ receiver' = [receiver EXCEPT ![s] = "closed"]
      /\ \/ queue[s] # <<>> /\ queue' = [queue EXCEPT ![s] = Tail(@)]
         \/ queue' = [queue EXCEPT ![s] = <<>>]
      /\ UNCHANGED <<log, subs, pub, ev, tried, got, missed, joined, returned, before>>
  BY DEF Recv, Close, history
<1>2. Stored' = Stored /\ \A x \in Subscribers : Delivered(x)' = Delivered(x)
  BY <1>1 DEF Stored, Delivered
<1>3. \A x \in Subscribers : /\ (IsOpen(x))' => IsOpen(x)
                             /\ receiver'[x] = "none" => receiver[x] = "none"
  BY <1>1 DEF IsOpen, BusTypeOK
<1>4. BusTypeOK'
  <2>1. queue[s] \in Seq(Events) /\ Len(queue[s]) <= Capacity
    BY DEF BusTypeOK
  <2>2. queue[s] # <<>> => Tail(queue[s]) \in Seq(Events) /\ Len(Tail(queue[s])) <= Capacity
    BY <2>1, BusAssumption
  <2>3. PICK left \in Seq(Events) : /\ Len(left) <= Capacity
                                    /\ queue' = [queue EXCEPT ![s] = left]
    <3>1. <<>> \in Seq(Events) /\ Len(<<>>) <= Capacity
      BY BusAssumption
    <3> QED
      BY <1>1, <2>2, <3>1
  <2>4. /\ queue' \in [Subscribers -> Seq(Events)]
        /\ \A x \in Subscribers : Len(queue'[x]) <= Capacity
    BY <2>3 DEF BusTypeOK
  <2> QED
    BY <1>1, <2>4 DEF BusTypeOK, LogTypeOK
<1>5. StoreFirst' /\ Underway' /\ Past' /\ AtMostOnce' /\ RealTimeOrder'
  BY <1>1, <1>2 DEF StoreFirst, Underway, Past, AtMostOnce, RealTimeOrder
<1>6. Members' /\ NoSilentLoss'
  BY <1>1, <1>2, <1>3 DEF Members, NoSilentLoss
<1>7. FanOutProgress'
  BY <1>1, <1>2, <1>3 DEF FanOutProgress, BusTypeOK
<1> QED
  BY <1>4, <1>5, <1>6, <1>7

LEMMA StutterInv ==
  ASSUME BusInv, UNCHANGED vars
  PROVE  BusInv'
<1>1. UNCHANGED <<log, subs, receiver, queue, pub, ev, tried, got, missed, joined, returned, before>>
  BY DEF vars, busVars
<1>2. Stored' = Stored /\ \A s : Delivered(s)' = Delivered(s) /\ IsOpen(s)' = IsOpen(s)
  BY <1>1 DEF Stored, Delivered, IsOpen
<1>3. BusTypeOK'
  BY <1>1 DEF BusInv, BusTypeOK, LogTypeOK
<1>4. StoreFirst' /\ Underway' /\ Past' /\ Members'
  BY <1>1, <1>2 DEF BusInv, StoreFirst, Underway, Past, Members
<1>5. FanOutProgress'
  BY <1>1, <1>2 DEF BusInv, FanOutProgress
<1>6. AtMostOnce' /\ NoSilentLoss' /\ RealTimeOrder'
  BY <1>1, <1>2 DEF BusInv, AtMostOnce, NoSilentLoss, RealTimeOrder
<1> QED
  BY <1>3, <1>4, <1>5, <1>6 DEF BusInv

-----------------------------------------------------------------------------
(* For any number of publishers, receivers and events and any capacity:    *)
(* the conjuncts of BusInv hold whatever fan-outs interleave, receivers    *)
(* come and go and publishers are aborted.                                 *)
THEOREM BusInvariant == BusSpec => []BusInv
<1>1. BusInv /\ [NextBus]_vars => BusInv'
  BY PersistInv, LockInv, TrySendInv, ReturnInv, SubscribeInv, ReceiverInv, StutterInv
     DEF NextBus, PublishStep
<1> QED
  BY <1>1, BusInit, PTL DEF BusSpec

(* The types of the bus, and the bound on every channel (bus.rs:43-49).    *)
THEOREM BusTypeCorrect == BusSpec => []BusTypeOK
<1>1. BusInv => BusTypeOK
  BY DEF BusInv
<1> QED
  BY <1>1, BusInvariant, PTL

(* No receiver is handed an event that is not in the store (bus.rs:35-37). *)
THEOREM BusStoreFirst == BusSpec => []StoreFirst
<1>1. BusInv => StoreFirst
  BY DEF BusInv
<1> QED
  BY <1>1, BusInvariant, PTL

(* No receiver is handed an event twice.                                   *)
THEOREM BusAtMostOnce == BusSpec => []AtMostOnce
<1>1. BusInv => AtMostOnce
  BY DEF BusInv
<1> QED
  BY <1>1, BusInvariant, PTL

(* A receiver that subscribed in time misses an event only when its        *)
(* channel is full: what the connectors' subscribe-then-publish relies on. *)
THEOREM BusNoSilentLoss == BusSpec => []NoSilentLoss
<1>1. BusInv => NoSilentLoss
  BY DEF BusInv
<1> QED
  BY <1>1, BusInvariant, PTL

(* An event published after another publish() returned never overtakes it. *)
THEOREM BusRealTimeOrder == BusSpec => []RealTimeOrder
<1>1. BusInv => RealTimeOrder
  BY DEF BusInv
<1> QED
  BY <1>1, BusInvariant, PTL

-----------------------------------------------------------------------------
(***************************************************************************)
(* The slot, for any number of requests, readers and questions.            *)
(* NoDeadHandler needs only types.  HandlerPinned needs that an open       *)
(* question holds the lock (AskersHold), which, with the lock's exclusion  *)
(* in SlotTypeOK, keeps every writer out.                                  *)
(***************************************************************************)

(* An open question holds the read lock.                                   *)
AskersHold == \A r \in Asks : reader[r] = "asking" => Lender(r) \in holders

SlotInv == SlotTypeOK /\ NoDeadHandler /\ HandlerPinned /\ AskersHold

-----------------------------------------------------------------------------
Elements(s) == {s[i] : i \in DOMAIN s}

(* A waiter joins the lock's queue at its end.                             *)
LEMMA Joins ==
  ASSUME NEW S, NEW s \in Seq(S), NEW w \in S
  PROVE  Append(s, w) \in Seq(S) /\ Elements(Append(s, w)) = Elements(s) \cup {w}
<1>1. Append(s, w) \in Seq(S) /\ DOMAIN Append(s, w) = 1 .. Len(s) + 1
  OBVIOUS
<1>2. /\ DOMAIN s = 1 .. Len(s) /\ Len(s) \in Nat
      /\ \A i \in 1 .. Len(s) : Append(s, w)[i] = s[i]
      /\ Append(s, w)[Len(s) + 1] = w
  OBVIOUS
<1>3. 1 .. Len(s) + 1 = 1 .. Len(s) \cup {Len(s) + 1}
  BY <1>2
<1>4. Elements(Append(s, w)) = Elements(s) \cup {w}
  BY <1>1, <1>2, <1>3 DEF Elements
<1> QED
  BY <1>1, <1>4

(* The oldest waiter is served.                                            *)
LEMMA Served ==
  ASSUME NEW S, NEW s \in Seq(S), s # <<>>
  PROVE  /\ Head(s) \in S /\ Tail(s) \in Seq(S)
         /\ Elements(s) = Elements(Tail(s)) \cup {Head(s)}
<1>1. /\ Head(s) \in S /\ Tail(s) \in Seq(S)
      /\ Len(s) \in Nat \ {0} /\ DOMAIN s = 1 .. Len(s) /\ Head(s) = s[1]
  OBVIOUS
<1>2. /\ DOMAIN Tail(s) = 1 .. Len(s) - 1
      /\ \A i \in 1 .. Len(s) - 1 : Tail(s)[i] = s[i + 1]
  OBVIOUS
<1>3. ASSUME NEW x \in Elements(s) PROVE x \in Elements(Tail(s)) \cup {Head(s)}
  <2>1. PICK i \in 1 .. Len(s) : x = s[i]
    BY <1>1 DEF Elements
  <2>2. CASE i = 1
    BY <1>1, <2>1, <2>2
  <2>3. CASE i # 1
    <3>1. i - 1 \in 1 .. Len(s) - 1 /\ Tail(s)[i - 1] = s[i]
      BY <1>1, <1>2, <2>3
    <3> QED
      BY <1>2, <2>1, <3>1 DEF Elements
  <2> QED
    BY <2>2, <2>3
<1>4. ASSUME NEW x \in Elements(Tail(s)) \cup {Head(s)} PROVE x \in Elements(s)
  <2>1. CASE x = Head(s)
    BY <1>1, <2>1 DEF Elements
  <2>2. CASE x \in Elements(Tail(s))
    <3>1. PICK i \in 1 .. Len(s) - 1 : x = Tail(s)[i]
      BY <1>2, <2>2 DEF Elements
    <3>2. i + 1 \in 1 .. Len(s) /\ x = s[i + 1]
      BY <1>1, <1>2, <3>1
    <3> QED
      BY <1>1, <3>2 DEF Elements
  <2> QED
    BY <2>1, <2>2
<1> QED
  BY <1>1, <1>3, <1>4

(* A waiter leaves from anywhere in the queue: the others stay.            *)
LEMMA Leaves ==
  ASSUME NEW S, NEW s \in Seq(S), NEW i \in DOMAIN s, NEW t,
         t = [j \in 1 .. Len(s) - 1 |-> IF j < i THEN s[j] ELSE s[j + 1]]
  PROVE  t \in Seq(S) /\ Elements(s) \ {s[i]} \subseteq Elements(t)
<1>1. /\ Len(s) \in Nat \ {0} /\ DOMAIN s = 1 .. Len(s) /\ i \in 1 .. Len(s)
      /\ \A j \in 1 .. Len(s) : s[j] \in S
  OBVIOUS
<1>2. \A j \in 1 .. Len(s) - 1 : j \in 1 .. Len(s) /\ j + 1 \in 1 .. Len(s)
  BY <1>1
<1>3. t \in [1 .. Len(s) - 1 -> S]
  BY <1>1, <1>2
<1>4. t \in Seq(S)
  <2>1. Len(s) - 1 \in Nat
    BY <1>1
  <2> QED
    BY <1>3, <2>1
<1>5. ASSUME NEW x \in Elements(s) \ {s[i]} PROVE x \in Elements(t)
  <2>1. PICK k \in 1 .. Len(s) : x = s[k]
    BY <1>1 DEF Elements
  <2>2. k # i
    BY <2>1
  <2>3. CASE k < i
    <3>1. k \in 1 .. Len(s) - 1 /\ t[k] = s[k]
      BY <1>1, <2>3
    <3> QED
      BY <1>3, <2>1, <3>1 DEF Elements
  <2>4. CASE k > i
    <3>1. k - 1 \in 1 .. Len(s) - 1 /\ ~(k - 1 < i) /\ (k - 1) + 1 = k
      BY <1>1, <2>4
    <3>2. t[k - 1] = s[k]
      BY <3>1
    <3> QED
      BY <1>3, <2>1, <3>1, <3>2 DEF Elements
  <2> QED
    BY <1>1, <2>2, <2>3, <2>4
<1> QED
  BY <1>4, <1>5

-----------------------------------------------------------------------------
(* Sets and clears are not reads, whoever they are of.                     *)
LEMMA UsersDiffer ==
  /\ \A g \in Requests : Setter(g) \in Writers /\ Clearer(g) \in Writers
  /\ \A r : Lender(r) \notin Writers
  /\ \A g, h : Setter(g) # Clearer(h)
  /\ \A g, h : Clearer(g) = Clearer(h) => g = h
  /\ \A r, q : Lender(r) = Lender(q) => r = q
  /\ Writers \subseteq LockUsers
  /\ \A r \in Readers : Lender(r) \in LockUsers
BY DEF Setter, Clearer, Lender, Writers, LockUsers

LEMMA SlotInit == InitSlot => SlotInv
<1> SUFFICES ASSUME InitSlot PROVE SlotInv
  OBVIOUS
<1>1. SlotTypeOK
  BY DEF InitSlot, SlotTypeOK, Readers
<1>2. NoDeadHandler /\ HandlerPinned /\ AskersHold
  BY DEF InitSlot, NoDeadHandler, HandlerPinned, AskersHold, Readers
<1> QED
  BY <1>1, <1>2 DEF SlotInv

(* A writer that holds the lock holds it alone: no question is open.       *)
LEMMA WriterAlone ==
  ASSUME SlotInv, NEW w \in Writers, w \in holders
  PROVE  \A r \in Asks : reader[r] # "asking"
BY UsersDiffer DEF SlotInv, SlotTypeOK, AskersHold

(* Every step keeps the invariant, action by action.                       *)
LEMMA SlotNext == SlotInv /\ [NextSlot]_slotVars => SlotInv'
<1> SUFFICES ASSUME SlotInv, [NextSlot]_slotVars PROVE SlotInv'
  OBVIOUS
<1> USE UsersDiffer, SlotAssumption
<1>0. SlotTypeOK /\ NoDeadHandler /\ HandlerPinned /\ AskersHold /\ Asks \subseteq Readers
      /\ Waiters = Elements(waiting) /\ Waiters' = Elements(waiting')
  BY DEF SlotInv, Readers, Waiters, Elements
<1>1. CASE Grant
  <2> DEFINE w == Head(waiting)
  <2>1. /\ waiting' = Tail(waiting) /\ holders' = holders \cup {w} /\ waiting # <<>>
        /\ UNCHANGED <<slot, guard, clears, reader, handler>>
        /\ IF w \in Writers THEN holders = {} ELSE holders \cap Writers = {}
    BY <1>1 DEF Grant
  <2>2. w \in LockUsers /\ waiting' \in Seq(LockUsers) /\ Waiters = Waiters' \cup {w}
    BY <1>0, <2>1, Served DEF SlotTypeOK
  <2>3. SlotTypeOK'
    BY <1>0, <2>1, <2>2 DEF SlotTypeOK
  <2>4. NoDeadHandler'
    BY <1>0, <2>1, <2>2 DEF NoDeadHandler, ClearUnderWay
  <2>5. HandlerPinned' /\ AskersHold'
    BY <1>0, <2>1 DEF HandlerPinned, AskersHold
  <2> QED
    BY <2>3, <2>4, <2>5 DEF SlotInv
<1>2. ASSUME NEW g \in Requests, Set(g) PROVE SlotInv'
  <2>1. /\ guard' = [guard EXCEPT ![g] = "setting"] /\ guard[g] = "idle"
        /\ waiting' = Append(waiting, Setter(g))
        /\ UNCHANGED <<slot, clears, holders, reader, handler>>
    BY <1>2 DEF Set
  <2>2. waiting' \in Seq(LockUsers) /\ Waiters \subseteq Waiters'
    BY <1>0, <2>1, Joins DEF SlotTypeOK
  <2>3. SlotTypeOK'
    BY <1>0, <2>1, <2>2 DEF SlotTypeOK
  <2>4. NoDeadHandler'
    BY <1>0, <2>1, <2>2 DEF NoDeadHandler, ClearUnderWay, SlotTypeOK
  <2>5. HandlerPinned' /\ AskersHold'
    BY <1>0, <2>1 DEF HandlerPinned, AskersHold
  <2> QED
    BY <2>3, <2>4, <2>5 DEF SlotInv
<1>3. ASSUME NEW g \in Requests, WriteHandler(g) PROVE SlotInv'
  <2>1. /\ Setter(g) \in holders /\ slot' = g /\ guard' = [guard EXCEPT ![g] = "live"]
        /\ holders' = holders \ {Setter(g)}
        /\ UNCHANGED <<clears, waiting, reader, handler>>
    BY <1>3 DEF WriteHandler
  <2>2. \A r \in Asks : reader[r] # "asking"
    BY <2>1, WriterAlone
  <2>3. SlotTypeOK'
    BY <1>0, <2>1 DEF SlotTypeOK
  <2>4. NoDeadHandler'
    BY <1>0, <2>1 DEF NoDeadHandler, SlotTypeOK
  <2>5. HandlerPinned' /\ AskersHold'
    BY <2>1, <2>2 DEF HandlerPinned, AskersHold
  <2> QED
    BY <2>3, <2>4, <2>5 DEF SlotInv
<1>4. ASSUME NEW g \in Requests, Interrupt(g) PROVE SlotInv'
  <2>1. /\ guard' = [guard EXCEPT ![g] = "aborted"] /\ guard[g] = "setting"
        /\ UNCHANGED <<slot, clears, waiting, holders, reader, handler>>
    BY <1>4 DEF Interrupt
  <2>2. SlotTypeOK'
    BY <1>0, <2>1 DEF SlotTypeOK
  <2>3. NoDeadHandler'
    BY <1>0, <2>1 DEF NoDeadHandler, ClearUnderWay, SlotTypeOK
  <2>4. HandlerPinned' /\ AskersHold'
    BY <1>0, <2>1 DEF HandlerPinned, AskersHold
  <2> QED
    BY <2>2, <2>3, <2>4 DEF SlotInv
<1>5. ASSUME NEW g \in Requests, AbortSetting(g) PROVE SlotInv'
  <2>1. /\ guard' = [guard EXCEPT ![g] = "gone"] /\ guard[g] = "aborted"
        /\ holders' = holders \ {Setter(g)}
        /\ UNCHANGED <<slot, clears, reader, handler>>
    BY <1>5 DEF AbortSetting
  <2>2. waiting' \in Seq(LockUsers) /\ Waiters \ {Setter(g)} \subseteq Waiters'
    <3>1. CASE UNCHANGED waiting
      BY <1>0, <3>1 DEF SlotTypeOK
    <3>2. ASSUME NEW i \in DOMAIN waiting, waiting[i] = Setter(g),
                 waiting' = [j \in 1 .. Len(waiting) - 1 |->
                               IF j < i THEN waiting[j] ELSE waiting[j + 1]]
          PROVE  waiting' \in Seq(LockUsers) /\ Waiters \ {Setter(g)} \subseteq Waiters'
      <4>1. waiting \in Seq(LockUsers)
        BY <1>0 DEF SlotTypeOK
      <4>2. /\ waiting' \in Seq(LockUsers)
            /\ Elements(waiting) \ {waiting[i]} \subseteq Elements(waiting')
        BY <3>2, <4>1, Leaves
      <4> QED
        BY <1>0, <3>2, <4>2
    <3> QED
      BY <1>5, <3>1, <3>2 DEF AbortSetting
  <2>3. SlotTypeOK'
    BY <1>0, <2>1, <2>2 DEF SlotTypeOK
  <2>4. NoDeadHandler'
    BY <1>0, <2>1, <2>2 DEF NoDeadHandler, ClearUnderWay, SlotTypeOK
  <2>5. HandlerPinned' /\ AskersHold'
    BY <1>0, <2>1 DEF HandlerPinned, AskersHold
  <2> QED
    BY <2>3, <2>4, <2>5 DEF SlotInv
<1>6. ASSUME NEW g \in Requests, DropGuard(g) PROVE SlotInv'
  <2>1. /\ guard[g] = "live" /\ guard' = [guard EXCEPT ![g] = "gone"]
        /\ UNCHANGED <<waiting, holders, reader, handler>>
    BY <1>6 DEF DropGuard, GuardGoes
  <2>2. CASE TryWriteSucceeds /\ slot' = None /\ UNCHANGED clears
    <3>1. \A r \in Asks : reader[r] # "asking"
      BY <1>0, <2>2 DEF TryWriteSucceeds, AskersHold
    <3>2. SlotTypeOK'
      BY <1>0, <2>1, <2>2 DEF SlotTypeOK
    <3>3. NoDeadHandler' /\ HandlerPinned' /\ AskersHold'
      BY <2>1, <2>2, <3>1 DEF NoDeadHandler, HandlerPinned, AskersHold
    <3> QED
      BY <3>2, <3>3 DEF SlotInv
  <2>3. CASE clears' = clears \cup {g} /\ UNCHANGED slot
    <3>1. SlotTypeOK'
      BY <1>0, <2>1, <2>3 DEF SlotTypeOK
    <3>2. NoDeadHandler'
      BY <1>0, <2>1, <2>3 DEF NoDeadHandler, ClearUnderWay, SlotTypeOK
    <3>3. HandlerPinned' /\ AskersHold'
      BY <1>0, <2>1, <2>3 DEF HandlerPinned, AskersHold
    <3> QED
      BY <3>1, <3>2, <3>3 DEF SlotInv
  <2> QED
    BY <1>6, <2>2, <2>3 DEF DropGuard
<1>7. ASSUME NEW g \in Requests, DeferredClear(g) PROVE SlotInv'
  <2>1. /\ clears' = clears \ {g} /\ waiting' = Append(waiting, Clearer(g))
        /\ UNCHANGED <<slot, guard, holders, reader, handler>>
    BY <1>7 DEF DeferredClear
  <2>2. waiting' \in Seq(LockUsers) /\ Waiters' = Waiters \cup {Clearer(g)}
    BY <1>0, <2>1, Joins DEF SlotTypeOK
  <2>3. SlotTypeOK'
    BY <1>0, <2>1, <2>2 DEF SlotTypeOK
  <2>4. NoDeadHandler'
    BY <1>0, <2>1, <2>2 DEF NoDeadHandler, ClearUnderWay
  <2>5. HandlerPinned' /\ AskersHold'
    BY <1>0, <2>1 DEF HandlerPinned, AskersHold
  <2> QED
    BY <2>3, <2>4, <2>5 DEF SlotInv
<1>8. ASSUME NEW g \in Requests, ClearSlot(g) PROVE SlotInv'
  <2>1. /\ Clearer(g) \in holders /\ slot' = None /\ holders' = holders \ {Clearer(g)}
        /\ UNCHANGED <<guard, clears, waiting, reader, handler>>
    BY <1>8 DEF ClearSlot
  <2>2. \A r \in Asks : reader[r] # "asking"
    BY <2>1, WriterAlone
  <2>3. SlotTypeOK'
    BY <1>0, <2>1 DEF SlotTypeOK
  <2>4. NoDeadHandler' /\ HandlerPinned' /\ AskersHold'
    BY <2>1, <2>2 DEF NoDeadHandler, HandlerPinned, AskersHold
  <2> QED
    BY <2>3, <2>4 DEF SlotInv
<1>9. ASSUME NEW r \in Readers, Read(r) PROVE SlotInv'
  <2>1. /\ reader' = [reader EXCEPT ![r] = "reading"]
        /\ waiting' = Append(waiting, Lender(r))
        /\ UNCHANGED <<slot, guard, clears, holders, handler>>
    BY <1>9 DEF Read
  <2>2. waiting' \in Seq(LockUsers) /\ Waiters \subseteq Waiters'
    BY <1>0, <2>1, Joins DEF SlotTypeOK
  <2>3. SlotTypeOK'
    BY <1>0, <2>1, <2>2 DEF SlotTypeOK
  <2>4. NoDeadHandler'
    BY <1>0, <2>1, <2>2 DEF NoDeadHandler, ClearUnderWay
  <2>5. HandlerPinned' /\ AskersHold'
    BY <1>0, <2>1 DEF HandlerPinned, AskersHold, SlotTypeOK
  <2> QED
    BY <2>3, <2>4, <2>5 DEF SlotInv
<1>10. ASSUME NEW r \in Readers, Copy(r) \/ Ask(r) \/ Answer(r) PROVE SlotInv'
  <2>1. /\ UNCHANGED <<slot, guard, clears, waiting>>
        /\ \/ handler' = [handler EXCEPT ![r] = slot]
           \/ UNCHANGED handler
        /\ \/ reader' = [reader EXCEPT ![r] = "done"] /\ holders' = holders \ {Lender(r)}
           \/ /\ reader' = [reader EXCEPT ![r] = "asking"] /\ UNCHANGED holders
              /\ handler' = [handler EXCEPT ![r] = slot]
              /\ Lender(r) \in holders /\ slot # None
    BY <1>10 DEF Copy, Ask, Answer, Finds, Decided
  <2>2. SlotTypeOK'
    BY <1>0, <2>1 DEF SlotTypeOK
  <2>3. NoDeadHandler'
    BY <1>0, <2>1 DEF NoDeadHandler, ClearUnderWay, SlotTypeOK
  <2>4. HandlerPinned' /\ AskersHold'
    BY <1>0, <2>1 DEF HandlerPinned, AskersHold, SlotTypeOK
  <2> QED
    BY <2>2, <2>3, <2>4 DEF SlotInv
<1>11. CASE UNCHANGED slotVars
  BY <1>0, <1>11 DEF slotVars, SlotInv, SlotTypeOK, NoDeadHandler, ClearUnderWay, HandlerPinned,
     AskersHold, Waiters
<1> QED
  BY <1>1, <1>2, <1>3, <1>4, <1>5, <1>6, <1>7, <1>8, <1>9, <1>10, <1>11 DEF NextSlot

-----------------------------------------------------------------------------
(* The inductive invariant holds in every reachable state of the slot.     *)
THEOREM SlotInvariant == SlotSpec => []SlotInv
BY SlotInit, SlotNext, PTL DEF SlotSpec

(* Types, and the exclusion of the lock, for any number of its users.      *)
THEOREM SlotTypeCorrect == SlotSpec => []SlotTypeOK
<1>1. SlotInv => SlotTypeOK
  BY DEF SlotInv
<1> QED
  BY SlotInvariant, <1>1, PTL

(* The slot never keeps the handler of a request that is over, however     *)
(* many requests overlap (Drop of ApprovalSlotGuard).                      *)
THEOREM SlotNoDeadHandler == SlotSpec => []NoDeadHandler
<1>1. SlotInv => NoDeadHandler
  BY DEF SlotInv
<1> QED
  BY SlotInvariant, <1>1, PTL

(* An open question of a workflow keeps its handler in the slot.           *)
THEOREM SlotHandlerPinned == SlotSpec => []HandlerPinned
<1>1. SlotInv => HandlerPinned
  BY DEF SlotInv
<1> QED
  BY SlotInvariant, <1>1, PTL
==============================================================================
