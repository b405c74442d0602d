----------------------------- MODULE MemoryProofs -----------------------------
(***************************************************************************)
(* Safety of the conversation's memory for any number of runs, calls,      *)
(* messages and summaries: nothing is forgotten, and what a model is sent  *)
(* pairs up.                                                               *)
(*                                                                         *)
(* As long as no summary was disturbed, one summary at a time is between   *)
(* its read of the table and the last message it adds again; what it keeps *)
(* is as sound as the table it was taken from (HistoriesOK), and with what *)
(* it covers and what was cut off it is all that the table had (CoversOK). *)
(* While a run repairs the table nobody summarizes, and what it has yet to *)
(* add again completes the repaired history (RepairOK).                    *)
(*                                                                         *)
(* And of the answers that come in, for streams of any length: what the    *)
(* provider has collected and what is still to come make up what the model *)
(* said (Along, Told).                                                     *)
(***************************************************************************)
EXTENDS Conversation, LlmStream, HistoryProofs, FiniteSetTheorems

JobSteps == {"idle", "spawned", "asked", "write", "clear", "restore", "facts", "condense"}
JobState == [at : JobSteps, keep : Seq(Msgs), covers : SUBSET Msgs, cut : SUBSET Msgs,
             facts : SUBSET Runs]
TurnState == [at : {"free", "clear", "again", "store", "busy"}, run : Nat, iter : Nat,
              calls : Nat, pending : Nat, back : Seq(Msgs)]

TurnOK(t) ==
  /\ t \in TurnState /\ t.pending <= t.calls
  /\ t.pending > 0 => t.at = "busy"
  /\ t.at # "free" => t.run \in Runs
  /\ t.at \in {"clear", "again", "store"} => t.iter = 0
  /\ t.at \notin {"clear", "again"} => t.back = <<>>
  /\ t.at = "again" => t.back # <<>>

MemoryTypes ==
  /\ table \in Seq(Msgs) /\ prompt \in Seq(Msgs) /\ summary \in SUBSET Msgs
  /\ TurnOK(turn)
  /\ job \in [Jobs -> JobState]
  /\ facts \in SUBSET Runs

Ready(t) == t.at \in {"again", "store", "busy"} /\ t.pending = 0
Fresh(t) == t.at # "free" /\ t.iter = 0 /\ t.pending = 0

(* A history as it must be at a turn: closed between groups, with the open *)
(* group while calls are pending, and without calls of turns to come.      *)
AtTurn(h, t) ==
  /\ Sound(h) /\ BrokenLast(h)
  /\ Ready(t) => Closed(h)
  /\ t.pending > 0 => Open(h, t.run, t.iter, t.calls - t.pending, t.calls)
  /\ \A a \in DOMAIN h : Calls(h, a) =>
       /\ h[a].run <= t.run
       /\ Fresh(t) => h[a].run # t.run

OneJob == \A j, k \in Jobs : Summarizing(j) /\ Summarizing(k) => j = k

HasCut(j) == job[j].at \in {"asked", "write", "clear"}

HistoriesOK ==
  /\ turn.at # "free" => AtTurn(prompt, turn)
  /\ turn.at # "again" /\ (\A j \in Jobs : job[j].at # "restore") => AtTurn(table, turn)
  /\ \A j \in Jobs : /\ HasCut(j) => AtTurn(job[j].keep, turn)
                     /\ job[j].at = "restore" => AtTurn(table \o job[j].keep, turn)

RepairOK ==
  /\ turn.at \in {"clear", "again"} => ~Overlaps
  /\ turn.at = "clear" => turn.back = prompt /\ prompt = Sanitize(table)
  /\ turn.at = "again" => AtTurn(table \o turn.back, turn)

CoversOK ==
  \A j \in Jobs :
    /\ job[j].at \in {"asked", "write"} =>
         Range(table) \subseteq job[j].covers \cup Range(job[j].keep) \cup job[j].cut
    /\ job[j].at = "clear" =>
         Range(table) \subseteq summary \cup Range(job[j].keep) \cup job[j].cut

Back(m) == \E j \in Jobs : job[j].at = "restore" /\ m \in Range(job[j].keep)
Again(m) == turn.at = "again" /\ m \in Range(turn.back)
Stands(m) == m \in Range(table) \/ m \in summary \/ m \in unread
EverKept == \A m \in ever : Stands(m) \/ Back(m) \/ Again(m)

FactsKept ==
  /\ learned \subseteq facts
  /\ \A j \in Jobs : job[j].at = "condense" => learned \subseteq job[j].facts

(* While no summary was disturbed.                                         *)
Undisturbed == OneJob /\ HistoriesOK /\ RepairOK /\ CoversOK /\ EverKept

MemoryInv ==
  /\ MemoryTypes
  /\ stale \/ FactsKept
  /\ upset \/ Undisturbed

-----------------------------------------------------------------------------
(* Sequences of messages: what they have, and what a cut leaves of them.   *)

(* What a list with one more message has.                                  *)
LEMMA AppendHas ==
  ASSUME NEW h \in Seq(Msgs), NEW m \in Msgs
  PROVE  Range(Append(h, m)) = Range(h) \cup {m}
<1>1. /\ DOMAIN Append(h, m) = DOMAIN h \cup {Len(h) + 1}
      /\ \A i \in DOMAIN h : Append(h, m)[i] = h[i]
      /\ Append(h, m)[Len(h) + 1] = m
  BY Appended
<1> QED
  BY <1>1 DEF Range

(* Where the messages after a cut stood before it.                         *)
LEMMA CutPositions ==
  ASSUME NEW h \in Seq(Msgs), NEW n \in 0 .. Len(h)
  PROVE  LET s == SubSeq(h, n + 1, Len(h))
         IN  /\ s \in Seq(Msgs) /\ Len(h) \in Nat /\ Len(s) = Len(h) - n
             /\ DOMAIN s = 1 .. Len(h) - n /\ DOMAIN h = 1 .. Len(h)
             /\ \A i \in 1 .. Len(h) - n : s[i] = h[n + i]
OBVIOUS

(* The two parts of a list have what the list has.                         *)
LEMMA CutHas ==
  ASSUME NEW h \in Seq(Msgs), NEW n \in 0 .. Len(h)
  PROVE  /\ Range(SubSeq(h, n + 1, Len(h))) \subseteq Range(h)
         /\ Range(h) \subseteq Range(SubSeq(h, 1, n)) \cup Range(SubSeq(h, n + 1, Len(h)))
         /\ Range(SubSeq(h, 1, n)) \subseteq Range(h)
<1> DEFINE s == SubSeq(h, n + 1, Len(h))
           b == SubSeq(h, 1, n)
<1>1. /\ Len(h) \in Nat /\ DOMAIN s = 1 .. Len(h) - n /\ DOMAIN h = 1 .. Len(h)
      /\ \A i \in 1 .. Len(h) - n : s[i] = h[n + i]
  BY CutPositions
<1>2. DOMAIN b = 1 .. n /\ \A i \in 1 .. n : b[i] = h[i]
  BY <1>1
<1> HIDE DEF s, b
<1>3. ASSUME NEW i \in DOMAIN h PROVE h[i] \in Range(b) \cup Range(s)
  <2>1. CASE i <= n
    BY <1>1, <1>2, <1>3, <2>1 DEF Range
  <2>2. CASE i > n
    <3>1. i - n \in DOMAIN s /\ s[i - n] = h[i]
      BY <1>1, <1>3, <2>2
    <3> QED
      BY <3>1 DEF Range
  <2> QED
    BY <1>1, <1>3, <2>1, <2>2
<1>4. Range(s) \subseteq Range(h)
  BY <1>1 DEF Range
<1>5. Range(b) \subseteq Range(h)
  BY <1>1, <1>2 DEF Range
<1> QED
  BY <1>3, <1>4, <1>5 DEF Range, s, b

(* So have its beginning and what lies between the two cuts.               *)
LEMMA BetweenHas ==
  ASSUME NEW h \in Seq(Msgs), NEW n \in 0 .. Len(h), NEW k \in 0 .. n
  PROVE  /\ Range(SubSeq(h, 1, n)) \subseteq
              Range(SubSeq(h, 1, k)) \cup Range(SubSeq(h, k + 1, n))
         /\ Range(SubSeq(h, k + 1, n)) \subseteq Msgs
         /\ Range(SubSeq(h, 1, k)) \subseteq Msgs
<1> DEFINE b == SubSeq(h, 1, n)
           x == SubSeq(h, 1, k)
           y == SubSeq(h, k + 1, n)
<1>1. /\ DOMAIN b = 1 .. n /\ \A i \in 1 .. n : b[i] = h[i]
      /\ DOMAIN x = 1 .. k /\ \A i \in 1 .. k : x[i] = h[i]
      /\ DOMAIN y = 1 .. n - k /\ \A i \in 1 .. n - k : y[i] = h[k + i]
      /\ x \in Seq(Msgs) /\ y \in Seq(Msgs)
  OBVIOUS
<1> HIDE DEF b, x, y
<1>2. ASSUME NEW i \in DOMAIN b PROVE b[i] \in Range(x) \cup Range(y)
  <2>1. CASE i <= k
    BY <1>1, <1>2, <2>1 DEF Range
  <2>2. CASE i > k
    <3>1. i - k \in DOMAIN y /\ y[i - k] = b[i]
      BY <1>1, <1>2, <2>2
    <3> QED
      BY <3>1 DEF Range
  <2> QED
    BY <1>1, <2>1, <2>2
<1>3. Range(x) \subseteq Msgs /\ Range(y) \subseteq Msgs
  BY <1>1 DEF Range
<1> QED
  BY <1>2, <1>3 DEF Range, b, x, y

(* A list has its head and what its tail has.                              *)
LEMMA HeadHas ==
  ASSUME NEW s \in Seq(Msgs), s # <<>>
  PROVE  /\ Head(s) \in Msgs /\ Tail(s) \in Seq(Msgs)
         /\ Range(s) \subseteq {Head(s)} \cup Range(Tail(s))
<1>1. /\ Head(s) \in Msgs /\ Tail(s) \in Seq(Msgs) /\ Len(s) \in Nat /\ Head(s) = s[1]
      /\ DOMAIN s = 1 .. Len(s) /\ DOMAIN Tail(s) = 1 .. Len(s) - 1
      /\ \A i \in 1 .. Len(s) - 1 : Tail(s)[i] = s[i + 1]
  OBVIOUS
<1>2. ASSUME NEW i \in DOMAIN s PROVE s[i] = Head(s) \/ s[i] \in Range(Tail(s))
  <2>1. CASE i = 1
    BY <1>1, <2>1
  <2>2. CASE i # 1
    <3>1. i - 1 \in DOMAIN Tail(s) /\ Tail(s)[i - 1] = s[i]
      BY <1>1, <1>2, <2>2
    <3> QED
      BY <3>1 DEF Range
  <2> QED
    BY <2>1, <2>2
<1> QED
  BY <1>1, <1>2 DEF Range

(* A message handed from one sequence to the other changes no whole.       *)
LEMMA HandedOn ==
  ASSUME NEW s \in Seq(Msgs), NEW t \in Seq(Msgs), t # <<>>
  PROVE  Append(s, Head(t)) \o Tail(t) = s \o t
<1>1. /\ Head(t) \in Msgs /\ Tail(t) \in Seq(Msgs) /\ Append(s, Head(t)) \in Seq(Msgs)
      /\ Len(t) \in Nat /\ Len(t) > 0 /\ Len(s) \in Nat /\ Len(Tail(t)) = Len(t) - 1
      /\ Head(t) = t[1] /\ \A i \in 1 .. Len(t) - 1 : Tail(t)[i] = t[i + 1]
  OBVIOUS
<1> DEFINE x == Append(s, Head(t)) \o Tail(t)
           y == s \o t
<1>2. /\ x \in Seq(Msgs) /\ y \in Seq(Msgs)
      /\ Len(x) = Len(s) + Len(t) /\ Len(y) = Len(s) + Len(t)
  BY <1>1
<1>3. ASSUME NEW i \in 1 .. Len(s) + Len(t) PROVE x[i] = y[i]
  <2>1. CASE i <= Len(s)
    BY <1>1, <1>3, <2>1
  <2>2. CASE i = Len(s) + 1
    BY <1>1, <1>3, <2>2
  <2>3. CASE i > Len(s) + 1
    BY <1>1, <1>3, <2>3
  <2> QED
    BY <1>1, <2>1, <2>2, <2>3
<1> QED
  BY <1>2, <1>3

-----------------------------------------------------------------------------
(* The split: a place where no result would be parted from its call.       *)
IsCut(h, n) == n = 0 \/ h[n + 1].role # "result"

(* A history is split where its rest may stand alone (IsCut).              *)
LEMMA SplitFound ==
  ASSUME NEW h \in Seq(Msgs), Len(h) >= Threshold
  PROVE  SplitPoint(h) \in 0 .. Len(h) - 1 /\ IsCut(h, SplitPoint(h))
<1> DEFINE recent == Len(h) - KeepRecent
           D == {m \in Nat : m <= recent /\ IsCut(h, recent - m)}
<1>1. Len(h) \in Nat /\ recent \in Nat /\ recent < Len(h) /\ Len(h) > KeepRecent
  BY ConversationAssumption
<1> HIDE DEF recent
<1>2. recent \in D
  BY <1>1 DEF IsCut
<1>3. PICK m \in D : \A k \in D : ~(<<k, m>> \in OpToRel(<, Nat))
  <2>1. D \subseteq Nat /\ D # {}
    BY <1>2
  <2> HIDE DEF D
  <2> QED
    BY <2>1, NatLessThanWellFounded, WFMin
<1>4. recent - m \in 0 .. recent /\ IsCut(h, recent - m)
  BY <1>1
<1>5. ASSUME NEW k \in recent - m + 1 .. recent PROVE ~IsCut(h, k)
  <2>1. recent - k \in Nat /\ recent - k < m /\ recent - (recent - k) = k
    BY <1>1, <1>5
  <2>2. recent - k \notin D
    BY <1>3, <2>1 DEF OpToRel
  <2> QED
    BY <1>1, <2>1, <2>2
<1>6. SplitPoint(h) = CHOOSE n \in 0 .. recent :
                        IsCut(h, n) /\ \A k \in n + 1 .. recent : ~IsCut(h, k)
  BY <1>1 DEF SplitPoint, IsCut, recent
<1>7. SplitPoint(h) \in 0 .. recent /\ IsCut(h, SplitPoint(h))
  BY <1>4, <1>5, <1>6
<1> QED
  BY <1>1, <1>7

(* The rest of a history behind such a place.                              *)
LEMMA CutGroups ==
  ASSUME NEW h \in Seq(Msgs), NEW n \in 0 .. Len(h), NEW a \in 1 .. Len(h) - n
  PROVE  LET s == SubSeq(h, n + 1, Len(h))
         IN  /\ Calls(s, a) <=> Calls(h, n + a)
             /\ s[a] = h[n + a] /\ n + a \in DOMAIN h /\ a \in DOMAIN s
             /\ \A c \in Nat : Results(s, a, c) <=> Results(h, n + a, c)
             /\ Calls(s, a) => (Complete(s, a) <=> Complete(h, n + a))
<1> DEFINE s == SubSeq(h, n + 1, Len(h))
<1>1. /\ s \in Seq(Msgs) /\ Len(h) \in Nat /\ Len(s) = Len(h) - n
      /\ DOMAIN s = 1 .. Len(h) - n /\ DOMAIN h = 1 .. Len(h)
      /\ \A i \in 1 .. Len(h) - n : s[i] = h[n + i]
  BY CutPositions
<1> HIDE DEF s
<1>2. s[a] = h[n + a] /\ n + a \in DOMAIN h /\ a \in DOMAIN s
  BY <1>1
<1>3. Calls(s, a) <=> Calls(h, n + a)
  BY <1>2 DEF Calls
<1>4. ASSUME NEW c \in Nat PROVE Results(s, a, c) <=> Results(h, n + a, c)
  <2>1. ASSUME NEW k \in 1 .. c
        PROVE  /\ a + k \in DOMAIN s <=> (n + a) + k \in DOMAIN h
               /\ a + k \in DOMAIN s => s[a + k] = h[(n + a) + k]
    <3>1. a + k \in Nat /\ a + k >= 1 /\ n + (a + k) = (n + a) + k
      OBVIOUS
    <3>2. a + k \in DOMAIN s <=> (n + a) + k \in DOMAIN h
      BY <1>1, <3>1
    <3>3. a + k \in DOMAIN s => s[a + k] = h[n + (a + k)]
      BY <1>1
    <3> QED
      BY <3>1, <3>2, <3>3
  <2> QED
    BY <1>2, <2>1 DEF Results
<1>5. Calls(s, a) => (Complete(s, a) <=> Complete(h, n + a))
  <2> SUFFICES ASSUME Calls(s, a) PROVE Complete(s, a) <=> Complete(h, n + a)
    OBVIOUS
  <2>1. s[a].calls \in Nat
    BY <1>1, OfGroup
  <2> QED
    BY <1>2, <1>4, <2>1 DEF Complete
<1> QED
  BY <1>2, <1>3, <1>4, <1>5 DEF s

(* What a sound history has after such a cut is sound.                     *)
LEMMA CutSound ==
  ASSUME NEW h \in Seq(Msgs), Sound(h), NEW n \in 0 .. Len(h) - 1, IsCut(h, n)
  PROVE  Sound(SubSeq(h, n + 1, Len(h)))
<1> DEFINE s == SubSeq(h, n + 1, Len(h))
<1>1. /\ s \in Seq(Msgs) /\ Len(h) \in Nat /\ DOMAIN s = 1 .. Len(h) - n
      /\ DOMAIN h = 1 .. Len(h) /\ n \in 0 .. Len(h)
  BY CutPositions
<1>2. \A a \in 1 .. Len(h) - n :
        /\ Calls(s, a) <=> Calls(h, n + a)
        /\ s[a] = h[n + a] /\ n + a \in DOMAIN h
        /\ \A c \in Nat : Results(s, a, c) <=> Results(h, n + a, c)
  BY <1>1, CutGroups
<1> HIDE DEF s
<1>3. ASSUME NEW i \in DOMAIN s, s[i].role = "result"
      PROVE  \E a \in 1 .. i - 1 : Calls(s, a) /\ i - a <= s[a].calls /\ Results(s, a, i - a)
  <2>1. PICK q \in DOMAIN h : q = n + i /\ h[q].role = "result"
    BY <1>1, <1>2, <1>3
  <2>2. PICK a \in 1 .. q - 1 : Calls(h, a) /\ q - a <= h[a].calls /\ Results(h, a, q - a)
    BY <2>1 DEF Sound
  <2>3. a > n
    <3> SUFFICES ASSUME a <= n PROVE FALSE
      BY <1>1, <2>2
    <3>1. n + 1 - a \in 1 .. q - a /\ a + (n + 1 - a) = n + 1
      BY <1>1, <1>3, <2>1, <2>2
    <3>2. h[n + 1] = ToolResult(<<h[a].run, h[a].iter, n + 1 - a>>)
      BY <2>2, <3>1 DEF Results
    <3> QED
      BY <3>2, Resulting DEF IsCut
  <2>4. a - n \in 1 .. i - 1 /\ n + (a - n) = a /\ i - (a - n) = q - a /\ q - a \in Nat
        /\ a - n \in 1 .. Len(h) - n
    BY <1>1, <1>3, <2>1, <2>2, <2>3
  <2>5. Calls(s, a - n) /\ s[a - n] = h[a] /\ Results(s, a - n, i - (a - n))
    BY <1>2, <2>2, <2>4
  <2> QED
    BY <2>2, <2>4, <2>5
<1>4. ASSUME NEW a \in DOMAIN s, NEW b \in DOMAIN s, Calls(s, a), Calls(s, b),
             s[a].run = s[b].run, s[a].iter = s[b].iter
      PROVE  a = b
  <2>1. n + a = n + b
    BY <1>1, <1>2, <1>4 DEF Sound
  <2> QED
    BY <1>1, <2>1
<1> QED
  BY <1>3, <1>4 DEF Sound, s

(* What it has after such a cut is still a history at its turn.            *)
LEMMA CutAtTurn ==
  ASSUME NEW h \in Seq(Msgs), NEW t, TurnOK(t), AtTurn(h, t),
         NEW n \in 0 .. Len(h) - 1, IsCut(h, n)
  PROVE  AtTurn(SubSeq(h, n + 1, Len(h)), t)
<1> DEFINE s == SubSeq(h, n + 1, Len(h))
<1>1. /\ s \in Seq(Msgs) /\ Len(h) \in Nat /\ DOMAIN s = 1 .. Len(h) - n
      /\ Len(s) = Len(h) - n /\ DOMAIN h = 1 .. Len(h) /\ n \in 0 .. Len(h)
  BY CutPositions
<1>2. \A a \in 1 .. Len(h) - n :
        /\ Calls(s, a) <=> Calls(h, n + a)
        /\ s[a] = h[n + a] /\ n + a \in DOMAIN h
        /\ \A c \in Nat : Results(s, a, c) <=> Results(h, n + a, c)
        /\ Calls(s, a) => (Complete(s, a) <=> Complete(h, n + a))
  BY <1>1, CutGroups
<1>3. Sound(s)
  BY CutSound DEF AtTurn
<1> HIDE DEF s
<1>4. BrokenLast(s)
  <2>1. ASSUME NEW a \in DOMAIN s, NEW b \in DOMAIN s, Calls(s, a), Calls(s, b), a < b,
               Complete(s, b)
        PROVE  Complete(s, a)
    <3>1. n + a < n + b
      BY <1>1, <2>1
    <3> QED
      BY <1>1, <1>2, <2>1, <3>1 DEF AtTurn, BrokenLast
  <2> QED
    BY <2>1 DEF BrokenLast
<1>5. ASSUME Ready(t) PROVE Closed(s)
  <2>1. Closed(h)
    BY <1>5 DEF AtTurn
  <2> QED
    BY <1>1, <1>2, <1>3, <2>1 DEF Closed
<1>6. ASSUME t.pending > 0 PROVE Open(s, t.run, t.iter, t.calls - t.pending, t.calls)
  <2> DEFINE p == t.calls - t.pending
  <2>1. Open(h, t.run, t.iter, p, t.calls) /\ t.run \in Runs /\ t.iter \in Nat
    BY <1>6 DEF AtTurn, TurnOK, TurnState
  <2> HIDE DEF p
  <2>2. /\ p \in Nat /\ t.calls \in Nat /\ p <= t.calls /\ p < Len(h)
        /\ Calls(h, Len(h) - p) /\ Len(h) - p \in 1 .. Len(h)
        /\ \A k \in 1 .. p : h[Len(h) - p + k] = ToolResult(<<t.run, t.iter, k>>)
    BY <2>1, OpenGroup
  <2>3. Len(h) - p > n
    <3> SUFFICES ASSUME Len(h) - p <= n PROVE FALSE
      BY <1>1, <2>2
    <3>1. PICK q \in 1 .. Len(h) : q = Len(h) - p
      BY <2>2
    <3>2. q <= n /\ n # 0 /\ n + 1 <= q + p
      BY <1>1, <2>2, <3>1
    <3>3. PICK k \in 1 .. p : k = n + 1 - q
      BY <1>1, <2>2, <3>2
    <3>4. q + k = n + 1
      BY <1>1, <3>3
    <3>5. h[n + 1] = ToolResult(<<t.run, t.iter, k>>)
      BY <2>2, <3>1, <3>4
    <3>6. h[n + 1].role = "result"
      BY <3>5, Resulting
    <3> QED
      BY <3>2, <3>6 DEF IsCut
  <2>4. PICK a \in 1 .. Len(h) - n : a = Len(s) - p /\ n + a = Len(h) - p
    <3>1. PICK w \in Nat, v \in Nat : w = Len(h) /\ v = Len(s) /\ v = w - n
      BY <1>1
    <3>2. w - p > n /\ p \in Nat /\ n \in Nat
      BY <1>1, <2>2, <2>3, <3>1
    <3>3. v - p \in 1 .. w - n /\ n + (v - p) = w - p
      BY <3>1, <3>2
    <3> QED
      BY <3>1, <3>3
  <2>5. s[a] = Assistant(t.run, t.iter, t.calls) /\ Results(s, a, p) /\ a \in DOMAIN s
    BY <1>1, <1>2, <2>1, <2>2, <2>4 DEF Open
  <2>6. ASSUME NEW b \in DOMAIN s, Calls(s, b), b # a PROVE Complete(s, b)
    <3>1. n + b # Len(h) - p
      BY <1>1, <2>4, <2>6
    <3> QED
      BY <1>1, <1>2, <2>1, <2>6, <3>1 DEF Open
  <2>7. Open(s, t.run, t.iter, p, t.calls)
    BY <1>3, <2>2, <2>4, <2>5, <2>6 DEF Open
  <2> QED
    BY <2>7 DEF p
<1>7. ASSUME NEW a \in DOMAIN s, Calls(s, a)
      PROVE  s[a].run <= t.run /\ (Fresh(t) => s[a].run # t.run)
  BY <1>1, <1>2, <1>7 DEF AtTurn
<1> QED
  BY <1>3, <1>4, <1>5, <1>6, <1>7 DEF AtTurn, s

-----------------------------------------------------------------------------
(* What the messages of a run make of a history, and what its steps do.    *)

(* Whatever a disturbed summary left in it, the repair of a table makes    *)
(* messages of messages.                                                   *)
LEMMA SanitizedMessages ==
  ASSUME NEW h \in Seq(Msgs)
  PROVE  Sanitize(h) \in Seq(Msgs)
<1>1. PICK s \in Seq(Msgs) : s = RetainKnown(h)
  BY Retained DEF RetainKnown
<1>2. RetainAnswered(s) \in Seq(Msgs)
  BY Retained DEF RetainAnswered
<1>3. Sanitize(h) = RetainAnswered(RetainKnown(h))
  <2> DEFINE f == [known \in {RetainKnown(h)} |-> RetainAnswered(known)]
  <2>1. f[RetainKnown(h)] = RetainAnswered(RetainKnown(h))
    OBVIOUS
  <2>2. Sanitize(h) = f[RetainKnown(h)]
    BY DEF Sanitize
  <2> QED
    BY <2>1, <2>2
<1> QED
  BY <1>1, <1>2, <1>3

(* The next run loads a history and repairs it.                            *)
LEMMA LoadedAt ==
  ASSUME NEW h \in Seq(Msgs), NEW t, TurnOK(t), AtTurn(h, t),
         NEW u, TurnOK(u), u.run = t.run + 1, u.iter = 0, u.pending = 0
  PROVE  /\ Sanitize(h) \in Seq(Msgs) /\ Closed(Sanitize(h)) /\ AtTurn(Sanitize(h), u)
         /\ u.at = "clear" \/ Len(Sanitize(h)) = Len(h) => AtTurn(h, u)
<1>1. t.run \in Nat
  BY DEF TurnOK, TurnState
<1>2. PICK s \in Seq(Msgs) :
        /\ s = Sanitize(h) /\ Closed(s)
        /\ Len(s) = Len(h) => Closed(h)
        /\ \A j \in DOMAIN s : \E i \in DOMAIN h : h[i] = s[j]
  BY Sanitized DEF AtTurn
<1>3. Sound(s) /\ BrokenLast(s)
  BY <1>2, ClosedBroken
<1>4. ASSUME NEW a \in DOMAIN h, Calls(h, a) PROVE h[a].run <= u.run /\ h[a].run # u.run
  <2>1. h[a].run \in Nat
    BY <1>4, OfGroup, ConversationAssumption
  <2>2. h[a].run <= t.run
    BY <1>4 DEF AtTurn
  <2> QED
    BY <1>1, <2>1, <2>2
<1>5. ASSUME NEW a \in DOMAIN s, Calls(s, a) PROVE s[a].run <= u.run /\ s[a].run # u.run
  <2>1. PICK i \in DOMAIN h : h[i] = s[a]
    BY <1>2
  <2> QED
    BY <1>4, <1>5, <2>1 DEF Calls
<1>6. AtTurn(s, u)
  BY <1>2, <1>3, <1>5 DEF AtTurn
<1>7. ASSUME u.at = "clear" \/ Len(s) = Len(h) PROVE AtTurn(h, u)
  BY <1>2, <1>4, <1>7 DEF AtTurn, Ready
<1> QED
  BY <1>2, <1>6, <1>7

(* Before its first call a run has the same history from step to step.     *)
LEMMA GoesOnAt ==
  ASSUME NEW h, NEW t, TurnOK(t), AtTurn(h, t), Closed(h), Fresh(t),
         NEW u, TurnOK(u), u.run = t.run, u.pending = 0
  PROVE  AtTurn(h, u)
BY DEF AtTurn, Fresh

(* The user's message.                                                     *)
LEMMA UserAt ==
  ASSUME NEW h \in Seq(Msgs), NEW t, TurnOK(t), AtTurn(h, t), t.at = "store",
         NEW u, u = [t EXCEPT !.at = "busy"]
  PROVE  /\ TurnOK(u) /\ User(t.run) \in Msgs
         /\ AtTurn(Append(h, User(t.run)), u)
<1> DEFINE m == User(t.run)
           g == Append(h, m)
<1>1. t \in TurnState /\ t.iter = 0 /\ t.pending \in Nat /\ t.back = <<>> /\ t.run \in Runs
  BY DEF TurnOK, TurnState
<1>2. t.pending = 0 /\ t.pending <= t.calls
  BY <1>1 DEF TurnOK
<1>3. /\ u \in TurnState /\ u.at = "busy" /\ u.run = t.run /\ u.iter = 0 /\ u.pending = 0
      /\ u.calls = t.calls /\ u.back = <<>>
  BY <1>1, <1>2 DEF TurnState
<1>4. TurnOK(u)
  BY <1>1, <1>2, <1>3 DEF TurnOK
<1>5. m \in Msgs /\ m.role = "user"
  BY <1>1, Made
<1>6. Closed(h) /\ \A a \in DOMAIN h : Calls(h, a) => h[a].run <= t.run /\ h[a].run # t.run
  BY <1>1, <1>2 DEF AtTurn, Ready, Fresh
<1> HIDE DEF m
<1>7. g \in Seq(Msgs) /\ Closed(g)
  BY <1>5, <1>6, Appended, PlainAppended
<1>8. Sound(g) /\ BrokenLast(g)
  BY <1>7, ClosedBroken
<1>9. ASSUME NEW a \in DOMAIN g, Calls(g, a) PROVE g[a].run <= u.run /\ g[a].run # u.run
  <2>1. a \in DOMAIN h /\ g[a] = h[a]
    BY <1>5, <1>9, Appended DEF Calls
  <2> QED
    BY <1>3, <1>6, <1>9, <2>1 DEF Calls
<1> HIDE DEF g
<1>10. AtTurn(g, u)
  BY <1>3, <1>7, <1>8, <1>9 DEF AtTurn
<1> QED
  BY <1>4, <1>5, <1>10 DEF m, g

(* The model calls tools.                                                  *)
Called(t, n) == [t EXCEPT !.calls = n, !.pending = n]

(* A message with calls opens its group at the end of the history.         *)
LEMMA CallsAt ==
  ASSUME NEW h \in Seq(Msgs), NEW t, TurnOK(t), AtTurn(h, t),
         t.at = "busy", t.pending = 0, t.iter = 0, NEW n \in 1 .. MaxCalls,
         NEW u, u = Called(t, n)
  PROVE  /\ TurnOK(u) /\ Assistant(t.run, t.iter, n) \in Msgs
         /\ AtTurn(Append(h, Assistant(t.run, t.iter, n)), u)
<1> DEFINE m == Assistant(t.run, t.iter, n)
<1>1. n \in Nat /\ n > 0 /\ n - n = 0 /\ n <= n
  BY ConversationAssumption
<1>2. /\ u \in TurnState /\ u.at = "busy" /\ u.run = t.run /\ u.iter = t.iter
      /\ u.calls = n /\ u.pending = n
  BY <1>1 DEF TurnOK, TurnState, Called
<1>3. t.run \in Runs /\ t.run \in Nat /\ t.iter \in Nat
  BY DEF TurnOK, TurnState
<1>4. m \in Msgs /\ m.role = "assistant" /\ m.run = t.run
  <2>1. \A i, c \in Nat :
          /\ Assistant(t.run, i, c) \in Msgs /\ Assistant(t.run, i, c).role = "assistant"
          /\ Assistant(t.run, i, c).run = t.run
    BY <1>3, Made
  <2> QED
    BY <1>1, <1>3, <2>1
<1>5. Open(Append(h, m), t.run, t.iter, 0, n)
  <2>1. Closed(h) /\ \A a \in DOMAIN h : Calls(h, a) => h[a].run # t.run
    BY DEF AtTurn, Ready, Fresh
  <2> QED
    BY <1>1, <1>3, <2>1, GroupOpened
<1> HIDE DEF m
<1>6. Append(h, m) \in Seq(Msgs) /\ h \in Seq(Msgs)
  BY <1>4
<1>7. Sound(Append(h, m)) /\ BrokenLast(Append(h, m))
  BY <1>1, <1>3, <1>5, <1>6, OpenBroken
<1>8. ASSUME NEW a \in DOMAIN Append(h, m), Calls(Append(h, m), a)
      PROVE  Append(h, m)[a].run <= u.run
  <2>1. CASE a \in DOMAIN h
    <3>1. Append(h, m)[a] = h[a] /\ Calls(h, a)
      BY <1>4, <1>8, <2>1, GroupsKept
    <3> QED
      BY <1>2, <2>1, <3>1 DEF AtTurn
  <2>2. CASE a \notin DOMAIN h
    <3>1. Append(h, m)[a] = m
      BY <1>4, <1>8, <2>2, Appended
    <3> QED
      BY <1>2, <1>3, <1>4, <3>1
  <2> QED
    BY <2>1, <2>2
<1>9. AtTurn(Append(h, m), u)
  BY <1>1, <1>2, <1>5, <1>7, <1>8 DEF AtTurn, Ready, Fresh
<1>10. TurnOK(u)
  <2>1. u.back = t.back /\ t.back = <<>>
    BY DEF Called, TurnOK, TurnState
  <2> QED
    BY <1>1, <1>2, <1>3, <2>1 DEF TurnOK
<1> QED
  BY <1>4, <1>9, <1>10 DEF m

(* A result is stored.                                                     *)
LEMMA ResultAt ==
  ASSUME NEW h \in Seq(Msgs), NEW t, TurnOK(t), AtTurn(h, t), t.pending > 0,
         NEW u, u = [t EXCEPT !.pending = @ - 1,
                              !.iter = IF t.pending = 1 THEN @ + 1 ELSE @],
         NEW m, m = ToolResult(<<t.run, t.iter, t.calls - t.pending + 1>>)
  PROVE  TurnOK(u) /\ m \in Msgs /\ AtTurn(Append(h, m), u)
<1> DEFINE n == t.calls - t.pending
           g == Append(h, m)
<1>1. /\ t.at = "busy" /\ t.run \in Runs /\ t.run \in Nat /\ t.iter \in Nat
      /\ t.calls \in Nat /\ t.pending \in Nat /\ t.pending <= t.calls
  BY DEF TurnOK, TurnState
<1>2. /\ u \in TurnState /\ u.at = "busy" /\ u.run = t.run
      /\ u.calls = t.calls /\ u.pending = t.pending - 1
      /\ t.pending = 1 => u.iter = t.iter + 1
      /\ t.pending # 1 => u.iter = t.iter
      /\ u.back = <<>>
  <2>1. t \in TurnState /\ t.pending - 1 \in Nat /\ t.iter + 1 \in Nat /\ t.back = <<>>
    BY <1>1 DEF TurnOK
  <2>2. CASE t.pending = 1
    BY <1>1, <2>1, <2>2 DEF TurnState
  <2>3. CASE t.pending # 1
    BY <1>1, <2>1, <2>3 DEF TurnState
  <2> QED
    BY <2>2, <2>3
<1>3. n \in Nat /\ n < t.calls /\ u.calls - u.pending = n + 1 /\ u.pending <= u.calls
  BY <1>1, <1>2
<1>4. m \in Msgs /\ m.role = "result"
  <2>1. <<t.run, t.iter, n + 1>> \in Ids
    BY <1>1, <1>3 DEF Ids
  <2> QED
    BY <2>1, Resulting
<1>5. Open(g, t.run, t.iter, n + 1, t.calls)
  <2>1. Open(h, t.run, t.iter, n, t.calls)
    BY DEF AtTurn
  <2> HIDE DEF n
  <2>2. Open(Append(h, ToolResult(<<t.run, t.iter, n + 1>>)), t.run, t.iter, n + 1, t.calls)
    BY <1>1, <1>3, <2>1, GroupGrows
  <2> QED
    BY <2>2 DEF n
<1> HIDE DEF n, g
<1>6. g \in Seq(Msgs)
  BY <1>4 DEF g
<1>7. Sound(g) /\ BrokenLast(g)
  BY <1>1, <1>5, <1>6, OpenBroken
<1>8. ASSUME u.pending = 0 PROVE Closed(g) /\ u.iter # 0
  <2>1. t.pending = 1 /\ n + 1 = t.calls
    BY <1>1, <1>2, <1>3, <1>8
  <2> QED
    BY <1>1, <1>2, <1>5, <1>6, <2>1, GroupDone
<1>9. ASSUME u.pending > 0
      PROVE  Open(g, u.run, u.iter, u.calls - u.pending, u.calls)
  <2>1. u.iter = t.iter
    BY <1>1, <1>2, <1>9
  <2> QED
    BY <1>2, <1>3, <1>5, <2>1
<1>10. ASSUME NEW a \in DOMAIN g, Calls(g, a) PROVE g[a].run <= u.run
  <2>1. a \in DOMAIN h
    BY <1>4, <1>10, Appended DEF Calls, g
  <2>2. g[a] = h[a] /\ Calls(h, a)
    BY <1>4, <1>10, <2>1, GroupsKept DEF g
  <2> QED
    BY <1>2, <2>1, <2>2 DEF AtTurn
<1>11. AtTurn(g, u)
  BY <1>7, <1>8, <1>9, <1>10 DEF AtTurn, Ready, Fresh
<1>12. TurnOK(u)
  BY <1>1, <1>2, <1>3 DEF TurnOK
<1> QED
  BY <1>4, <1>11, <1>12 DEF g

(* The model's last word.                                                  *)
LEMMA FinalAt ==
  ASSUME NEW h \in Seq(Msgs), NEW t, TurnOK(t), AtTurn(h, t), t.at = "busy", t.pending = 0,
         NEW u, u = [t EXCEPT !.at = "free"]
  PROVE  /\ TurnOK(u) /\ Final(t.run) \in Msgs
         /\ AtTurn(h, u) /\ AtTurn(Append(h, Final(t.run)), u)
<1> DEFINE m == Final(t.run)
           g == Append(h, m)
<1>1. /\ u \in TurnState /\ u.at = "free" /\ u.pending = 0 /\ u.run = t.run
      /\ u.calls = t.calls /\ u.pending <= u.calls /\ t.run \in Runs /\ u.back = <<>>
  BY DEF TurnOK, TurnState
<1>2. m \in Msgs /\ m.role = "final"
  BY <1>1, Made
<1> HIDE DEF m
<1>3. g \in Seq(Msgs) /\ Closed(g)
  BY <1>2, PlainAppended DEF AtTurn, Ready
<1>4. Sound(g) /\ BrokenLast(g)
  BY <1>3, ClosedBroken
<1> HIDE DEF g
<1>5. ASSUME NEW a \in DOMAIN g, Calls(g, a) PROVE g[a].run <= u.run
  <2>1. a \in DOMAIN h
    BY <1>2, <1>5, Appended DEF Calls, g
  <2>2. g[a] = h[a] /\ Calls(h, a)
    BY <1>2, <1>5, <2>1, GroupsKept DEF g
  <2> QED
    BY <1>1, <2>1, <2>2 DEF AtTurn
<1>6. AtTurn(g, u)
  BY <1>1, <1>4, <1>5 DEF AtTurn, Ready, Fresh
<1>7. AtTurn(h, u)
  BY <1>1 DEF AtTurn, Ready, Fresh
<1> QED
  BY <1>1, <1>2, <1>6, <1>7 DEF TurnOK, m, g

(* A run that is cut short leaves what a history was, but no run.          *)
LEMMA CutShortAt ==
  ASSUME NEW t, TurnOK(t)
  PROVE  /\ TurnOK(CutShort(t)) /\ CutShort(t).at = "free" /\ CutShort(t).back = <<>>
         /\ \A h : AtTurn(h, t) => AtTurn(h, CutShort(t))
<1> DEFINE u == CutShort(t)
<1>1. t \in TurnState /\ t.calls \in Nat /\ <<>> \in Seq(Msgs)
  BY DEF TurnOK, TurnState
<1>2. /\ u \in TurnState /\ u.at = "free" /\ u.pending = 0 /\ u.run = t.run
      /\ u.calls = t.calls /\ u.back = <<>>
  BY <1>1 DEF TurnState, CutShort
<1> HIDE DEF u
<1>3. TurnOK(u)
  BY <1>1, <1>2 DEF TurnOK
<1>4. ASSUME NEW h, AtTurn(h, t) PROVE AtTurn(h, u)
  BY <1>2, <1>4 DEF AtTurn, Ready, Fresh
<1> QED
  BY <1>2, <1>3, <1>4 DEF u

-----------------------------------------------------------------------------
(* Steps.  First what several of them have in common.                      *)

(* The step of one summarization.                                          *)
Stepped(q, j, s) == [q EXCEPT ![j].at = s]
Replaced(q, j, x) == [q EXCEPT ![j] = x]

(* A job that goes one step on keeps the rest, and the others keep theirs. *)
LEMMA JobSet ==
  ASSUME NEW q \in [Jobs -> JobState], NEW j \in Jobs, NEW s \in JobSteps,
         NEW u, u = Stepped(q, j, s)
  PROVE  /\ u \in [Jobs -> JobState]
         /\ u[j].at = s /\ u[j].keep = q[j].keep
         /\ u[j].covers = q[j].covers /\ u[j].cut = q[j].cut /\ u[j].facts = q[j].facts
         /\ \A k \in Jobs : k # j => u[k] = q[k]
<1>1. q[j] \in JobState /\ \A k \in Jobs : q[k] \in JobState
  OBVIOUS
<1>2. u = [k \in Jobs |-> IF k = j THEN [q[j] EXCEPT !.at = s] ELSE q[k]]
  BY DEF Stepped
<1> DEFINE x == [q[j] EXCEPT !.at = s]
<1>3. /\ x \in JobState /\ x.at = s /\ x.keep = q[j].keep
      /\ x.covers = q[j].covers /\ x.cut = q[j].cut /\ x.facts = q[j].facts
  BY <1>1 DEF JobState
<1> HIDE DEF x
<1>4. u = [k \in Jobs |-> IF k = j THEN x ELSE q[k]]
  BY <1>2 DEF x
<1> QED
  BY <1>1, <1>3, <1>4

(* A job's new place is its own, and the others keep theirs.               *)
LEMMA JobReplaced ==
  ASSUME NEW q \in [Jobs -> JobState], NEW j \in Jobs, NEW x \in JobState,
         NEW u, u = Replaced(q, j, x)
  PROVE  /\ u \in [Jobs -> JobState] /\ u[j] = x
         /\ \A k \in Jobs : k # j => u[k] = q[k]
BY DEF Replaced

FactsJob == [NoJob EXCEPT !.at = "facts"]

(* A job that is idle, and one about to read the facts.                    *)
LEMMA NoJobIsOne ==
  /\ NoJob \in JobState /\ NoJob.at = "idle"
  /\ FactsJob \in JobState /\ FactsJob.at = "facts"
<1>1. <<>> \in Seq(Msgs) /\ {} \in SUBSET Msgs /\ {} \in SUBSET Runs
  OBVIOUS
<1> QED
  BY <1>1 DEF NoJob, FactsJob, JobState, JobSteps

(* An empty history is one at any turn without a call.                     *)
LEMMA EmptyAt ==
  ASSUME NEW t, TurnOK(t), t.pending = 0
  PROVE  AtTurn(<<>>, t)
<1>1. DOMAIN <<>> = {}
  OBVIOUS
<1>2. t.pending \in Nat /\ ~(t.pending > 0)
  OBVIOUS
<1> QED
  BY <1>1, <1>2 DEF AtTurn, Sound, BrokenLast, Closed

(* Nobody consolidates anew, and the facts stay.                           *)
LEMMA FactsStay ==
  ASSUME stale \/ FactsKept, facts' = facts, learned' = learned, stale => stale',
         \A k \in Jobs : job'[k].at = "condense" =>
           job[k].at = "condense" /\ job'[k].facts = job[k].facts
  PROVE  (stale \/ FactsKept)'
BY DEF FactsKept

(* Nobody summarizes or repairs: the table alone, with the summary, has    *)
(* everything.                                                             *)
LEMMA TableAlone ==
  ASSUME ~Overlaps', turn'.at \notin {"clear", "again"},
         turn'.at # "free" => AtTurn(prompt', turn'), AtTurn(table', turn'),
         \A m \in ever' : Stands(m)'
  PROVE  Undisturbed'
<1>1. \A j \in Jobs : job'[j].at \notin {"asked", "write", "clear", "restore"}
  BY DEF Overlaps, Summarizing
<1>2. OneJob'
  BY <1>1 DEF OneJob, Summarizing
<1>3. HistoriesOK'
  BY <1>1 DEF HistoriesOK, HasCut
<1>4. CoversOK'
  BY <1>1 DEF CoversOK
<1>5. EverKept' /\ RepairOK'
  BY DEF EverKept, RepairOK
<1> QED
  BY <1>2, <1>3, <1>4, <1>5 DEF Undisturbed

(* While nobody summarizes or adds messages again the table is a history,  *)
(* and nothing is lost.                                                    *)
LEMMA TableWhole ==
  ASSUME Undisturbed, ~Overlaps
  PROVE  /\ turn.at # "again" => AtTurn(table, turn) /\ \A m \in ever : Stands(m)
         /\ turn.at # "free" => AtTurn(prompt, turn)
         /\ \A m \in ever : Stands(m) \/ Again(m)
<1>1. \A j \in Jobs : job[j].at \notin {"asked", "write", "clear", "restore"}
  BY DEF Overlaps, Summarizing
<1> QED
  BY <1>1 DEF Undisturbed, HistoriesOK, EverKept, Back, Again

(* A message of the run, whatever the run's turn comes to.                 *)
LEMMA SaysKeeps ==
  ASSUME MemoryInv, turn.at = "busy", NEW m \in Msgs, Says(m), TurnOK(turn'),
         turn'.at \in {"free", "busy"},
         AtTurn(prompt, turn) => AtTurn(prompt', turn'),
         AtTurn(table, turn) => AtTurn(table', turn'),
         job' \in [Jobs -> JobState],
         \A k \in Jobs : /\ Summarizing(k)' => Summarizing(k)
                         /\ job'[k].at = "condense" => job'[k] = job[k]
  PROVE  MemoryInv'
<1>1. /\ table' = Append(table, m) /\ prompt' = Append(prompt, m) /\ ever' = ever \cup {m}
      /\ upset' = (upset \/ Overlaps) /\ summary' = summary /\ unread' = unread
      /\ facts' = facts /\ learned' = learned /\ stale' = stale
  BY DEF Says, RunStep, Add, factVars, summaryVars
<1>2. MemoryTypes'
  BY <1>1 DEF MemoryInv, MemoryTypes
<1>3. (stale \/ FactsKept)'
  BY <1>1, FactsStay DEF MemoryInv
<1>4. ASSUME ~upset' PROVE Undisturbed'
  <2>1. ~Overlaps /\ Undisturbed
    BY <1>1, <1>4 DEF MemoryInv
  <2>2. ~Overlaps'
    BY <2>1 DEF Overlaps
  <2>3. Range(table') = Range(table) \cup {m}
    BY <1>1, AppendHas DEF MemoryInv, MemoryTypes
  <2>4. AtTurn(table, turn) /\ AtTurn(prompt, turn) /\ \A x \in ever : Stands(x)
    BY <2>1, TableWhole
  <2>5. \A x \in ever' : Stands(x)'
    BY <1>1, <2>3, <2>4 DEF Stands
  <2> QED
    BY <2>2, <2>4, <2>5, TableAlone
<1> QED
  BY <1>2, <1>3, <1>4 DEF MemoryInv

(* A history is loaded and repaired.                                       *)
LEMMA LoadHistoryStep ==
  ASSUME MemoryInv, LoadHistory
  PROVE  MemoryInv'
<1> DEFINE h == Sanitize(table)
           new == [NoTurn EXCEPT !.run = turn.run + 1]
<1>1. /\ turn.at = "free" /\ turn.run + 1 \in Runs /\ prompt' = h
      /\ turn' = IF Len(h) # Len(table) THEN [new EXCEPT !.at = "clear", !.back = h]
                                        ELSE [new EXCEPT !.at = "store"]
      /\ upset' = (upset \/ Overlaps)
      /\ UNCHANGED <<table, ever, summary, unread, job, facts, learned, stale>>
  BY DEF LoadHistory, RunStep, tableVars, summaryVars, factVars
<1>2. (stale \/ FactsKept)'
  BY <1>1, FactsStay DEF MemoryInv
<1>3. TurnOK(turn) /\ table \in Seq(Msgs)
  BY DEF MemoryInv, MemoryTypes
<1>4. h \in Seq(Msgs)
  BY <1>3, SanitizedMessages
<1> HIDE DEF h
<1>5. /\ turn'.run = turn.run + 1 /\ turn'.iter = 0 /\ turn'.calls = 0 /\ turn'.pending = 0
      /\ \/ turn'.at = "clear" /\ turn'.back = h
         \/ turn'.at = "store" /\ turn'.back = <<>> /\ Len(h) = Len(table)
  BY <1>1 DEF NoTurn
<1>6. TurnOK(turn')
  <2>1. turn.run + 1 \in Nat
    BY <1>1, ConversationAssumption
  <2>2. turn' \in TurnState
    <3>1. <<>> \in Seq(Msgs)
      OBVIOUS
    <3> QED
      BY <1>1, <1>4, <2>1, <3>1 DEF TurnState, NoTurn
  <2> QED
    BY <1>1, <1>5, <2>2 DEF TurnOK
<1>7. ASSUME ~upset' PROVE Undisturbed'
  <2>1. ~Overlaps /\ Undisturbed
    BY <1>1, <1>7 DEF MemoryInv
  <2>2. AtTurn(table, turn) /\ \A x \in ever : Stands(x)
    BY <1>1, <2>1, TableWhole
  <2>3. /\ Closed(h) /\ AtTurn(h, turn')
        /\ turn'.at = "clear" \/ Len(h) = Len(table) => AtTurn(table, turn')
    BY <1>3, <1>5, <1>6, <2>2, LoadedAt DEF h
  <2>4. AtTurn(table', turn') /\ AtTurn(prompt', turn')
    BY <1>1, <1>5, <2>3
  <2>5. ~Overlaps'
    BY <1>1, <2>1 DEF Overlaps, Summarizing
  <2>6. \A j \in Jobs : job'[j].at \notin {"asked", "write", "clear", "restore"}
    BY <2>5 DEF Overlaps, Summarizing
  <2>7. OneJob' /\ CoversOK'
    BY <2>6 DEF OneJob, Summarizing, CoversOK
  <2>8. HistoriesOK'
    BY <2>4, <2>6 DEF HistoriesOK, HasCut
  <2>9. RepairOK'
    BY <1>1, <1>5, <2>5 DEF RepairOK, h
  <2>10. EverKept'
    BY <1>1, <2>2 DEF EverKept, Stands
  <2> QED
    BY <2>7, <2>8, <2>9, <2>10 DEF Undisturbed
<1>8. MemoryTypes'
  BY <1>1, <1>4, <1>6 DEF MemoryInv, MemoryTypes
<1> QED
  BY <1>2, <1>7, <1>8 DEF MemoryInv

(* What a repair of a sound history drops is dropped for good reason.      *)
LEMMA DroppedWell ==
  ASSUME NEW h \in Seq(Msgs), Sound(h), NEW x \in Range(h), x \notin Dropped(h)
  PROVE  x \in Range(Sanitize(h))
<1> SUFFICES ASSUME x \notin Range(Sanitize(h)) PROVE FALSE
  OBVIOUS
<1>1. x.role = "result" /\ x.of \notin AllCalls(h)
  BY DEF Dropped
<1>2. PICK i \in DOMAIN h : x = h[i]
  BY DEF Range
<1>3. PICK a \in 1 .. i - 1 :
        /\ Calls(h, a) /\ a \in 1 .. Len(h) /\ i - a \in 1 .. h[a].calls
        /\ h[i].of = <<h[a].run, h[a].iter, i - a>>
  BY <1>1, <1>2, OfResult
<1>4. x.of \in CallsOf(h[a])
  BY <1>2, <1>3, OfGroup
<1> QED
  BY <1>1, <1>3, <1>4 DEF AllCalls

(* A run between the steps of its repair, nobody summarizing: what is in   *)
(* the table and what it has yet to add make up the repaired history.      *)
LEMMA RepairGoesOn ==
  ASSUME ~Overlaps', TurnOK(turn'), turn'.at \in {"again", "store"}, AtTurn(prompt', turn'),
         turn'.at = "again" => AtTurn(table' \o turn'.back, turn'),
         turn'.at = "store" => AtTurn(table', turn'),
         \A m \in ever' : Stands(m)' \/ m \in Range(turn'.back)
  PROVE  Undisturbed'
<1>1. CASE turn'.at = "store"
  <2>1. turn'.back = <<>>
    BY <1>1 DEF TurnOK
  <2>2. Range(turn'.back) = {}
    BY <2>1 DEF Range
  <2> QED
    BY <1>1, <2>2, TableAlone
<1>2. CASE turn'.at = "again"
  <2>1. \A j \in Jobs : job'[j].at \notin {"asked", "write", "clear", "restore"}
    BY DEF Overlaps, Summarizing
  <2>2. OneJob' /\ CoversOK'
    BY <2>1 DEF OneJob, Summarizing, CoversOK
  <2>3. HistoriesOK' /\ RepairOK'
    BY <1>2, <2>1 DEF HistoriesOK, HasCut, RepairOK
  <2>4. EverKept'
    BY <1>2 DEF EverKept, Again
  <2> QED
    BY <2>2, <2>3, <2>4 DEF Undisturbed
<1> QED
  BY <1>1, <1>2

(* The table is cleared to take the repaired history.                      *)
LEMMA RepairClearStep ==
  ASSUME MemoryInv, RepairClear
  PROVE  MemoryInv'
<1>1. /\ turn.at = "clear" /\ turn' = [turn EXCEPT !.at = AfterRepair(turn.back)]
      /\ table' = <<>> /\ ever' = ever \ Dropped(table) /\ upset' = (upset \/ Overlaps)
      /\ UNCHANGED <<prompt, summary, unread, job, facts, learned, stale>>
  BY DEF RepairClear, RunStep, summaryVars, factVars
<1>2. (stale \/ FactsKept)'
  BY <1>1, FactsStay DEF MemoryInv
<1>3. TurnOK(turn) /\ table \in Seq(Msgs) /\ turn \in TurnState /\ turn.back \in Seq(Msgs)
  BY DEF MemoryInv, MemoryTypes, TurnOK, TurnState
<1>4. /\ turn' \in TurnState /\ turn'.run = turn.run /\ turn'.iter = turn.iter
      /\ turn'.pending = turn.pending /\ turn'.calls = turn.calls /\ turn'.back = turn.back
      /\ \/ turn'.at = "store" /\ turn.back = <<>>
         \/ turn'.at = "again" /\ turn.back # <<>>
  BY <1>1, <1>3 DEF AfterRepair, TurnState
<1>5. turn.iter = 0 /\ turn.pending = 0 /\ turn.run \in Runs
  BY <1>1, <1>3 DEF TurnOK, TurnState
<1>6. TurnOK(turn')
  BY <1>3, <1>4, <1>5 DEF TurnOK
<1>7. ASSUME ~upset' PROVE Undisturbed'
  <2>1. ~Overlaps /\ Undisturbed
    BY <1>1, <1>7 DEF MemoryInv
  <2>2. AtTurn(table, turn) /\ AtTurn(prompt, turn) /\ \A x \in ever : Stands(x)
    BY <1>1, <2>1, TableWhole
  <2>3. turn.back = prompt /\ prompt = Sanitize(table)
    BY <1>1, <2>1 DEF Undisturbed, RepairOK
  <2>4. Closed(prompt)
    BY <1>3, <2>2, <2>3, Sanitized DEF AtTurn
  <2>5. AtTurn(prompt, turn')
    BY <1>1, <1>3, <1>4, <1>5, <1>6, <2>2, <2>4, GoesOnAt DEF Fresh
  <2>6. <<>> \o turn.back = turn.back
    BY <1>3
  <2>7. turn'.at = "again" => AtTurn(table' \o turn'.back, turn')
    BY <1>1, <1>4, <2>3, <2>5, <2>6
  <2>8. turn'.at = "store" => AtTurn(table', turn')
    BY <1>1, <1>4, <1>5, <1>6, EmptyAt
  <2>9. ~Overlaps'
    BY <1>1, <2>1 DEF Overlaps, Summarizing
  <2>10. ASSUME NEW x \in ever' PROVE Stands(x)' \/ x \in Range(turn'.back)
    <3>1. x \in ever /\ x \notin Dropped(table)
      BY <1>1, <2>10
    <3>2. CASE x \in Range(table)
      <4>1. x \in Range(Sanitize(table))
        BY <1>3, <2>2, <3>1, <3>2, DroppedWell DEF AtTurn
      <4> QED
        BY <1>4, <2>3, <4>1
    <3>3. CASE x \in summary \/ x \in unread
      BY <1>1, <3>3 DEF Stands
    <3> QED
      BY <2>2, <3>1, <3>2, <3>3 DEF Stands
  <2> QED
    BY <1>1, <1>4, <1>6, <2>5, <2>7, <2>8, <2>9, <2>10, RepairGoesOn
<1>8. MemoryTypes'
  <2>1. <<>> \in Seq(Msgs)
    OBVIOUS
  <2> QED
    BY <1>1, <1>6, <2>1 DEF MemoryInv, MemoryTypes
<1> QED
  BY <1>2, <1>7, <1>8 DEF MemoryInv

(* One after the other, the messages of the repaired history come back.    *)
LEMMA AddAgainStep ==
  ASSUME MemoryInv, AddAgain
  PROVE  MemoryInv'
<1> DEFINE b == turn.back
<1>1. /\ turn.at = "again" /\ table' = Append(table, Head(b))
      /\ turn' = [turn EXCEPT !.at = AfterRepair(Tail(b)), !.back = Tail(@)]
      /\ upset' = (upset \/ Overlaps)
      /\ UNCHANGED <<ever, prompt, summary, unread, job, facts, learned, stale>>
  BY DEF AddAgain, RunStep, summaryVars, factVars
<1>2. (stale \/ FactsKept)'
  BY <1>1, FactsStay DEF MemoryInv
<1>3. /\ TurnOK(turn) /\ table \in Seq(Msgs) /\ turn \in TurnState
      /\ b \in Seq(Msgs) /\ b # <<>>
  BY <1>1 DEF MemoryInv, MemoryTypes, TurnOK, TurnState
<1>4. Head(b) \in Msgs /\ Tail(b) \in Seq(Msgs) /\ Range(b) \subseteq {Head(b)} \cup Range(Tail(b))
  BY <1>3, HeadHas
<1>5. /\ turn' \in TurnState /\ turn'.run = turn.run /\ turn'.iter = turn.iter
      /\ turn'.pending = turn.pending /\ turn'.calls = turn.calls /\ turn'.back = Tail(b)
      /\ \/ turn'.at = "store" /\ Tail(b) = <<>>
         \/ turn'.at = "again" /\ Tail(b) # <<>>
  <2>1. turn' = [[turn EXCEPT !.at = AfterRepair(Tail(b))] EXCEPT !.back = Tail(b)]
    BY <1>1, <1>3 DEF TurnState
  <2> QED
    BY <1>3, <1>4, <2>1 DEF AfterRepair, TurnState
<1>6. turn.iter = 0 /\ turn.pending = 0 /\ turn.run \in Runs
  BY <1>1, <1>3 DEF TurnOK, TurnState
<1>7. TurnOK(turn')
  BY <1>3, <1>5, <1>6 DEF TurnOK
<1>8. table' \in Seq(Msgs)
  BY <1>1, <1>3, <1>4
<1>9. ASSUME ~upset' PROVE Undisturbed'
  <2>1. ~Overlaps /\ Undisturbed
    BY <1>1, <1>9 DEF MemoryInv
  <2>2. AtTurn(prompt, turn) /\ \A x \in ever : Stands(x) \/ Again(x)
    BY <1>1, <2>1, TableWhole
  <2>3. AtTurn(table \o b, turn)
    BY <1>1, <2>1 DEF Undisturbed, RepairOK
  <2>4. Fresh(turn) /\ Closed(prompt) /\ Closed(table \o b)
    BY <1>1, <1>6, <2>2, <2>3 DEF AtTurn, Ready, Fresh
  <2>5. AtTurn(prompt, turn') /\ AtTurn(table \o b, turn')
    BY <1>3, <1>5, <1>6, <1>7, <2>2, <2>3, <2>4, GoesOnAt
  <2>6. table' \o turn'.back = table \o b
    BY <1>1, <1>3, <1>5, HandedOn
  <2>7. turn'.at = "store" => AtTurn(table', turn')
    <3>1. table' \o <<>> = table'
      BY <1>8
    <3> QED
      BY <1>5, <2>5, <2>6, <3>1
  <2>8. ~Overlaps'
    BY <1>1, <2>1 DEF Overlaps, Summarizing
  <2>9. ASSUME NEW x \in ever' PROVE Stands(x)' \/ x \in Range(turn'.back)
    <3>1. Range(table') = Range(table) \cup {Head(b)}
      BY <1>1, <1>3, <1>4, AppendHas
    <3>2. Stands(x) \/ x \in Range(b)
      BY <1>1, <2>2, <2>9 DEF Again
    <3> HIDE DEF b
    <3>3. CASE Stands(x)
      BY <1>1, <3>1, <3>3 DEF Stands
    <3>4. CASE x \in Range(b)
      BY <1>4, <1>5, <3>1, <3>4 DEF Stands
    <3> QED
      BY <3>2, <3>3, <3>4
  <2> QED
    BY <1>1, <1>5, <1>7, <2>5, <2>6, <2>7, <2>8, <2>9, RepairGoesOn
<1>10. MemoryTypes'
  BY <1>1, <1>7, <1>8 DEF MemoryInv, MemoryTypes
<1> QED
  BY <1>2, <1>9, <1>10 DEF MemoryInv

(* The user's message is stored, and the run begins.                       *)
LEMMA StoreUserStep ==
  ASSUME MemoryInv, StoreUser
  PROVE  MemoryInv'
<1> DEFINE m == User(turn.run)
<1>1. /\ turn.at = "store" /\ turn' = [turn EXCEPT !.at = "busy"]
      /\ table' = Append(table, m) /\ prompt' = Append(prompt, m) /\ ever' = ever \cup {m}
      /\ upset' = (upset \/ Overlaps)
      /\ UNCHANGED <<summary, unread, job, facts, learned, stale>>
  BY DEF StoreUser, Add, RunStep, summaryVars
<1>2. (stale \/ FactsKept)'
  BY <1>1, FactsStay DEF MemoryInv
<1>3. TurnOK(turn) /\ table \in Seq(Msgs) /\ prompt \in Seq(Msgs)
  BY DEF MemoryInv, MemoryTypes
<1>4. m \in Msgs
  BY <1>1, <1>3, Made DEF TurnOK
<1>5. TurnOK(turn') /\ turn'.at = "busy"
  <2>1. turn \in TurnState /\ turn.iter = 0 /\ turn.back = <<>>
    BY <1>1, <1>3 DEF TurnOK
  <2>2. /\ turn' \in TurnState /\ turn'.at = "busy" /\ turn'.run = turn.run
        /\ turn'.pending = turn.pending /\ turn'.calls = turn.calls /\ turn'.back = turn.back
    BY <1>1, <2>1 DEF TurnState
  <2> QED
    BY <1>1, <1>3, <2>1, <2>2 DEF TurnOK
<1> HIDE DEF m
<1>6. ASSUME ~upset' PROVE Undisturbed'
  <2>1. ~Overlaps /\ Undisturbed
    BY <1>1, <1>6 DEF MemoryInv
  <2>2. AtTurn(table, turn) /\ AtTurn(prompt, turn) /\ \A x \in ever : Stands(x)
    BY <1>1, <2>1, TableWhole
  <2>3. AtTurn(table', turn') /\ AtTurn(prompt', turn')
    BY <1>1, <1>3, <2>2, UserAt DEF m
  <2>4. ~Overlaps'
    BY <1>1, <2>1 DEF Overlaps, Summarizing
  <2>5. Range(table') = Range(table) \cup {m}
    BY <1>1, <1>3, <1>4, AppendHas
  <2>6. \A x \in ever' : Stands(x)'
    BY <1>1, <2>2, <2>5 DEF Stands
  <2> QED
    BY <1>5, <2>3, <2>4, <2>6, TableAlone
<1>7. MemoryTypes'
  BY <1>1, <1>3, <1>4, <1>5 DEF MemoryInv, MemoryTypes
<1> QED
  BY <1>2, <1>6, <1>7 DEF MemoryInv

(* A run that fails leaves a table that the next run repairs, unless it    *)
(* was adding messages again.                                              *)
LEMMA RunFailsStep ==
  ASSUME MemoryInv, RunFails
  PROVE  MemoryInv'
<1>1. /\ turn' = CutShort(turn) /\ upset' = (upset \/ turn.at = "again")
      /\ UNCHANGED <<table, ever, prompt, summary, unread, job, facts, learned, stale>>
  BY DEF RunFails, tableVars, summaryVars, factVars
<1>2. (stale \/ FactsKept)'
  BY <1>1, FactsStay DEF MemoryInv
<1>3. /\ TurnOK(turn') /\ turn'.at = "free"
      /\ \A h : AtTurn(h, turn) => AtTurn(h, turn')
  BY <1>1, CutShortAt DEF MemoryInv, MemoryTypes
<1>4. ASSUME ~upset' PROVE Undisturbed'
  <2>1. Undisturbed /\ turn.at # "again"
    BY <1>1, <1>4 DEF MemoryInv
  <2>2. OneJob' /\ CoversOK'
    BY <1>1, <2>1 DEF Undisturbed, OneJob, Summarizing, CoversOK
  <2>3. HistoriesOK'
    <3>1. (\A j \in Jobs : job[j].at # "restore") => AtTurn(table, turn')
      BY <1>3, <2>1 DEF Undisturbed, HistoriesOK
    <3>2. ASSUME NEW j \in Jobs
          PROVE  /\ HasCut(j) => AtTurn(job[j].keep, turn')
                 /\ job[j].at = "restore" => AtTurn(table \o job[j].keep, turn')
      BY <1>3, <2>1 DEF Undisturbed, HistoriesOK
    <3> QED
      BY <1>1, <1>3, <3>1, <3>2 DEF HistoriesOK, HasCut
  <2>4. RepairOK'
    BY <1>3 DEF RepairOK
  <2>5. EverKept'
    BY <1>1, <2>1 DEF Undisturbed, EverKept, Stands, Back, Again
  <2> QED
    BY <2>2, <2>3, <2>4, <2>5 DEF Undisturbed
<1>5. MemoryTypes'
  BY <1>1, <1>3 DEF MemoryInv, MemoryTypes
<1> QED
  BY <1>2, <1>4, <1>5 DEF MemoryInv

(* A message with calls opens a group.                                     *)
LEMMA CallToolsStep ==
  ASSUME MemoryInv, CallTools
  PROVE  MemoryInv'
<1>1. TurnOK(turn) /\ table \in Seq(Msgs) /\ prompt \in Seq(Msgs)
  BY DEF MemoryInv, MemoryTypes
<1>2. PICK n \in 1 .. MaxCalls :
        /\ Says(Assistant(turn.run, turn.iter, n))
        /\ turn' = [turn EXCEPT !.calls = n, !.pending = n]
  BY DEF CallTools
<1>3. turn.at = "busy" /\ turn.pending = 0 /\ turn.iter = 0 /\ job' = job
  BY DEF CallTools
<1> DEFINE m == Assistant(turn.run, turn.iter, n)
<1>4. n \in Nat /\ turn.run \in Runs /\ turn.iter \in Nat
  BY <1>1, <1>3, ConversationAssumption DEF TurnOK, TurnState
<1>5. m \in Msgs
  BY <1>4, Made
<1>6. ASSUME NEW h \in Seq(Msgs), AtTurn(h, turn) PROVE AtTurn(Append(h, m), turn')
  <2>1. turn' = Called(turn, n)
    BY <1>2 DEF Called
  <2>2. n \in 1 .. MaxCalls
    BY <1>2
  <2>3. /\ TurnOK(turn) /\ AtTurn(h, turn) /\ turn.at = "busy" /\ turn.pending = 0
        /\ turn.iter = 0
    BY <1>1, <1>3, <1>6
  <2> QED
    BY <2>1, <2>2, <2>3, CallsAt
<1>7. TurnOK(turn')
  <2>1. turn \in TurnState /\ turn' = [[turn EXCEPT !.calls = n] EXCEPT !.pending = n]
    BY <1>1, <1>2 DEF TurnOK
  <2>2. /\ turn' \in TurnState /\ turn'.at = "busy" /\ turn'.run = turn.run
        /\ turn'.calls = n /\ turn'.pending = n /\ turn'.back = turn.back
    BY <1>3, <1>4, <2>1 DEF TurnState
  <2> QED
    BY <1>1, <1>3, <1>4, <2>2 DEF TurnOK
<1>8. table' = Append(table, m) /\ prompt' = Append(prompt, m)
  BY <1>2 DEF Says, Add
<1>9. /\ job' \in [Jobs -> JobState]
      /\ \A k \in Jobs : Summarizing(k)' => Summarizing(k)
  BY <1>3 DEF MemoryInv, MemoryTypes, Summarizing
<1> HIDE DEF m
<1>10. Says(m) /\ \A k \in Jobs : job'[k].at = "condense" => job'[k] = job[k]
  BY <1>2, <1>3 DEF m
<1>11. turn'.at = "busy"
  BY <1>1, <1>2, <1>3 DEF TurnOK, TurnState
<1> QED
  BY <1>1, <1>3, <1>5, <1>6, <1>7, <1>8, <1>9, <1>10, <1>11, SaysKeeps

(* A result joins the open group; the last one closes it.                  *)
LEMMA StoreResultStep ==
  ASSUME MemoryInv, StoreResult
  PROVE  MemoryInv'
<1>1. TurnOK(turn) /\ table \in Seq(Msgs) /\ prompt \in Seq(Msgs)
  BY DEF MemoryInv, MemoryTypes
<1> DEFINE m == ToolResult(<<turn.run, turn.iter, turn.calls - turn.pending + 1>>)
<1>2. /\ turn.pending > 0 /\ Says(m) /\ job' = job
      /\ turn' = [turn EXCEPT !.pending = @ - 1,
                              !.iter = IF turn.pending = 1 THEN @ + 1 ELSE @]
  BY DEF StoreResult
<1> HIDE DEF m
<1>3. turn.at = "busy"
  BY <1>1, <1>2 DEF TurnOK
<1>4. TurnOK(turn') /\ turn'.at = "busy" /\ m \in Msgs
  <2>1. /\ turn \in TurnState /\ turn.run \in Runs /\ turn.iter \in Nat /\ turn.calls \in Nat
        /\ turn.pending \in Nat /\ turn.pending <= turn.calls
    BY <1>1, <1>3 DEF TurnOK, TurnState
  <2>2. turn.pending - 1 \in Nat /\ turn.iter + 1 \in Nat /\ turn.calls - turn.pending + 1 \in Nat
    BY <1>2, <2>1
  <2>3. turn' \in TurnState /\ turn'.calls = turn.calls /\ turn'.pending = turn.pending - 1
        /\ turn'.at = "busy" /\ turn'.run = turn.run /\ turn'.back = turn.back
    <3>1. CASE turn.pending = 1
      BY <1>2, <1>3, <2>1, <2>2, <3>1 DEF TurnState
    <3>2. CASE turn.pending # 1
      BY <1>2, <1>3, <2>1, <2>2, <3>2 DEF TurnState
    <3> QED
      BY <3>1, <3>2
  <2>4. TurnOK(turn')
    BY <1>1, <1>3, <2>1, <2>2, <2>3 DEF TurnOK
  <2>5. <<turn.run, turn.iter, turn.calls - turn.pending + 1>> \in Ids
    BY <2>1, <2>2 DEF Ids
  <2> QED
    BY <2>3, <2>4, <2>5, Resulting DEF m
<1>5. /\ AtTurn(prompt, turn) => AtTurn(Append(prompt, m), turn')
      /\ AtTurn(table, turn) => AtTurn(Append(table, m), turn')
  BY <1>1, <1>2, ResultAt DEF m
<1>6. table' = Append(table, m) /\ prompt' = Append(prompt, m)
  BY <1>2 DEF Says, Add
<1>7. /\ job' \in [Jobs -> JobState]
      /\ \A k \in Jobs : Summarizing(k)' => Summarizing(k)
  BY <1>2 DEF MemoryInv, MemoryTypes, Summarizing
<1> QED
  BY <1>2, <1>3, <1>4, <1>5, <1>6, <1>7, SaysKeeps

(* With the last word a summary is spawned.                                *)
LEMMA FinalizeStep ==
  ASSUME MemoryInv, NEW j \in Jobs, Finalize(j)
  PROVE  MemoryInv'
<1>1. TurnOK(turn) /\ table \in Seq(Msgs) /\ prompt \in Seq(Msgs) /\ job \in [Jobs -> JobState]
  BY DEF MemoryInv, MemoryTypes
<1> DEFINE m == Final(turn.run)
<1>2. /\ turn.at = "busy" /\ turn.pending = 0 /\ Says(m) /\ turn' = [turn EXCEPT !.at = "free"]
      /\ job[j].at = "idle" /\ job' = [job EXCEPT ![j].at = "spawned"]
  BY DEF Finalize, SpawnSummarize
<1>3. turn.run \in Runs
  BY <1>1, <1>2 DEF TurnOK
<1>4. m \in Msgs
  BY <1>3, Made
<1>5. /\ AtTurn(prompt, turn) => AtTurn(Append(prompt, m), turn')
      /\ AtTurn(table, turn) => AtTurn(Append(table, m), turn')
  BY <1>1, <1>2, FinalAt
<1>6. TurnOK(turn') /\ turn'.at = "free"
  <2>1. turn \in TurnState /\ turn.back = <<>> /\ turn.calls \in Nat
    BY <1>1, <1>2 DEF TurnOK, TurnState
  <2>2. /\ turn' \in TurnState /\ turn'.at = "free" /\ turn'.pending = 0
        /\ turn'.calls = turn.calls /\ turn'.back = <<>>
    BY <1>2, <2>1 DEF TurnState
  <2> QED
    BY <2>1, <2>2 DEF TurnOK
<1>7. table' = Append(table, m) /\ prompt' = Append(prompt, m)
  BY <1>2 DEF Says, Add
<1> HIDE DEF m
<1>8. /\ job' \in [Jobs -> JobState] /\ job'[j].at = "spawned"
      /\ \A k \in Jobs : k # j => job'[k] = job[k]
  <2>1. "spawned" \in JobSteps
    BY DEF JobSteps
  <2>2. job' = Stepped(job, j, "spawned")
    BY <1>2 DEF Stepped
  <2> QED
    BY <1>1, <2>1, <2>2, JobSet
<1>9. \A k \in Jobs : /\ Summarizing(k)' => Summarizing(k)
                      /\ job'[k].at = "condense" => job'[k] = job[k]
  <2> TAKE k \in Jobs
  <2>1. CASE k = j
    BY <1>8, <2>1 DEF Summarizing
  <2>2. CASE k # j
    BY <1>8, <2>2 DEF Summarizing
  <2> QED
    BY <2>1, <2>2
<1> QED
  BY <1>2, <1>4, <1>5, <1>6, <1>7, <1>8, <1>9, SaysKeeps

-----------------------------------------------------------------------------
(* A summarization that ends without having written, or that never began,  *)
(* or that goes on from the model's answer to the write, disturbs nothing. *)
LEMMA JobGoesOn ==
  ASSUME MemoryInv, NEW j \in Jobs, job[j].at # "restore",
         UNCHANGED <<table, prompt, turn, summary, unread, ever>>, upset => upset',
         job' \in [Jobs -> JobState], \A k \in Jobs : k # j => job'[k] = job[k],
         job'[j].at \in {"asked", "write", "clear"} =>
           /\ job[j].at = "asked" /\ job'[j].at = "write"
           /\ job'[j].keep = job[j].keep /\ job'[j].covers = job[j].covers
           /\ job'[j].cut = job[j].cut,
         job'[j].at # "restore"
  PROVE  (upset \/ Undisturbed)'
<1> SUFFICES ASSUME Undisturbed PROVE Undisturbed'
  BY DEF MemoryInv
<1>1. \A k \in Jobs : Summarizing(k)' => Summarizing(k)
  <2> TAKE k \in Jobs
  <2>1. CASE k = j
    BY <2>1 DEF Summarizing
  <2>2. CASE k # j
    BY <2>2 DEF Summarizing
  <2> QED
    BY <2>1, <2>2
<1>2. OneJob'
  BY <1>1 DEF Undisturbed, OneJob
<1>3. HistoriesOK'
  <2>1. turn.at # "free" => AtTurn(prompt, turn)
    BY DEF Undisturbed, HistoriesOK
  <2>2. turn.at # "again" /\ (\A k \in Jobs : job'[k].at # "restore") => AtTurn(table, turn)
    <3>1. (\A k \in Jobs : job'[k].at # "restore") => \A k \in Jobs : job[k].at # "restore"
      OBVIOUS
    <3> QED
      BY <3>1 DEF Undisturbed, HistoriesOK
  <2>3. ASSUME NEW k \in Jobs
        PROVE  /\ HasCut(k)' => AtTurn(job'[k].keep, turn)
               /\ job'[k].at = "restore" => AtTurn(table \o job'[k].keep, turn)
    <3>1. CASE k = j
      BY <3>1 DEF Undisturbed, HistoriesOK, HasCut
    <3>2. CASE k # j
      BY <3>2 DEF Undisturbed, HistoriesOK, HasCut
    <3> QED
      BY <3>1, <3>2
  <2> QED
    BY <2>1, <2>2, <2>3 DEF HistoriesOK
<1>4. CoversOK'
  <2> SUFFICES ASSUME NEW k \in Jobs
        PROVE  /\ job'[k].at \in {"asked", "write"} =>
                    Range(table) \subseteq job'[k].covers \cup Range(job'[k].keep) \cup job'[k].cut
               /\ job'[k].at = "clear" =>
                    Range(table) \subseteq summary \cup Range(job'[k].keep) \cup job'[k].cut
    BY DEF CoversOK
  <2>1. CASE k = j
    BY <2>1 DEF Undisturbed, CoversOK
  <2>2. CASE k # j
    BY <2>2 DEF Undisturbed, CoversOK
  <2> QED
    BY <2>1, <2>2
<1>5. EverKept'
  <2>1. \A m : Back(m) => Back(m)'
    BY DEF Back
  <2> QED
    BY <2>1 DEF Undisturbed, EverKept, Stands, Again
<1>6. RepairOK'
  BY <1>1 DEF Undisturbed, RepairOK, Overlaps
<1> QED
  BY <1>2, <1>3, <1>4, <1>5, <1>6 DEF Undisturbed

(* The older part of the table, with the last summary, goes to the model.  *)
LEMMA ReadHistoryStep ==
  ASSUME MemoryInv, NEW j \in Jobs, ReadHistory(j)
  PROVE  MemoryInv'
<1>1. /\ table \in Seq(Msgs) /\ job \in [Jobs -> JobState] /\ TurnOK(turn)
      /\ summary \in SUBSET Msgs
  BY DEF MemoryInv, MemoryTypes
<1>2. /\ job[j].at = "spawned"
      /\ UNCHANGED <<table, ever, prompt, turn, context, summary, unread, facts, learned, stale>>
  BY DEF ReadHistory, tableVars, promptVars, factVars, summaryVars
<1> DEFINE n == SplitPoint(table)
           x(k, last) == [at |-> "asked", keep |-> SubSeq(table, n + 1, Len(table)),
                          covers |-> Covered(last, k), cut |-> Range(SubSeq(table, k + 1, n)),
                          facts |-> {}]
<1>3. CASE Len(table) < Threshold
  <2>1. job' = Replaced(job, j, NoJob)
    BY <1>3 DEF ReadHistory, Replaced
  <2>2. /\ job' \in [Jobs -> JobState] /\ job'[j].at = "idle"
        /\ \A k \in Jobs : k # j => job'[k] = job[k]
    BY <1>1, <2>1, JobReplaced, NoJobIsOne
  <2>3. upset => upset'
    BY DEF ReadHistory
  <2>4. \A k \in Jobs : job'[k].at = "condense" =>
          job[k].at = "condense" /\ job'[k].facts = job[k].facts
    BY <2>2
  <2>5. (stale \/ FactsKept)'
    BY <1>2, <2>4, FactsStay DEF MemoryInv
  <2>6. (upset \/ Undisturbed)'
    BY <1>2, <2>2, <2>3, JobGoesOn
  <2>7. MemoryTypes'
    BY <1>2, <2>2 DEF MemoryInv, MemoryTypes
  <2> QED
    BY <2>5, <2>6, <2>7 DEF MemoryInv
<1>4. CASE ~(Len(table) < Threshold)
  <2>1. Len(table) \in Nat /\ Threshold \in Nat /\ Len(table) >= Threshold
    BY <1>1, <1>4, ConversationAssumption
  <2>2. n \in 0 .. Len(table) - 1 /\ IsCut(table, n) /\ n \in 0 .. Len(table)
    BY <1>1, <2>1, SplitFound
  <2>3. PICK k \in 0 .. n, last \in {summary, {}} : job' = Replaced(job, j, x(k, last))
    BY <1>4 DEF ReadHistory, Replaced
  <2> DEFINE z == x(k, last)
  <2> HIDE DEF n
  <2>4. z.keep \in Seq(Msgs) /\ z.covers \in SUBSET Msgs /\ z.cut \in SUBSET Msgs
    <3>1. Range(SubSeq(table, k + 1, n)) \subseteq Msgs /\ Range(SubSeq(table, 1, k)) \subseteq Msgs
      BY <1>1, <2>2, <2>3, BetweenHas
    <3> QED
      BY <1>1, <2>2, <2>3, <3>1, CutPositions DEF Covered
  <2>5. z \in JobState
    BY <2>4 DEF JobState, JobSteps
  <2>6. PICK y \in JobState :
          /\ job' = Replaced(job, j, y)
          /\ y.at = "asked" /\ y.keep = SubSeq(table, n + 1, Len(table))
          /\ y.covers = Covered(last, k) /\ y.cut = Range(SubSeq(table, k + 1, n))
    BY <2>3, <2>5
  <2> HIDE DEF z, x
  <2>7. /\ job' \in [Jobs -> JobState] /\ job'[j] = y
        /\ \A i \in Jobs : i # j => job'[i] = job[i]
    BY <1>1, <2>6, JobReplaced
  <2>8. \A i \in Jobs : job'[i].at = "condense" =>
          job[i].at = "condense" /\ job'[i].facts = job[i].facts
    BY <2>6, <2>7
  <2>9. (stale \/ FactsKept)'
    BY <1>2, <2>8, FactsStay DEF MemoryInv
  <2>10. ASSUME ~upset' PROVE Undisturbed'
    <3>1. ~upset /\ ~Overlaps /\ turn.at \notin {"clear", "again"}
      BY <2>6, <2>7, <2>10 DEF ReadHistory
    <3>2. Undisturbed
      BY <3>1 DEF MemoryInv
    <3>3. /\ AtTurn(table, turn) /\ \A m \in ever : Stands(m)
          /\ turn.at # "free" => AtTurn(prompt, turn)
      BY <3>1, <3>2, TableWhole
    <3>4. \A i \in Jobs : i # j => job'[i].at \notin {"asked", "write", "clear", "restore"}
      BY <2>7, <3>1 DEF Overlaps, Summarizing
    <3>5. OneJob'
      BY <3>4 DEF OneJob, Summarizing
    <3>6. AtTurn(y.keep, turn)
      BY <1>1, <2>2, <2>6, <3>3, CutAtTurn
    <3>7. HistoriesOK'
      BY <1>2, <2>6, <2>7, <3>3, <3>4, <3>6 DEF HistoriesOK, HasCut
    <3>8. Range(table) \subseteq y.covers \cup Range(y.keep) \cup y.cut
      <4>1. Range(table) \subseteq Range(SubSeq(table, 1, n)) \cup Range(y.keep)
        BY <1>1, <2>2, <2>6, CutHas
      <4>2. Range(SubSeq(table, 1, n)) \subseteq Range(SubSeq(table, 1, k)) \cup y.cut
        BY <1>1, <2>2, <2>3, <2>6, BetweenHas
      <4> QED
        BY <2>6, <4>1, <4>2 DEF Covered
    <3>9. CoversOK'
      BY <1>2, <2>6, <2>7, <3>4, <3>8 DEF CoversOK
    <3>10. EverKept'
      BY <1>2, <3>3 DEF EverKept, Stands
    <3>11. RepairOK'
      BY <1>2, <3>1 DEF RepairOK
    <3> QED
      BY <3>5, <3>7, <3>9, <3>10, <3>11 DEF Undisturbed
  <2>11. MemoryTypes'
    BY <1>2, <2>7 DEF MemoryInv, MemoryTypes
  <2> QED
    BY <2>9, <2>10, <2>11 DEF MemoryInv
<1> QED
  BY <1>3, <1>4

(* The model answers, or it fails.                                         *)
LEMMA SummarizedStep ==
  ASSUME MemoryInv, NEW j \in Jobs, Summarized(j)
  PROVE  MemoryInv'
<1>1. /\ table \in Seq(Msgs) /\ job \in [Jobs -> JobState]
      /\ UNCHANGED <<table, ever, prompt, turn, context, summaryVars, facts, learned, stale, upset>>
  BY DEF MemoryInv, MemoryTypes, Summarized, tableVars, promptVars, factVars
<1>2. PICK s \in {"write", "facts"} : JobStep(j, "asked", s)
  BY DEF Summarized
<1>3. job[j].at = "asked" /\ job' = Stepped(job, j, s) /\ s \in JobSteps
  BY <1>2 DEF JobStep, Stepped, JobSteps
<1>4. /\ job' \in [Jobs -> JobState] /\ job'[j].at = s /\ job'[j].keep = job[j].keep
      /\ job'[j].covers = job[j].covers /\ job'[j].cut = job[j].cut
      /\ \A k \in Jobs : k # j => job'[k] = job[k]
  BY <1>1, <1>3, JobSet
<1>5. \A k \in Jobs : job'[k].at = "condense" =>
        job[k].at = "condense" /\ job'[k].facts = job[k].facts
  BY <1>4
<1>6. (stale \/ FactsKept)'
  BY <1>1, <1>5, FactsStay DEF MemoryInv
<1>7. (upset \/ Undisturbed)'
  BY <1>1, <1>3, <1>4, JobGoesOn DEF summaryVars
<1>8. MemoryTypes'
  BY <1>1, <1>4 DEF MemoryInv, MemoryTypes, summaryVars
<1> QED
  BY <1>6, <1>7, <1>8 DEF MemoryInv

(* The summary is written: what it does not cover of the last one was not  *)
(* read, and of the table it was cut off or is kept.                       *)
LEMMA WriteSummaryStep ==
  ASSUME MemoryInv, NEW j \in Jobs, WriteSummary(j)
  PROVE  MemoryInv'
<1>1. /\ table \in Seq(Msgs) /\ job \in [Jobs -> JobState] /\ job[j] \in JobState
      /\ UNCHANGED <<table, ever, prompt, turn, context, facts, learned, stale>>
  BY DEF MemoryInv, MemoryTypes, WriteSummary, tableVars, promptVars, factVars
<1>2. PICK s \in {"clear", "facts"} :
        /\ JobStep(j, "write", s)
        /\ s = "clear" => /\ summary' = job[j].covers /\ upset' = upset
                          /\ unread' = unread \cup (summary \ job[j].covers)
        /\ s = "facts" => /\ unread' = unread
                          /\ \/ summary' = summary /\ upset' = upset
                             \/ summary' = {} /\ upset' = TRUE
  BY DEF WriteSummary, Fails
<1>3. job[j].at = "write" /\ job' = Stepped(job, j, s) /\ s \in JobSteps
  BY <1>2 DEF JobStep, Stepped, JobSteps
<1>4. /\ job' \in [Jobs -> JobState] /\ job'[j].at = s /\ job'[j].keep = job[j].keep
      /\ job'[j].covers = job[j].covers /\ job'[j].cut = job[j].cut
      /\ \A k \in Jobs : k # j => job'[k] = job[k]
  BY <1>1, <1>3, JobSet
<1>5. \A k \in Jobs : job'[k].at = "condense" =>
        job[k].at = "condense" /\ job'[k].facts = job[k].facts
  BY <1>4
<1>6. (stale \/ FactsKept)'
  BY <1>1, <1>5, FactsStay DEF MemoryInv
<1>7. (upset \/ Undisturbed)'
  <2>1. CASE s = "facts"
    <3>1. CASE upset'
      BY <3>1
    <3>2. CASE ~upset'
      <4>1. upset' = upset /\ summary' = summary /\ unread' = unread
        BY <1>2, <2>1, <3>2
      <4> QED
        BY <1>1, <1>3, <1>4, <2>1, <4>1, JobGoesOn
    <3> QED
      BY <3>1, <3>2
  <2>2. CASE s = "clear"
    <3> SUFFICES ASSUME Undisturbed PROVE Undisturbed'
      BY <1>2, <2>2 DEF MemoryInv
    <3>0. turn.at \notin {"clear", "again"}
      BY <1>3 DEF Undisturbed, RepairOK, Overlaps, Summarizing
    <3>1. \A k \in Jobs : k # j => job'[k].at \notin {"asked", "write", "clear", "restore"}
      BY <1>3, <1>4 DEF Undisturbed, OneJob, Summarizing
    <3>2. OneJob'
      BY <3>1 DEF OneJob, Summarizing
    <3>3. /\ AtTurn(table, turn) /\ AtTurn(job[j].keep, turn)
          /\ turn.at # "free" => AtTurn(prompt, turn)
      <4>1. \A k \in Jobs : job[k].at # "restore"
        BY <1>3, <1>4, <3>1
      <4> QED
        BY <1>3, <3>0, <4>1 DEF Undisturbed, HistoriesOK, HasCut
    <3>4. HistoriesOK'
      BY <1>1, <1>4, <2>2, <3>1, <3>3 DEF HistoriesOK, HasCut
    <3>5. /\ summary \subseteq summary' \cup unread'
          /\ Range(table) \subseteq summary' \cup Range(job[j].keep) \cup job[j].cut
      BY <1>2, <1>3, <2>2 DEF Undisturbed, CoversOK
    <3>6. CoversOK'
      BY <1>1, <1>4, <2>2, <3>1, <3>5 DEF CoversOK
    <3>7. \A m : ~Back(m)
      BY <1>3, <1>4, <3>1 DEF Back
    <3>8. EverKept'
      <4>1. unread \subseteq unread'
        BY <1>2, <2>2
      <4> QED
        BY <1>1, <3>0, <3>5, <3>7, <4>1 DEF Undisturbed, EverKept, Stands, Again
    <3>9. RepairOK'
      BY <1>1, <3>0 DEF RepairOK
    <3> QED
      BY <3>2, <3>4, <3>6, <3>8, <3>9 DEF Undisturbed
  <2> QED
    BY <2>1, <2>2
<1>8. MemoryTypes'
  <2>1. summary' \in SUBSET Msgs
    BY <1>1, <1>2 DEF JobState, MemoryInv, MemoryTypes
  <2> QED
    BY <1>1, <1>4, <2>1 DEF MemoryInv, MemoryTypes
<1> QED
  BY <1>6, <1>7, <1>8 DEF MemoryInv

(* The table is cleared, but what it had is covered, was cut off or is     *)
(* about to be added again.                                                *)
LEMMA ClearTableStep ==
  ASSUME MemoryInv, NEW j \in Jobs, ClearTable(j)
  PROVE  MemoryInv'
<1>1. /\ table \in Seq(Msgs) /\ job \in [Jobs -> JobState] /\ job[j] \in JobState
      /\ UNCHANGED <<ever, prompt, turn, context, summary, facts, learned, stale>>
  BY DEF MemoryInv, MemoryTypes, ClearTable, promptVars, factVars
<1>2. /\ job[j].at = "clear" /\ job' = Stepped(job, j, "restore") /\ "restore" \in JobSteps
  BY DEF ClearTable, JobStep, Stepped, JobSteps
<1>3. \/ table' = <<>> /\ upset' = upset /\ unread' = unread \cup job[j].cut
      \/ table' = table /\ upset' = TRUE
  BY DEF ClearTable, Fails
<1>4. /\ job' \in [Jobs -> JobState] /\ job'[j].at = "restore" /\ job'[j].keep = job[j].keep
      /\ \A k \in Jobs : k # j => job'[k] = job[k]
  BY <1>1, <1>2, JobSet
<1>5. \A k \in Jobs : job'[k].at = "condense" =>
        job[k].at = "condense" /\ job'[k].facts = job[k].facts
  BY <1>4
<1>6. (stale \/ FactsKept)'
  BY <1>1, <1>5, FactsStay DEF MemoryInv
<1>7. ASSUME ~upset' PROVE Undisturbed'
  <2>1. Undisturbed /\ table' = <<>> /\ unread' = unread \cup job[j].cut
    BY <1>3, <1>7 DEF MemoryInv
  <2>0. turn.at \notin {"clear", "again"}
    BY <1>2, <2>1 DEF Undisturbed, RepairOK, Overlaps, Summarizing
  <2>2. \A k \in Jobs : k # j => job'[k].at \notin {"asked", "write", "clear", "restore"}
    BY <1>2, <1>4, <2>1 DEF Undisturbed, OneJob, Summarizing
  <2>3. OneJob'
    BY <2>2 DEF OneJob, Summarizing
  <2>4. /\ AtTurn(job[j].keep, turn)
        /\ turn.at # "free" => AtTurn(prompt, turn)
    BY <1>2, <2>1 DEF Undisturbed, HistoriesOK, HasCut
  <2>5. <<>> \o job[j].keep = job[j].keep
    <3>1. job[j].keep \in Seq(Msgs)
      BY <1>1 DEF JobState
    <3> QED
      BY <3>1
  <2>6. HistoriesOK'
    BY <1>1, <1>4, <2>1, <2>2, <2>4, <2>5 DEF HistoriesOK, HasCut
  <2>7. CoversOK'
    BY <1>4, <2>2 DEF CoversOK
  <2>8. Range(table) \subseteq summary \cup Range(job[j].keep) \cup job[j].cut
    BY <1>2, <2>1 DEF Undisturbed, CoversOK
  <2>9. \A m : ~Back(m)
    BY <1>2, <1>4, <2>2 DEF Back
  <2>10. \A m \in Range(job[j].keep) : Back(m)'
    BY <1>4 DEF Back
  <2>11. EverKept'
    <3> SUFFICES ASSUME NEW m \in ever PROVE Stands(m)' \/ Back(m)'
      BY <1>1 DEF EverKept
    <3>1. Stands(m)
      BY <2>0, <2>1, <2>9 DEF Undisturbed, EverKept, Again
    <3> QED
      BY <1>1, <2>1, <2>8, <2>10, <3>1 DEF Stands
  <2>12. RepairOK'
    BY <1>1, <2>0 DEF RepairOK
  <2> QED
    BY <2>3, <2>6, <2>7, <2>11, <2>12 DEF Undisturbed
<1>8. MemoryTypes'
  <2>1. <<>> \in Seq(Msgs)
    OBVIOUS
  <2>2. table' \in Seq(Msgs)
    BY <1>1, <1>3, <2>1
  <2> QED
    BY <1>1, <1>4, <2>2 DEF MemoryInv, MemoryTypes
<1> QED
  BY <1>6, <1>7, <1>8 DEF MemoryInv

(* One after the other, the messages kept come back.                       *)
LEMMA RestoreStep ==
  ASSUME MemoryInv, NEW j \in Jobs, Restore(j)
  PROVE  MemoryInv'
<1>1. /\ table \in Seq(Msgs) /\ job \in [Jobs -> JobState] /\ job[j] \in JobState
      /\ job[j].keep \in Seq(Msgs) /\ job[j].at = "restore"
      /\ UNCHANGED <<ever, prompt, turn, context, summary, unread, facts, learned, stale>>
  BY DEF MemoryInv, MemoryTypes, JobState, Restore, promptVars, factVars, summaryVars
<1>2. CASE job[j].keep = <<>>
  <2>1. job' = Replaced(job, j, FactsJob) /\ table' = table /\ upset' = upset
    <3>1. /\ job' = [job EXCEPT ![j] = [NoJob EXCEPT !.at = "facts"]]
          /\ UNCHANGED <<table, upsets, upset>>
      BY <1>2 DEF Restore
    <3> QED
      BY <3>1 DEF Replaced, FactsJob
  <2>2. /\ job' \in [Jobs -> JobState] /\ job'[j].at = "facts"
        /\ \A k \in Jobs : k # j => job'[k] = job[k]
    BY <1>1, <2>1, JobReplaced, NoJobIsOne
  <2>3. \A k \in Jobs : job'[k].at = "condense" =>
          job[k].at = "condense" /\ job'[k].facts = job[k].facts
    BY <2>2
  <2>4. (stale \/ FactsKept)'
    BY <1>1, <2>3, FactsStay DEF MemoryInv
  <2>5. ASSUME ~upset' PROVE Undisturbed'
    <3>1. Undisturbed
      BY <2>1, <2>5 DEF MemoryInv
    <3>0. turn.at \notin {"clear", "again"}
      BY <1>1, <3>1 DEF Undisturbed, RepairOK, Overlaps, Summarizing
    <3>2. ~Overlaps'
      <4> SUFFICES ASSUME NEW k \in Jobs PROVE ~Summarizing(k)'
        BY DEF Overlaps
      <4>1. CASE k = j
        BY <2>2, <4>1 DEF Summarizing
      <4>2. CASE k # j
        BY <1>1, <2>2, <3>1, <4>2 DEF Undisturbed, OneJob, Summarizing
      <4> QED
        BY <4>1, <4>2
    <3>3. /\ AtTurn(table \o job[j].keep, turn)
          /\ turn.at # "free" => AtTurn(prompt, turn)
      BY <1>1, <3>1 DEF Undisturbed, HistoriesOK
    <3>4. table \o <<>> = table
      BY <1>1
    <3>5. \A m : ~Back(m)
      <4> SUFFICES ASSUME NEW m, Back(m) PROVE FALSE
        OBVIOUS
      <4>1. PICK k \in Jobs : job[k].at = "restore" /\ m \in Range(job[k].keep)
        BY DEF Back
      <4>2. k = j
        BY <1>1, <3>1, <4>1 DEF Undisturbed, OneJob, Summarizing
      <4>3. DOMAIN <<>> = {}
        OBVIOUS
      <4> QED
        BY <1>2, <4>1, <4>2, <4>3 DEF Range
    <3>6. \A m \in ever : Stands(m)
      BY <3>0, <3>1, <3>5 DEF Undisturbed, EverKept, Again
    <3>7. \A m \in ever' : Stands(m)'
      BY <1>1, <2>1, <3>6 DEF Stands
    <3> QED
      BY <1>1, <1>2, <2>1, <3>0, <3>2, <3>3, <3>4, <3>7, TableAlone
  <2>6. MemoryTypes'
    BY <1>1, <2>1, <2>2 DEF MemoryInv, MemoryTypes
  <2> QED
    BY <2>4, <2>5, <2>6 DEF MemoryInv
<1>3. CASE job[j].keep # <<>>
  <2> DEFINE x == [job[j] EXCEPT !.keep = Tail(@)]
             k1 == Head(job[j].keep)
  <2>1. job' = Replaced(job, j, x)
    BY <1>3 DEF Restore, Replaced
  <2>2. /\ Head(job[j].keep) \in Msgs /\ Tail(job[j].keep) \in Seq(Msgs)
        /\ Range(job[j].keep) \subseteq {Head(job[j].keep)} \cup Range(Tail(job[j].keep))
    BY <1>1, <1>3, HeadHas
  <2>3. x \in JobState /\ x.at = "restore" /\ x.keep = Tail(job[j].keep)
    BY <1>1, <2>2 DEF JobState
  <2> HIDE DEF x
  <2>4. /\ job' \in [Jobs -> JobState] /\ job'[j] = x
        /\ \A k \in Jobs : k # j => job'[k] = job[k]
    BY <1>1, <2>1, <2>3, JobReplaced
  <2>5. \/ table' = Append(table, k1) /\ upset' = upset
        \/ table' = table /\ upset' = TRUE
    BY <1>3 DEF Restore, Fails
  <2>6. \A k \in Jobs : job'[k].at = "condense" =>
          job[k].at = "condense" /\ job'[k].facts = job[k].facts
    BY <2>3, <2>4
  <2>7. (stale \/ FactsKept)'
    BY <1>1, <2>6, FactsStay DEF MemoryInv
  <2>8. ASSUME ~upset' PROVE Undisturbed'
    <3>1. Undisturbed /\ table' = Append(table, k1)
      BY <2>5, <2>8 DEF MemoryInv
    <3>0. turn.at \notin {"clear", "again"}
      BY <1>1, <3>1 DEF Undisturbed, RepairOK, Overlaps, Summarizing
    <3>2. \A k \in Jobs : k # j => job'[k].at \notin {"asked", "write", "clear", "restore"}
      BY <1>1, <2>4, <3>1 DEF Undisturbed, OneJob, Summarizing
    <3>3. OneJob'
      BY <3>2 DEF OneJob, Summarizing
    <3>4. /\ AtTurn(table \o job[j].keep, turn)
          /\ turn.at # "free" => AtTurn(prompt, turn)
      BY <1>1, <3>1 DEF Undisturbed, HistoriesOK
    <3>5. table' \o job'[j].keep = table \o job[j].keep
      BY <1>1, <1>3, <2>3, <2>4, <3>1, HandedOn
    <3>6. HistoriesOK'
      BY <1>1, <2>3, <2>4, <3>2, <3>4, <3>5 DEF HistoriesOK, HasCut
    <3>7. CoversOK'
      BY <2>3, <2>4, <3>2 DEF CoversOK
    <3>8. Range(table') = Range(table) \cup {k1}
      BY <1>1, <2>2, <3>1, AppendHas
    <3>9. ASSUME NEW m, Back(m) PROVE m = k1 \/ Back(m)'
      <4>1. PICK k \in Jobs : job[k].at = "restore" /\ m \in Range(job[k].keep)
        BY <3>9 DEF Back
      <4>2. k = j
        BY <1>1, <3>1, <4>1 DEF Undisturbed, OneJob, Summarizing
      <4>3. m = k1 \/ m \in Range(job'[j].keep)
        BY <2>2, <2>3, <2>4, <4>1, <4>2
      <4> QED
        BY <2>3, <2>4, <4>3 DEF Back
    <3> HIDE DEF k1
    <3>10. EverKept'
      <4> SUFFICES ASSUME NEW m \in ever
                   PROVE  Stands(m)' \/ Back(m)'
        BY <1>1 DEF EverKept
      <4>1. Stands(m) \/ Back(m)
        BY <3>0, <3>1 DEF Undisturbed, EverKept, Again
      <4> QED
        BY <1>1, <3>8, <3>9, <4>1 DEF Stands
    <3>11. RepairOK'
      BY <1>1, <3>0 DEF RepairOK
    <3> QED
      BY <3>3, <3>6, <3>7, <3>10, <3>11 DEF Undisturbed
  <2>9. table' \in Seq(Msgs)
    BY <1>1, <2>2, <2>5
  <2>10. MemoryTypes'
    BY <1>1, <2>4, <2>9 DEF MemoryInv, MemoryTypes
  <2> QED
    BY <2>7, <2>8, <2>10 DEF MemoryInv
<1> QED
  BY <1>2, <1>3

-----------------------------------------------------------------------------
(* The facts, and what ends it all.                                        *)

(* Reading the facts keeps the history.                                    *)
LEMMA ReadFactsStep ==
  ASSUME MemoryInv, NEW j \in Jobs, ReadFacts(j)
  PROVE  MemoryInv'
<1>1. /\ table \in Seq(Msgs) /\ job \in [Jobs -> JobState] /\ job[j] \in JobState
      /\ job[j].at = "facts" /\ facts \in SUBSET Runs
      /\ UNCHANGED <<table, ever, prompt, turn, context, summary, unread>>
      /\ UNCHANGED <<facts, learned, stale, upset>>
  BY DEF MemoryInv, MemoryTypes, ReadFacts, tableVars, promptVars, factVars, summaryVars
<1> DEFINE x == [[job[j] EXCEPT !.at = "condense"] EXCEPT !.facts = facts]
<1>2. x \in JobState /\ x.at = "condense" /\ x.facts = facts
  BY <1>1 DEF JobState, JobSteps
<1>3. \/ job' = Replaced(job, j, x)
      \/ job' = Replaced(job, j, NoJob)
  <2>1. CASE job' = [job EXCEPT ![j] = NoJob]
    BY <2>1 DEF Replaced
  <2>2. CASE job' = [job EXCEPT ![j].at = "condense", ![j].facts = facts]
    <3>1. job' = [job EXCEPT ![j] = x]
      <4>1. DOMAIN job = Jobs
        BY <1>1
      <4> QED
        BY <1>1, <2>2, <4>1
    <3> HIDE DEF x
    <3> QED
      BY <3>1 DEF Replaced
  <2> QED
    BY <2>1, <2>2 DEF ReadFacts
<1> HIDE DEF x
<1>4. PICK y \in JobState : /\ job' = Replaced(job, j, y)
                            /\ y.at = "idle" \/ (y.at = "condense" /\ y.facts = facts)
  BY <1>2, <1>3, NoJobIsOne
<1>5. /\ job' \in [Jobs -> JobState] /\ job'[j] = y
      /\ \A k \in Jobs : k # j => job'[k] = job[k]
  BY <1>1, <1>4, JobReplaced
<1>6. (stale \/ FactsKept)'
  <2> SUFFICES ASSUME FactsKept PROVE FactsKept'
    BY <1>1 DEF MemoryInv
  <2>1. ASSUME NEW k \in Jobs, job'[k].at = "condense" PROVE learned \subseteq job'[k].facts
    <3>1. CASE k = j
      BY <1>4, <1>5, <2>1, <3>1 DEF FactsKept
    <3>2. CASE k # j
      BY <1>5, <2>1, <3>2 DEF FactsKept
    <3> QED
      BY <3>1, <3>2
  <2> QED
    BY <1>1, <2>1 DEF FactsKept
<1>7. (upset \/ Undisturbed)'
  BY <1>1, <1>4, <1>5, JobGoesOn
<1>8. MemoryTypes'
  BY <1>1, <1>5 DEF MemoryInv, MemoryTypes
<1> QED
  BY <1>6, <1>7, <1>8 DEF MemoryInv

(* What a consolidation writes has all that was learned before it read.    *)
LEMMA ConsolidateStep ==
  ASSUME MemoryInv, NEW j \in Jobs, Consolidate(j)
  PROVE  MemoryInv'
<1>1. /\ table \in Seq(Msgs) /\ job \in [Jobs -> JobState] /\ job[j] \in JobState
      /\ job[j].at = "condense" /\ facts \in SUBSET Runs
      /\ UNCHANGED <<table, ever, prompt, turn, context, summary, unread, learned, upset>>
      /\ \/ facts' \in {facts, job[j].facts} /\ stale' = stale
         \/ facts' = {} /\ stale' = TRUE
  BY DEF MemoryInv, MemoryTypes, Consolidate, tableVars, promptVars, summaryVars
<1>2. job' = Replaced(job, j, NoJob)
  BY DEF Consolidate, Replaced
<1>3. /\ job' \in [Jobs -> JobState] /\ job'[j].at = "idle"
      /\ \A k \in Jobs : k # j => job'[k] = job[k]
  BY <1>1, <1>2, JobReplaced, NoJobIsOne
<1>4. (stale \/ FactsKept)'
  <2> SUFFICES ASSUME FactsKept, facts' \in {facts, job[j].facts} PROVE FactsKept'
    BY <1>1 DEF MemoryInv
  <2>1. ASSUME NEW k \in Jobs, job'[k].at = "condense" PROVE learned \subseteq job'[k].facts
    BY <1>3, <2>1 DEF FactsKept
  <2> QED
    BY <1>1, <2>1 DEF FactsKept
<1>5. (upset \/ Undisturbed)'
  BY <1>1, <1>3, JobGoesOn
<1>6. MemoryTypes'
  <2>1. facts' \in SUBSET Runs
    BY <1>1 DEF JobState
  <2> QED
    BY <1>1, <1>3, <2>1 DEF MemoryInv, MemoryTypes
<1> QED
  BY <1>4, <1>5, <1>6 DEF MemoryInv

(* Writing the facts keeps the history.                                    *)
LEMMA AppendFactsStep ==
  ASSUME MemoryInv, NEW r \in Runs, AppendFacts(r)
  PROVE  MemoryInv'
<1>1. /\ UNCHANGED <<table, ever, prompt, turn, context, summary, unread, job, upset>>
      /\ facts' = facts \cup {r} /\ learned' = learned \cup {r}
      /\ stale' = (stale \/ \E j \in Jobs : job[j].at = "condense")
  BY DEF AppendFacts, tableVars, promptVars, summaryVars
<1>2. (stale \/ FactsKept)'
  <2> SUFFICES ASSUME ~stale, \A j \in Jobs : job[j].at # "condense" PROVE FactsKept'
    BY <1>1
  <2>1. FactsKept
    BY DEF MemoryInv
  <2> QED
    BY <1>1, <2>1 DEF FactsKept
<1>3. (upset \/ Undisturbed)'
  BY <1>1 DEF MemoryInv, Undisturbed, OneJob, Summarizing, HistoriesOK, HasCut, RepairOK,
              Overlaps, CoversOK, EverKept, Stands, Back, Again
<1>4. MemoryTypes'
  BY <1>1 DEF MemoryInv, MemoryTypes
<1> QED
  BY <1>2, <1>3, <1>4 DEF MemoryInv

(* Finding no fact keeps the history.                                      *)
LEMMA FindsNoneStep ==
  ASSUME MemoryInv, NEW r \in Runs, FindsNone(r)
  PROVE  MemoryInv'
<1>1. /\ UNCHANGED <<table, ever, prompt, turn, context, summary, unread, job>>
      /\ UNCHANGED <<facts, learned, stale, upset>>
  BY DEF FindsNone, tableVars, promptVars, summaryVars
<1> QED
  BY <1>1 DEF MemoryInv, MemoryTypes, FactsKept, Undisturbed, OneJob, Summarizing, HistoriesOK,
              HasCut, RepairOK, Overlaps, CoversOK, EverKept, Stands, Back, Again

(* The user has the history cleared: what is gone is meant to go.          *)
LEMMA ForgetStep ==
  ASSUME MemoryInv, Forget
  PROVE  MemoryInv'
<1>1. /\ UNCHANGED <<prompt, turn, context, summary, unread, job, facts, learned, stale>>
      /\ turn.at = "free" /\ table' = <<>> /\ ever' = ever \ Range(table)
      /\ upset' = (upset \/ Overlaps)
  BY DEF Forget, promptVars, factVars, summaryVars
<1>2. (stale \/ FactsKept)'
  BY <1>1, FactsStay DEF MemoryInv
<1>3. ASSUME ~upset' PROVE Undisturbed'
  <2>1. ~Overlaps /\ Undisturbed
    BY <1>1, <1>3 DEF MemoryInv
  <2>2. \A m \in ever' : Stands(m)'
    <3>1. \A m \in ever : Stands(m)
      BY <1>1, <2>1, TableWhole
    <3> QED
      BY <1>1, <3>1 DEF Stands
  <2>3. ~Overlaps'
    BY <1>1, <2>1 DEF Overlaps, Summarizing
  <2>4. TurnOK(turn)
    BY DEF MemoryInv, MemoryTypes
  <2>5. turn.pending = 0
    BY <1>1, <2>4 DEF TurnOK, TurnState
  <2>6. AtTurn(<<>>, turn)
    BY <2>4, <2>5, EmptyAt
  <2> QED
    BY <1>1, <2>2, <2>3, <2>6, TableAlone
<1>4. MemoryTypes'
  <2>1. <<>> \in Seq(Msgs)
    OBVIOUS
  <2> QED
    BY <1>1, <2>1 DEF MemoryInv, MemoryTypes
<1> QED
  BY <1>2, <1>3, <1>4 DEF MemoryInv

(* A crash that tears no file and interrupts no restoring leaves a table   *)
(* that the next run repairs.                                              *)
LEMMA CrashMemoryStep ==
  ASSUME MemoryInv, CrashMemory
  PROVE  MemoryInv'
<1>1. /\ UNCHANGED <<table, ever, prompt, context, unread, learned>>
      /\ turn' = CutShort(turn)
      /\ job' = [j \in Jobs |-> NoJob]
      /\ upset' = (upset \/ turn.at = "again" \/ \E j \in Jobs : job[j].at \in {"write", "restore"})
      /\ stale' = (stale \/ \E j \in Jobs : job[j].at = "condense")
  BY DEF CrashMemory, tableVars
<1>2. /\ summary' = summary \/ (summary' = {} /\ \E j \in Jobs : job[j].at = "write")
      /\ facts' = facts \/ (facts' = {} /\ \E j \in Jobs : job[j].at = "condense")
  BY DEF CrashMemory
<1>3. /\ TurnOK(turn) /\ table \in Seq(Msgs) /\ prompt \in Seq(Msgs) /\ summary \in SUBSET Msgs
      /\ facts \in SUBSET Runs
  BY DEF MemoryInv, MemoryTypes
<1>4. /\ TurnOK(turn') /\ turn'.at = "free"
      /\ \A h : AtTurn(h, turn) => AtTurn(h, turn')
  BY <1>1, <1>3, CutShortAt
<1>5. \A j \in Jobs : job'[j] = NoJob
  BY <1>1
<1>6. (stale \/ FactsKept)'
  <2> SUFFICES ASSUME ~stale, \A j \in Jobs : job[j].at # "condense" PROVE FactsKept'
    BY <1>1
  <2>1. FactsKept /\ facts' = facts
    BY <1>2 DEF MemoryInv
  <2> QED
    BY <1>1, <1>5, <2>1, NoJobIsOne DEF FactsKept
<1>7. ASSUME ~upset' PROVE Undisturbed'
  <2>1. Undisturbed /\ turn.at # "again" /\ \A j \in Jobs : job[j].at \notin {"write", "restore"}
    BY <1>1, <1>7 DEF MemoryInv
  <2>2. summary' = summary
    BY <1>2, <2>1
  <2>3. AtTurn(table, turn)
    BY <2>1 DEF Undisturbed, HistoriesOK
  <2>4. AtTurn(table', turn')
    BY <1>1, <1>4, <2>3
  <2>5. \A m \in ever' : Stands(m)'
    <3>1. \A m \in ever : Stands(m)
      BY <2>1 DEF Undisturbed, EverKept, Back, Again
    <3> QED
      BY <1>1, <2>2, <3>1 DEF Stands
  <2>6. ~Overlaps'
    BY <1>5, NoJobIsOne DEF Overlaps, Summarizing
  <2> QED
    BY <1>1, <1>4, <2>2, <2>4, <2>5, <2>6, TableAlone
<1>8. MemoryTypes'
  <2>1. job' \in [Jobs -> JobState]
    BY <1>1, NoJobIsOne
  <2>2. summary' \in SUBSET Msgs /\ facts' \in SUBSET Runs
    BY <1>2, <1>3
  <2> QED
    BY <1>1, <1>3, <1>4, <2>1, <2>2 DEF MemoryTypes
<1> QED
  BY <1>6, <1>7, <1>8 DEF MemoryInv

-----------------------------------------------------------------------------
(* The first state has an empty history.                                   *)
LEMMA MemoryInit ==
  ASSUME InitMemory
  PROVE  MemoryInv
<1>1. /\ table = <<>> /\ prompt = <<>> /\ turn = NoTurn /\ summary = {}
      /\ job = [j \in Jobs |-> NoJob] /\ facts = {} /\ ever = {} /\ learned = {}
  BY DEF InitMemory
<1>2. <<>> \in Seq(Msgs) /\ TurnOK(NoTurn) /\ NoTurn.at = "free" /\ NoTurn.pending = 0
  <2>1. <<>> \in Seq(Msgs)
    OBVIOUS
  <2> QED
    BY <2>1 DEF NoTurn, TurnOK, TurnState
<1>3. \A j \in Jobs : job[j] = NoJob
  BY <1>1
<1>4. MemoryTypes
  BY <1>1, <1>2, NoJobIsOne DEF MemoryTypes
<1>5. FactsKept
  BY <1>1, <1>3, NoJobIsOne DEF FactsKept
<1>6. AtTurn(table, turn)
  BY <1>1, <1>2, EmptyAt
<1>7. OneJob /\ CoversOK
  BY <1>3, NoJobIsOne DEF OneJob, Summarizing, CoversOK
<1>8. HistoriesOK
  BY <1>1, <1>2, <1>3, <1>6, NoJobIsOne DEF HistoriesOK, HasCut
<1>9. EverKept /\ RepairOK
  BY <1>1, <1>2 DEF EverKept, RepairOK
<1> QED
  BY <1>4, <1>5, <1>7, <1>8, <1>9 DEF MemoryInv, Undisturbed

(* Every step keeps the invariant.                                         *)
LEMMA MemoryNext ==
  ASSUME MemoryInv, [NextMemory]_memoryVars
  PROVE  MemoryInv'
<1>1. CASE UNCHANGED memoryVars
  BY <1>1 DEF memoryVars, tableVars, promptVars, summaryVars, factVars, MemoryInv, MemoryTypes,
              FactsKept, Undisturbed, OneJob, Summarizing, HistoriesOK, HasCut, RepairOK, Overlaps,
              CoversOK, EverKept, Stands, Back, Again
<1>2. ASSUME NEW j \in Jobs,
             \/ Finalize(j) \/ ReadHistory(j) \/ Summarized(j) \/ WriteSummary(j)
             \/ ClearTable(j) \/ Restore(j) \/ ReadFacts(j) \/ Consolidate(j)
      PROVE  MemoryInv'
  BY <1>2, FinalizeStep, ReadHistoryStep, SummarizedStep, WriteSummaryStep, ClearTableStep,
     RestoreStep, ReadFactsStep, ConsolidateStep
<1>3. ASSUME NEW r \in Runs, AppendFacts(r) \/ FindsNone(r) PROVE MemoryInv'
  BY <1>3, AppendFactsStep, FindsNoneStep
<1> QED
  BY <1>1, <1>2, <1>3, LoadHistoryStep, RepairClearStep, AddAgainStep, StoreUserStep,
     CallToolsStep, StoreResultStep, RunFailsStep, ForgetStep, CrashMemoryStep DEF NextMemory

(* The inductive invariant of the memory: the types of what it keeps, and, *)
(* while no summary was disturbed, one summary at a time, sound histories, *)
(* and every message somewhere.                                            *)
THEOREM MemoryInvariant == MemorySpec => []MemoryInv
<1>1. InitMemory => MemoryInv
  BY MemoryInit
<1>2. MemoryInv /\ [NextMemory]_memoryVars => MemoryInv'
  BY MemoryNext
<1> QED
  BY <1>1, <1>2, PTL DEF MemorySpec

(* summarize_conversation clears the table and adds the last messages      *)
(* again, and so does the repair of a run: whatever the lengths, the       *)
(* messages and the number of summaries, no message is lost that no        *)
(* failure, crash or overlap took and that was not cut off, and no fact    *)
(* that no consolidation overwrote.                                        *)
THEOREM MemoryNothingForgotten == MemorySpec => []NothingForgotten
<1>1. MemoryInv => NothingForgotten
  <2> SUFFICES ASSUME MemoryInv PROVE NothingForgotten
    OBVIOUS
  <2>1. stale \/ learned \subseteq facts
    BY DEF MemoryInv, FactsKept
  <2>2. ASSUME Undisturbed, NEW m \in ever
        PROVE  \/ m \in Range(table) \cup summary \cup unread
               \/ m \in Range(turn.back) \cup UNION {Range(job[j].keep) : j \in Jobs}
    BY <2>2 DEF Undisturbed, EverKept, Stands, Back, Again
  <2> QED
    BY <2>1, <2>2 DEF MemoryInv, NothingForgotten
<1> QED
  BY <1>1, MemoryInvariant, PTL

(* Between two steps of a run, after any number of runs, summaries and     *)
(* repairs, each of the three requests made of the run's prompt has every  *)
(* call answered, at the place the provider wants it, and nothing else     *)
(* (convert_messages of each provider).                                    *)
THEOREM MemoryRequestsPairUp == MemorySpec => []RequestsPairUp
<1>1. MemoryInv => RequestsPairUp
  <2> SUFFICES ASSUME MemoryInv, ~upset, turn.at = "busy", turn.pending = 0
               PROVE  /\ WellFormed(Request("openai", context, prompt).body)
                      /\ ItemsPairUp(Request("chatgpt", context, prompt).body)
                      /\ TurnsPairUp(Request("anthropic", context, prompt).body)
    BY DEF RequestsPairUp
  <2>1. prompt \in Seq(Msgs) /\ Closed(prompt)
    BY DEF MemoryInv, MemoryTypes, Undisturbed, HistoriesOK, AtTurn, Ready
  <2>2. /\ Request("openai", context, prompt).body = prompt
        /\ Request("chatgpt", context, prompt).body = Items(prompt)
        /\ Request("anthropic", context, prompt).body = Turns(prompt)
    BY DEF Request
  <2> QED
    BY <2>1, <2>2, ClosedWellFormed, ClosedItems, ClosedTurns
<1> QED
  BY <1>1, MemoryInvariant, PTL

-----------------------------------------------------------------------------
(* The events of an answer, from its last call to its first.               *)
From(f, a, k) ==
  f[k] = IF k > Len(a.calls) THEN <<[type |-> "DONE"]>>
         ELSE <<[type |-> "added", call |-> k]>> \o (Deltas(a, k) \o (<<Done(a, k)>> \o f[k + 1]))

(* The events from the k-th call on are the call's, then those of the      *)
(* next.                                                                   *)
LEMMA FromSolved ==
  ASSUME NEW a \in Answers
  PROVE  \A k \in 1 .. Len(a.calls) + 1 : From(EventsFrom(a), a, k)
<1> DEFINE N == Len(a.calls)
           T == {n \in Nat : \E p : \A m \in N + 1 - n .. N + 1 : From(p, a, m)}
<1>1. N \in Nat
  BY AnswersAssumption
<1> HIDE DEF N
<1>2. 0 \in T
  <2>1. \A m \in N + 1 - 0 .. N + 1 : m = N + 1 /\ m > N
    BY <1>1
  <2>2. \A m \in N + 1 - 0 .. N + 1 : From([k \in {N + 1} |-> <<[type |-> "DONE"]>>], a, m)
    BY <2>1 DEF From, N
  <2> QED
    BY <2>2
<1>3. ASSUME NEW n \in Nat, n < N, n \in T PROVE n + 1 \in T
  <2>1. PICK p : \A m \in N + 1 - n .. N + 1 : From(p, a, m)
    BY <1>3
  <2>2. PICK c \in Nat : c = N - n /\ c >= 1 /\ c <= N
    BY <1>1, <1>3
  <2> DEFINE new == <<[type |-> "added", call |-> c]>> \o (Deltas(a, c) \o (<<Done(a, c)>> \o p[c + 1]))
             g == [k \in c .. N + 1 |-> IF k = c THEN new ELSE p[k]]
  <2>3. ASSUME NEW m \in c .. N + 1 PROVE From(g, a, m)
    <3>1. CASE m = c
      <4>1. m + 1 \in c .. N + 1 /\ m + 1 # c /\ ~(m > N)
        BY <1>1, <2>2, <3>1
      <4>2. g[m] = new /\ g[m + 1] = p[m + 1]
        <5> HIDE DEF new
        <5> QED
          BY <3>1, <4>1
      <4> HIDE DEF g
      <4> QED
        BY <3>1, <4>1, <4>2 DEF From, N
    <3>2. CASE m # c
      <4>1. m \in N + 1 - n .. N + 1 /\ g[m] = p[m] /\ (m <= N => g[m + 1] = p[m + 1])
        BY <1>1, <1>3, <2>2, <3>2
      <4>2. From(p, a, m)
        BY <2>1, <4>1
      <4>3. m > N \/ m <= N
        BY <1>1, <2>3
      <4> HIDE DEF g
      <4> QED
        BY <4>1, <4>2, <4>3 DEF From, N
    <3> QED
      BY <3>1, <3>2
  <2> HIDE DEF g
  <2>4. N + 1 - (n + 1) = c
    BY <1>1, <1>3, <2>2
  <2>5. \A m \in N + 1 - (n + 1) .. N + 1 : From(g, a, m)
    BY <2>3, <2>4
  <2> QED
    BY <1>3, <2>5
<1>4. PICK p : \A m \in 1 .. N + 1 : From(p, a, m)
  <2> HIDE DEF T
  <2>1. \A n \in 0 .. N : n \in T
    BY <1>1, <1>2, <1>3, Counting
  <2>2. N \in T /\ N + 1 - N = 1
    BY <1>1, <2>1
  <2> QED
    BY <2>2 DEF T
<1> DEFINE f == [m \in 1 .. N + 1 |-> p[m]]
           Solves(x) == x = [k \in 1 .. Len(a.calls) + 1 |->
             IF k > Len(a.calls) THEN <<[type |-> "DONE"]>>
             ELSE <<[type |-> "added", call |-> k]>> \o (Deltas(a, k) \o (<<Done(a, k)>> \o x[k + 1]))]
           c == CHOOSE x : Solves(x)
<1>5. Solves(f)
  <2>1. ASSUME NEW k \in 1 .. N + 1
        PROVE  f[k] = IF k > N THEN <<[type |-> "DONE"]>>
             ELSE <<[type |-> "added", call |-> k]>> \o (Deltas(a, k) \o (<<Done(a, k)>> \o f[k + 1]))
    <3>1. f[k] = p[k] /\ (~(k > N) => f[k + 1] = p[k + 1]) /\ From(p, a, k)
      BY <1>1, <1>4
    <3> HIDE DEF f
    <3> QED
      BY <3>1 DEF From, N
  <2> DEFINE F(k) == IF k > N THEN <<[type |-> "DONE"]>>
             ELSE <<[type |-> "added", call |-> k]>> \o (Deltas(a, k) \o (<<Done(a, k)>> \o f[k + 1]))
  <2>2. f = [k \in 1 .. N + 1 |-> f[k]]
    OBVIOUS
  <2> HIDE DEF f
  <2>3. f = [k \in 1 .. N + 1 |-> F(k)]
    BY <2>1, <2>2
  <2> QED
    BY <2>3 DEF N
<1>6. Solves(c)
  <2> HIDE DEF f, Solves
  <2> QED
    BY <1>5
<1>7. EventsFrom(a) = c
  BY DEF EventsFrom
<1> HIDE DEF c
<1> QED
  BY <1>6, <1>7 DEF From

Event == [type : {"text", "args"}, delta : Pieces] \cup [type : {"added"}, call : Nat]
         \cup [type : {"args_done"}, call : Nat, args : Seq(Pieces)] \cup [type : {"DONE"}]

(* A sequence with an element before it has that head and that tail.       *)
LEMMA ConsHead ==
  ASSUME NEW S, NEW x \in S, NEW r \in Seq(S)
  PROVE  <<x>> \o r \in Seq(S) /\ <<x>> \o r # <<>> /\ Head(<<x>> \o r) = x /\ Tail(<<x>> \o r) = r
<1> DEFINE q == <<x>> \o r
<1>1. q \in Seq(S) /\ Len(q) = 1 + Len(r) /\ Len(r) \in Nat
  OBVIOUS
<1>2. q[1] = x /\ \A i \in 1 .. Len(r) : q[i + 1] = r[i]
  OBVIOUS
<1> HIDE DEF q
<1>3. q # <<>> /\ Head(q) = x /\ Tail(q) \in Seq(S) /\ Len(Tail(q)) = Len(r)
  BY <1>1, <1>2
<1>4. \A i \in 1 .. Len(r) : Tail(q)[i] = r[i]
  BY <1>1, <1>2, <1>3
<1>5. Tail(q) = r
  BY <1>1, <1>3, <1>4
<1> QED
  BY <1>1, <1>3, <1>5 DEF q

Rest(s, n) == SubSeq(s, n + 1, Len(s))

(* The head and the tail of what is left of s before r.                    *)
LEMMA DropHead ==
  ASSUME NEW S, NEW s \in Seq(S), NEW r \in Seq(S), NEW n \in 0 .. Len(s)
  PROVE  /\ Rest(s, n) \o r \in Seq(S)
         /\ n = Len(s) => Rest(s, n) \o r = r
         /\ n < Len(s) => /\ Rest(s, n) \o r # <<>>
                          /\ Head(Rest(s, n) \o r) = s[n + 1]
                          /\ Tail(Rest(s, n) \o r) = Rest(s, n + 1) \o r
<1>0. Len(s) \in Nat /\ Len(r) \in Nat
  OBVIOUS
<1> DEFINE d == Rest(s, n)
           e == Rest(s, n + 1)
<1>1. d \in Seq(S) /\ Len(d) = Len(s) - n /\ \A i \in 1 .. Len(s) - n : d[i] = s[n + i]
  BY <1>0 DEF Rest
<1>2. CASE n = Len(s)
  <2>1. d = <<>>
    BY <1>0, <1>1, <1>2
  <2> HIDE DEF d
  <2>2. <<>> \o r = r
    OBVIOUS
  <2> QED
    BY <1>2, <2>1, <2>2, <1>1 DEF d
<1>3. CASE n < Len(s)
  <2>1. e \in Seq(S) /\ Len(e) = Len(s) - n - 1 /\ \A i \in 1 .. Len(s) - n - 1 : e[i] = s[n + 1 + i]
    BY <1>0, <1>3 DEF Rest
  <2>2. s[n + 1] \in S /\ d[1] = s[n + 1]
    BY <1>0, <1>1, <1>3
  <2> HIDE DEF d, e
  <2>3. d = <<s[n + 1]>> \o e
    <3> DEFINE c == <<s[n + 1]>> \o e
    <3>1. c \in Seq(S) /\ Len(c) = Len(s) - n /\ c[1] = s[n + 1]
      BY <1>0, <1>3, <2>1, <2>2
    <3>2. \A i \in 1 .. Len(s) - n : i # 1 => c[i] = e[i - 1]
      BY <1>0, <1>3, <2>1, <2>2
    <3>3. \A i \in 1 .. Len(s) - n : i # 1 => e[i - 1] = d[i]
      BY <1>0, <1>1, <1>3, <2>1
    <3> HIDE DEF c
    <3>4. \A i \in 1 .. Len(s) - n : c[i] = d[i]
      BY <2>2, <3>1, <3>2, <3>3
    <3>5. c = d
      BY SMTT(30), <1>0, <1>1, <3>1, <3>4
    <3> QED
      BY <3>5 DEF c
  <2>4. d \o r = <<s[n + 1]>> \o (e \o r) /\ e \o r \in Seq(S)
    BY <1>0, <2>1, <2>2, <2>3
  <2>5. d \o r # <<>> /\ Head(d \o r) = s[n + 1] /\ Tail(d \o r) = e \o r /\ d \o r \in Seq(S)
    BY <2>2, <2>4, ConsHead
  <2>6. n # Len(s)
    BY <1>0, <1>3
  <2> QED
    BY <2>5, <2>6 DEF d, e
<1>4. n = Len(s) \/ n < Len(s)
  BY <1>0
<1> QED
  BY <1>2, <1>3, <1>4

(* The first n + 1 elements are the first n and one more.                  *)
LEMMA OneMore ==
  ASSUME NEW S, NEW s \in Seq(S)
  PROVE  /\ SubSeq(s, 1, 0) = <<>> /\ SubSeq(s, 1, Len(s)) = s
         /\ \A n \in Nat : n < Len(s) => SubSeq(s, 1, n + 1) = Append(SubSeq(s, 1, n), s[n + 1])
<1>0. Len(s) \in Nat
  OBVIOUS
<1>1. SubSeq(s, 1, 0) = <<>> /\ SubSeq(s, 1, Len(s)) = s
  OBVIOUS
<1>2. ASSUME NEW n \in Nat, n < Len(s) PROVE SubSeq(s, 1, n + 1) = Append(SubSeq(s, 1, n), s[n + 1])
  <2> DEFINE u == SubSeq(s, 1, n)
             v == SubSeq(s, 1, n + 1)
  <2>1. u \in Seq(S) /\ Len(u) = n /\ \A i \in 1 .. n : u[i] = s[i]
    BY <1>0, <1>2
  <2>2. v \in Seq(S) /\ Len(v) = n + 1 /\ \A i \in 1 .. n + 1 : v[i] = s[i]
    BY <1>0, <1>2
  <2>3. s[n + 1] \in S
    BY <1>0, <1>2
  <2> HIDE DEF u, v
  <2>4. Append(u, s[n + 1]) = v
    BY <2>1, <2>2, <2>3
  <2> QED
    BY <2>4 DEF u, v
<1> QED
  BY <1>1, <1>2

(* The types of the events.                                                *)
LEMMA AnswerType ==
  ASSUME NEW a \in Answers
  PROVE  /\ a.text \in Seq(Pieces) /\ Len(a.text) \in Nat
         /\ a.calls \in Seq(Seq(Pieces)) /\ Len(a.calls) \in Nat
         /\ \A k \in 1 .. Len(a.calls) : a.calls[k] \in Seq(Pieces) /\ Len(a.calls[k]) \in Nat
         /\ a.full \in BOOLEAN /\ a.late \in BOOLEAN
BY AnswersAssumption

(* The events of a text and of a call, one by one.                         *)
LEMMA EventTypes ==
  ASSUME NEW a \in Answers
  PROVE  /\ Text(a) \in Seq(Event) /\ Len(Text(a)) = Len(a.text)
         /\ \A i \in 1 .. Len(a.text) : Text(a)[i] = [type |-> "text", delta |-> a.text[i]]
         /\ \A k \in 1 .. Len(a.calls) :
              /\ Deltas(a, k) \in Seq(Event) /\ Len(Deltas(a, k)) \in Nat
              /\ ~a.late => Len(Deltas(a, k)) = Len(a.calls[k])
              /\ a.late => Len(Deltas(a, k)) = 0
              /\ \A i \in 1 .. Len(Deltas(a, k)) :
                   Deltas(a, k)[i] = [type |-> "args", delta |-> a.calls[k][i]]
              /\ Done(a, k) \in Event /\ [type |-> "added", call |-> k] \in Event
<1>1. ASSUME NEW i \in 1 .. Len(a.text) PROVE [type |-> "text", delta |-> a.text[i]] \in Event
  BY AnswerType DEF Event
<1>2. Text(a) \in Seq(Event) /\ Len(Text(a)) = Len(a.text)
  BY <1>1, AnswerType DEF Text
<1>3. \A i \in 1 .. Len(a.text) : Text(a)[i] = [type |-> "text", delta |-> a.text[i]]
  BY AnswerType DEF Text
<1>4. ASSUME NEW k \in 1 .. Len(a.calls)
      PROVE  /\ Deltas(a, k) \in Seq(Event) /\ Len(Deltas(a, k)) \in Nat
             /\ ~a.late => Len(Deltas(a, k)) = Len(a.calls[k])
             /\ a.late => Len(Deltas(a, k)) = 0
             /\ \A i \in 1 .. Len(Deltas(a, k)) :
                   Deltas(a, k)[i] = [type |-> "args", delta |-> a.calls[k][i]]
             /\ Done(a, k) \in Event /\ [type |-> "added", call |-> k] \in Event
  <2>0. a.calls[k] \in Seq(Pieces) /\ Len(a.calls[k]) \in Nat /\ k \in Nat
    BY AnswerType
  <2>1. Done(a, k) \in Event /\ [type |-> "added", call |-> k] \in Event
    BY <2>0 DEF Done, Event
  <2>2. CASE a.late
    BY <2>1, <2>2 DEF Deltas
  <2>3. CASE ~a.late
    <3> DEFINE D == [i \in 1 .. Len(a.calls[k]) |-> [type |-> "args", delta |-> a.calls[k][i]]]
    <3>1. Deltas(a, k) = D
      BY <2>0, <2>3 DEF Deltas
    <3>2. \A i \in 1 .. Len(a.calls[k]) : [type |-> "args", delta |-> a.calls[k][i]] \in Event
      BY <2>0 DEF Event
    <3>3. D \in Seq(Event) /\ Len(D) = Len(a.calls[k])
      BY <2>0, <3>2
    <3>4. \A i \in 1 .. Len(D) : D[i] = [type |-> "args", delta |-> a.calls[k][i]]
      BY <2>0, <3>3
    <3> HIDE DEF D
    <3> QED
      BY <2>0, <2>1, <2>3, <3>1, <3>3, <3>4
  <2> QED
    BY <2>2, <2>3
<1> QED
  BY <1>2, <1>3, <1>4

(* All events of an answer are events.                                     *)
LEMMA FromTyped ==
  ASSUME NEW a \in Answers
  PROVE  \A k \in 1 .. Len(a.calls) + 1 : EventsFrom(a)[k] \in Seq(Event)
<1> DEFINE N == Len(a.calls)
           f == EventsFrom(a)
           T == {n \in Nat : f[N + 1 - n] \in Seq(Event)}
<1>1. N \in Nat
  BY AnswerType
<1>2. 0 \in T
  <2>1. From(f, a, N + 1) /\ N + 1 > N
    BY <1>1, FromSolved
  <2>2. f[N + 1] = <<[type |-> "DONE"]>>
    BY <2>1 DEF From
  <2>3. [type |-> "DONE"] \in Event
    BY DEF Event
  <2>4. f[N + 1] \in Seq(Event) /\ N + 1 - 0 = N + 1
    <3> HIDE DEF f
    <3> QED
      BY <1>1, <2>2, <2>3
  <2> QED
    BY <2>4
<1>3. ASSUME NEW n \in Nat, n < N, n \in T PROVE n + 1 \in T
  <2> HIDE DEF N, f, T
  <2>0. PICK k \in 1 .. N + 1 : k = N + 1 - (n + 1)
    BY <1>1, <1>3
  <2>1. SUFFICES f[k] \in Seq(Event)
    BY <1>3, <2>0 DEF T
  <2>2. k \in 1 .. N /\ k + 1 \in 1 .. N + 1 /\ k + 1 = N + 1 - n /\ ~(k > N)
    BY <1>1, <1>3, <2>0
  <2> USE DEF N, f
  <2>3. f[k + 1] \in Seq(Event)
    <3> HIDE DEF N, f
    <3> QED
      BY <1>3, <2>2 DEF T
  <2>4. From(f, a, k)
    BY <2>0, FromSolved
  <2> HIDE DEF f
  <2>5. f[k] = <<[type |-> "added", call |-> k]>> \o (Deltas(a, k) \o (<<Done(a, k)>> \o f[k + 1]))
    BY <2>2, <2>4 DEF From
  <2>6. /\ [type |-> "added", call |-> k] \in Event /\ Done(a, k) \in Event /\ Deltas(a, k) \in Seq(Event)
    BY <2>2, EventTypes
  <2>7. <<Done(a, k)>> \o f[k + 1] \in Seq(Event)
    BY <2>3, <2>6, ConsHead
  <2>8. Deltas(a, k) \o (<<Done(a, k)>> \o f[k + 1]) \in Seq(Event)
    BY <2>6, <2>7
  <2> QED
    BY <2>5, <2>6, <2>8, ConsHead
<1> HIDE DEF T
<1>4. \A n \in 0 .. N : n \in T
  BY <1>1, <1>2, <1>3, Counting
<1>5. ASSUME NEW k \in 1 .. N + 1 PROVE f[k] \in Seq(Event)
  <2>1. N + 1 - k \in 0 .. N /\ k = N + 1 - (N + 1 - k)
    BY <1>1
  <2>2. N + 1 - k \in T
    BY <1>4, <2>1
  <2> QED
    BY <2>1, <2>2 DEF T
<1> QED
  BY <1>5

-----------------------------------------------------------------------------
(* What the provider has of an answer, and what is still to come of it: in *)
(* the text, between two calls, in a call, or at the end.                  *)
Whole(a, k) == [call |-> k, args |-> a.calls[k]]
FirstCalls(a, n) == SubSeq([k \in 1 .. Len(a.calls) |-> Whole(a, k)], 1, n)
Collected(content, calls, args, call) ==
  [content |-> content, calls |-> calls, args |-> args, call |-> call, map |-> <<>>]

InText(a, g, l) ==
  \E t \in 0 .. Len(a.text) :
    /\ g = Collected(SubSeq(a.text, 1, t), <<>>, <<>>, 0)
    /\ l = Rest(Text(a), t) \o EventsFrom(a)[1]
Between(a, g, l) ==
  \E k \in 1 .. Len(a.calls) + 1, c \in Nat :
    g = Collected(a.text, FirstCalls(a, k - 1), <<>>, c) /\ l = EventsFrom(a)[k]
InCall(a, g, l) ==
  \E k \in 1 .. Len(a.calls), n \in Nat :
    /\ n <= Len(Deltas(a, k))
    /\ g = Collected(a.text, FirstCalls(a, k - 1), SubSeq(a.calls[k], 1, n), k)
    /\ l = Rest(Deltas(a, k), n) \o (<<Done(a, k)>> \o EventsFrom(a)[k + 1])
AtEnd(a, g, l) ==
  l = <<>> /\ \E c \in Nat : g = Collected(a.text, FirstCalls(a, Len(a.calls)), <<>>, c)

Along(a, g, l) == InText(a, g, l) \/ Between(a, g, l) \/ InCall(a, g, l) \/ AtEnd(a, g, l)

(* The first k calls are the first k - 1 and one more.                     *)
LEMMA CallsGrow ==
  ASSUME NEW a \in Answers
  PROVE  /\ FirstCalls(a, 0) = <<>>
         /\ \A k \in 1 .. Len(a.calls) : FirstCalls(a, k) = Append(FirstCalls(a, k - 1), Whole(a, k))
         /\ FirstCalls(a, Len(a.calls)) = [k \in 1 .. Len(a.calls) |-> Whole(a, k)]
<1> DEFINE s == [k \in 1 .. Len(a.calls) |-> Whole(a, k)]
<1>1. Len(a.calls) \in Nat
  BY AnswerType
<1>2. s \in Seq({Whole(a, k) : k \in 1 .. Len(a.calls)}) /\ Len(s) = Len(a.calls)
  BY <1>1
<1>3. \A k \in 1 .. Len(a.calls) : s[k] = Whole(a, k)
  OBVIOUS
<1> HIDE DEF s
<1>4. FirstCalls(a, 0) = <<>> /\ FirstCalls(a, Len(a.calls)) = s
  BY <1>2, OneMore DEF FirstCalls, s
<1>5. ASSUME NEW k \in 1 .. Len(a.calls)
      PROVE FirstCalls(a, k) = Append(FirstCalls(a, k - 1), Whole(a, k))
  <2>1. PICK n \in Nat : n = k - 1 /\ n < Len(s) /\ n + 1 = k
    BY <1>1, <1>2
  <2>2. SubSeq(s, 1, n + 1) = Append(SubSeq(s, 1, n), s[n + 1])
    BY <1>2, <2>1, OneMore
  <2> QED
    BY <1>3, <2>1, <2>2 DEF FirstCalls, s
<1> QED
  BY <1>4, <1>5 DEF s

(* One event further.                                                      *)
LEMMA TextAlong ==
  ASSUME NEW a \in Answers, NEW g, NEW l, InText(a, g, l), l # <<>>, ~Between(a, g, l)
  PROVE  InText(a, Handle(g, Head(l)), Tail(l))
<1>1. PICK t \in 0 .. Len(a.text) :
        /\ g = Collected(SubSeq(a.text, 1, t), <<>>, <<>>, 0)
        /\ l = Rest(Text(a), t) \o EventsFrom(a)[1]
  BY DEF InText
<1>2. /\ a.text \in Seq(Pieces) /\ Len(a.text) \in Nat /\ Len(a.calls) \in Nat
      /\ Text(a) \in Seq(Event) /\ Len(Text(a)) = Len(a.text)
      /\ \A i \in 1 .. Len(a.text) : Text(a)[i] = [type |-> "text", delta |-> a.text[i]]
  BY AnswerType, EventTypes
<1>3. 1 \in 1 .. Len(a.calls) + 1 /\ EventsFrom(a)[1] \in Seq(Event)
  BY <1>2, FromTyped
<1>0. t \in 0 .. Len(Text(a)) /\ Text(a) \in Seq(Event)
  BY <1>2
<1> DEFINE r == EventsFrom(a)[1]
<1>r. r \in Seq(Event) /\ l = Rest(Text(a), t) \o r
  BY <1>1, <1>3
<1> HIDE DEF r
<1>4. t # Len(a.text)
  <2> SUFFICES ASSUME t = Len(a.text) PROVE FALSE
    OBVIOUS
  <2>0. t = Len(Text(a))
    BY <1>2
  <2>1. Rest(Text(a), t) \o r = r
    BY ZenonT(30), <1>0, <1>r, <2>0, DropHead
  <2>9. l = EventsFrom(a)[1]
    BY <1>r, <2>1 DEF r
  <2>2. SubSeq(a.text, 1, t) = a.text
    BY <1>2, OneMore
  <2>3. FirstCalls(a, 1 - 1) = <<>>
    <3>1. 1 - 1 = 0
      OBVIOUS
    <3>2. FirstCalls(a, 0) = <<>>
      BY CallsGrow
    <3> QED
      BY <3>1, <3>2
  <2>4. g = Collected(a.text, FirstCalls(a, 1 - 1), <<>>, 0) /\ 0 \in Nat
    BY <1>1, <2>2, <2>3
  <2> QED
    BY <1>3, <2>4, <2>9 DEF Between
<1>5. t < Len(a.text) /\ t \in Nat /\ t + 1 \in 0 .. Len(a.text) /\ t + 1 \in 1 .. Len(a.text)
  BY <1>2, <1>4
<1>6. /\ Head(l) = Text(a)[t + 1]
      /\ Tail(l) = Rest(Text(a), t + 1) \o EventsFrom(a)[1]
  <2>1. t < Len(Text(a))
    BY <1>2, <1>5
  <2>2. /\ Head(Rest(Text(a), t) \o r) = Text(a)[t + 1]
        /\ Tail(Rest(Text(a), t) \o r) = Rest(Text(a), t + 1) \o r
    BY ZenonT(30), <1>0, <1>r, <2>1, DropHead
  <2> QED
    BY <1>r, <2>2 DEF r
<1>7. Head(l) = [type |-> "text", delta |-> a.text[t + 1]]
  BY <1>2, <1>5, <1>6
<1>8. Handle(g, Head(l)) = [g EXCEPT !.content = Append(@, a.text[t + 1])]
  BY <1>7 DEF Handle
<1>9. Append(SubSeq(a.text, 1, t), a.text[t + 1]) = SubSeq(a.text, 1, t + 1)
  BY <1>2, <1>5, OneMore
<1>10. Handle(g, Head(l)) = Collected(SubSeq(a.text, 1, t + 1), <<>>, <<>>, 0)
  BY <1>1, <1>8, <1>9 DEF Collected
<1> QED
  BY <1>5, <1>6, <1>10 DEF InText

(* Between two calls the next begins, or the stream is done.               *)
LEMMA BetweenAlong ==
  ASSUME NEW a \in Answers, NEW g, NEW l, Between(a, g, l), l # <<>>
  PROVE  Along(a, Handle(g, Head(l)), Tail(l))
<1>1. PICK k \in 1 .. Len(a.calls) + 1, c \in Nat :
        g = Collected(a.text, FirstCalls(a, k - 1), <<>>, c) /\ l = EventsFrom(a)[k]
  BY DEF Between
<1>2. Len(a.calls) \in Nat /\ k \in Nat
  BY AnswerType
<1>3. From(EventsFrom(a), a, k)
  BY FromSolved
<1>4. CASE k > Len(a.calls)
  <2>1. l = <<[type |-> "DONE"]>> /\ k - 1 = Len(a.calls)
    BY <1>1, <1>2, <1>3, <1>4 DEF From
  <2>2. Head(l) = [type |-> "DONE"] /\ Tail(l) = <<>>
    BY <2>1
  <2>3. Handle(g, Head(l)) = g
    BY <2>2 DEF Handle
  <2>4. AtEnd(a, Handle(g, Head(l)), Tail(l))
    BY <1>1, <2>1, <2>2, <2>3 DEF AtEnd
  <2> QED
    BY <2>4 DEF Along
<1>5. CASE ~(k > Len(a.calls))
  <2> DEFINE rest == Deltas(a, k) \o (<<Done(a, k)>> \o EventsFrom(a)[k + 1])
             added == [type |-> "added", call |-> k]
  <2>1. k \in 1 .. Len(a.calls) /\ k + 1 \in 1 .. Len(a.calls) + 1
    BY <1>2, <1>5
  <2>2. l = <<added>> \o rest
    BY <1>1, <1>3, <1>5 DEF From
  <2>3. /\ Deltas(a, k) \in Seq(Event) /\ Len(Deltas(a, k)) \in Nat /\ added \in Event
        /\ Done(a, k) \in Event
    BY <2>1, EventTypes
  <2>4. <<Done(a, k)>> \o EventsFrom(a)[k + 1] \in Seq(Event)
    BY <2>1, <2>3, FromTyped, ConsHead
  <2>5. rest \in Seq(Event)
    BY <2>3, <2>4
  <2>6. Head(l) = added /\ Tail(l) = rest
    <3> HIDE DEF rest, added
    <3> QED
      BY <2>2, <2>3, <2>5, ConsHead
  <2>7. Handle(g, Head(l)) = [g EXCEPT !.call = k]
    <3>1. Head(l) = [type |-> "added", call |-> k]
      BY <2>6
    <3> QED
      BY <3>1 DEF Handle
  <2>8. SubSeq(a.calls[k], 1, 0) = <<>>
    BY <2>1, AnswerType, OneMore
  <2>9. Handle(g, Head(l)) = Collected(a.text, FirstCalls(a, k - 1), SubSeq(a.calls[k], 1, 0), k)
    BY <1>1, <2>7, <2>8 DEF Collected
  <2>10. Rest(Deltas(a, k), 0) = Deltas(a, k)
    BY <2>3, OneMore DEF Rest
  <2>11. Tail(l) = Rest(Deltas(a, k), 0) \o (<<Done(a, k)>> \o EventsFrom(a)[k + 1])
    BY <2>6, <2>10
  <2>12. 0 \in Nat /\ 0 <= Len(Deltas(a, k))
    BY <2>3
  <2>13. InCall(a, Handle(g, Head(l)), Tail(l))
    BY <2>1, <2>9, <2>11, <2>12 DEF InCall
  <2> QED
    BY <2>13 DEF Along
<1> QED
  BY <1>4, <1>5

Closing(g, calls, call) == [g EXCEPT !.calls = calls, !.args = <<>>, !.call = call]

(* What a completed call makes of what is collected.                       *)
LEMMA ThreeFields ==
  ASSUME NEW c, NEW f, NEW s, NEW k, NEW b, NEW x
  PROVE  Closing(Collected(c, f, s, k), b, x) = Collected(c, b, <<>>, x)
<1> DEFINE g == Collected(c, f, s, k)
<1> DEFINE g1 == [g EXCEPT !.calls = b]
           g2 == [g1 EXCEPT !.args = <<>>]
           g3 == [g2 EXCEPT !.call = x]
<1>1. g1 = [content |-> c, calls |-> b, args |-> s, call |-> k, map |-> <<>>]
  BY DEF Collected
<1> HIDE DEF g1
<1>2. g2 = [content |-> c, calls |-> b, args |-> <<>>, call |-> k, map |-> <<>>]
  BY <1>1
<1> HIDE DEF g2
<1>3. g3 = [content |-> c, calls |-> b, args |-> <<>>, call |-> x, map |-> <<>>]
  BY <1>2
<1>4. g3 = Closing(g, b, x)
  BY DEF g1, g2, Closing
<1> QED
  BY <1>3, <1>4 DEF Collected

(* In a call its next piece arrives, or it is complete.                    *)
LEMMA CallAlong ==
  ASSUME NEW a \in Answers, NEW g, NEW l, InCall(a, g, l), l # <<>>
  PROVE  Along(a, Handle(g, Head(l)), Tail(l))
<1> DEFINE after(k) == <<Done(a, k)>> \o EventsFrom(a)[k + 1]
<1>1. PICK k \in 1 .. Len(a.calls), n \in Nat :
        /\ n <= Len(Deltas(a, k))
        /\ g = Collected(a.text, FirstCalls(a, k - 1), SubSeq(a.calls[k], 1, n), k)
        /\ l = Rest(Deltas(a, k), n) \o after(k)
  BY DEF InCall
<1>2. Len(a.calls) \in Nat /\ k \in Nat /\ k # 0 /\ k + 1 \in 1 .. Len(a.calls) + 1 /\ (k + 1) - 1 = k
  BY AnswerType
<1>3. a.calls[k] \in Seq(Pieces) /\ Len(a.calls[k]) \in Nat
  BY AnswerType
<1>4. /\ Deltas(a, k) \in Seq(Event) /\ Len(Deltas(a, k)) \in Nat
      /\ ~a.late => Len(Deltas(a, k)) = Len(a.calls[k])
      /\ a.late => Len(Deltas(a, k)) = 0
      /\ \A i \in 1 .. Len(Deltas(a, k)) :
              Deltas(a, k)[i] = [type |-> "args", delta |-> a.calls[k][i]]
      /\ Done(a, k) \in Event
  BY EventTypes
<1>5. EventsFrom(a)[k + 1] \in Seq(Event) /\ after(k) \in Seq(Event)
  BY <1>2, <1>4, FromTyped, ConsHead
<1>6. n \in 0 .. Len(Deltas(a, k))
  BY <1>1, <1>4
<1>7. CASE n < Len(Deltas(a, k))
  <2>1. Head(l) = Deltas(a, k)[n + 1] /\ Tail(l) = Rest(Deltas(a, k), n + 1) \o after(k)
    <3>1. Deltas(a, k) \in Seq(Event) /\ after(k) \in Seq(Event)
      BY <1>4, <1>5
    <3>2. l = Rest(Deltas(a, k), n) \o after(k)
      BY <1>1
    <3> HIDE DEF after
    <3> QED
      BY ZenonT(30), <1>6, <1>7, <3>1, <3>2, DropHead
  <2>2. n + 1 \in 1 .. Len(Deltas(a, k)) /\ n + 1 <= Len(Deltas(a, k)) /\ n < Len(a.calls[k]) /\ n + 1 \in Nat
    BY <1>3, <1>4, <1>6, <1>7
  <2>3. Head(l) = [type |-> "args", delta |-> a.calls[k][n + 1]]
    BY <1>4, <2>1, <2>2
  <2>4. Handle(g, Head(l)) = [g EXCEPT !.args = Append(@, a.calls[k][n + 1])]
    BY <2>3 DEF Handle
  <2>5. Append(SubSeq(a.calls[k], 1, n), a.calls[k][n + 1]) = SubSeq(a.calls[k], 1, n + 1)
    BY <1>3, <2>2, OneMore
  <2>6. Handle(g, Head(l)) = Collected(a.text, FirstCalls(a, k - 1), SubSeq(a.calls[k], 1, n + 1), k)
    BY <1>1, <2>4, <2>5 DEF Collected
  <2>7. InCall(a, Handle(g, Head(l)), Tail(l))
    BY <2>1, <2>2, <2>6 DEF InCall
  <2> QED
    BY <2>7 DEF Along
<1>8. CASE n = Len(Deltas(a, k))
  <2>1. l = after(k)
    <3> HIDE DEF after
    <3> QED
      BY ZenonT(30), <1>1, <1>4, <1>5, <1>6, <1>8, DropHead
  <2>2. Head(l) = Done(a, k) /\ Tail(l) = EventsFrom(a)[k + 1]
    BY <1>4, <1>5, <2>1, ConsHead
  <2>3. Handle(g, Head(l)) = ArgsDone(g, Done(a, k))
    BY <2>2 DEF Handle, Done
  <2>4. (IF SubSeq(a.calls[k], 1, n) # <<>> THEN SubSeq(a.calls[k], 1, n) ELSE a.calls[k]) = a.calls[k]
    <3>1. CASE a.late
      BY <1>3, <1>4, <1>8, <3>1, OneMore
    <3>2. CASE ~a.late
      BY <1>3, <1>4, <1>8, <3>2, OneMore
    <3> QED
      BY <3>1, <3>2
  <2>5. FirstCalls(a, k) = Append(FirstCalls(a, k - 1), Whole(a, k))
    BY CallsGrow
  <2> DEFINE s == SubSeq(a.calls[k], 1, n)
             f == FirstCalls(a, k - 1)
             e == IF a.full THEN k ELSE 0
  <2>6. Done(a, k).call = e /\ Done(a, k).args = a.calls[k]
    BY DEF Done
  <2>7. /\ g.call = k /\ g.args = s /\ g.calls = f /\ g.content = a.text
        /\ g = [content |-> a.text, calls |-> f, args |-> s, call |-> k, map |-> <<>>]
    BY <1>1 DEF Collected
  <2>8. (IF e # 0 THEN e ELSE k) = k /\ (IF e # 0 THEN k ELSE 0) \in Nat
    BY <1>2
  <2>9. [call |-> IF e # 0 THEN e ELSE g.call, args |-> IF g.args # <<>> THEN g.args ELSE a.calls[k]]
          = Whole(a, k)
    <3> HIDE DEF e, s
    <3> QED
      BY <2>4, <2>7, <2>8 DEF Whole, s
  <2> DEFINE w == [call |-> IF e # 0 THEN e ELSE g.call,
                   args |-> IF g.args # <<>> THEN g.args ELSE a.calls[k]]
  <2>10. ArgsDone(g, Done(a, k))
           = [g EXCEPT !.calls = Append(@, w), !.args = <<>>, !.call = IF e # 0 THEN @ ELSE 0]
    <3> HIDE DEF e
    <3> QED
      BY <2>6 DEF ArgsDone
  <2>11. ArgsDone(g, Done(a, k)) = Collected(a.text, Append(f, Whole(a, k)), <<>>, IF e # 0 THEN k ELSE 0)
    <3>1. w = Whole(a, k)
      BY <2>9
    <3> DEFINE x == IF e # 0 THEN k ELSE 0
    <3>2. ArgsDone(g, Done(a, k)) = Closing(g, Append(f, w), x)
      <4> HIDE DEF e, s, f, w
      <4> QED
        BY <2>7, <2>10 DEF Closing
    <3>3. g = Collected(a.text, f, s, k)
      BY <1>1
    <3> HIDE DEF e, s, f, w, x
    <3>4. Closing(g, Append(f, w), x) = Collected(a.text, Append(f, w), <<>>, x)
      BY <3>3, ThreeFields
    <3>5. ArgsDone(g, Done(a, k)) = Collected(a.text, Append(f, Whole(a, k)), <<>>, x)
      BY <3>1, <3>2, <3>4
    <3> QED
      BY <3>5 DEF x
  <2>12. Handle(g, Head(l)) = Collected(a.text, FirstCalls(a, (k + 1) - 1), <<>>, IF e # 0 THEN k ELSE 0)
    BY <1>2, <2>3, <2>5, <2>11
  <2>13. Between(a, Handle(g, Head(l)), Tail(l))
    <3> HIDE DEF e
    <3> QED
      BY <1>2, <2>2, <2>8, <2>12 DEF Between
  <2> QED
    BY <2>13 DEF Along
<1> QED
  BY <1>4, <1>6, <1>7, <1>8

(* Whatever event comes next, what is collected and to come still fit.     *)
LEMMA EventAlong ==
  ASSUME NEW a \in Answers, NEW g, NEW l, Along(a, g, l), l # <<>>
  PROVE  Along(a, Handle(g, Head(l)), Tail(l))
<1>1. CASE Between(a, g, l)
  BY <1>1, BetweenAlong
<1>2. CASE InText(a, g, l) /\ ~Between(a, g, l)
  BY <1>2, TextAlong DEF Along
<1>3. CASE InCall(a, g, l)
  BY <1>3, CallAlong
<1>4. ~AtEnd(a, g, l)
  BY DEF AtEnd
<1> QED
  BY <1>1, <1>2, <1>3, <1>4 DEF Along

-----------------------------------------------------------------------------
(* Lines: what Handled computes of several.                                *)
Held(f, g, lines, n) == f[n] = IF n = 0 THEN g ELSE Handle(f[n - 1], lines[n])

(* After n lines: what was after n - 1, and the n-th handled.              *)
LEMMA HandledSolved ==
  ASSUME NEW S, NEW lines \in Seq(S), NEW g
  PROVE  \A n \in 0 .. Len(lines) : Held(Handled(g, lines), g, lines, n)
<1> DEFINE T == {n \in Nat : \E p : \A m \in 0 .. n : Held(p, g, lines, m)}
<1>1. Len(lines) \in Nat
  OBVIOUS
<1>2. 0 \in T
  <2>1. \A m \in 0 .. 0 : Held([k \in {0} |-> g], g, lines, m)
    BY DEF Held
  <2> QED
    BY <2>1
<1>3. ASSUME NEW n \in T PROVE n + 1 \in T
  <2>1. PICK p : \A m \in 0 .. n : Held(p, g, lines, m)
    OBVIOUS
  <2> DEFINE h == [k \in 0 .. n + 1 |-> IF k <= n THEN p[k] ELSE Handle(p[n], lines[n + 1])]
  <2>2. ASSUME NEW m \in 0 .. n + 1 PROVE Held(h, g, lines, m)
    <3>1. CASE m <= n
      <4>1. h[m] = p[m] /\ (m # 0 => h[m - 1] = p[m - 1])
        BY <3>1
      <4>2. Held(p, g, lines, m)
        BY <2>1, <3>1
      <4> QED
        BY <4>1, <4>2 DEF Held
    <3>2. CASE m = n + 1
      <4>1. m # 0 /\ m - 1 = n /\ h[n] = p[n]
        BY <3>2
      <4>2. h[m] = Handle(p[n], lines[n + 1])
        BY <3>2
      <4> QED
        BY <3>2, <4>1, <4>2 DEF Held
    <3> QED
      BY <3>1, <3>2
  <2> HIDE DEF h
  <2> QED
    BY <2>2
<1>4. PICK p : \A m \in 0 .. Len(lines) : Held(p, g, lines, m)
  <2> HIDE DEF T
  <2>1. \A n \in 0 .. Len(lines) : n \in T
    BY <1>1, <1>2, <1>3, Counting
  <2>2. Len(lines) \in T
    BY <1>1, <2>1
  <2> QED
    BY <2>2 DEF T
<1> DEFINE f == [m \in 0 .. Len(lines) |-> p[m]]
           Solves(x) == x = [n \in 0 .. Len(lines) |-> IF n = 0 THEN g ELSE Handle(x[n - 1], lines[n])]
           c == CHOOSE x : Solves(x)
<1>5. Solves(f)
  BY <1>1, <1>4 DEF Held
<1>6. Solves(c)
  <2> HIDE DEF f, Solves
  <2> QED
    BY <1>5
<1>7. Handled(g, lines) = c
  BY DEF Handled
<1>8. \A n \in 0 .. Len(lines) : Held(c, g, lines, n)
  <2> HIDE DEF c
  <2> QED
    BY <1>6 DEF Held
<1> QED
  BY <1>7, <1>8

(* What is left after n elements: its head and its tail.                   *)
LEMMA RestHead ==
  ASSUME NEW S, NEW s \in Seq(S), NEW n \in 0 .. Len(s)
  PROVE  /\ Rest(s, n) \in Seq(S) /\ Rest(s, 0) = s
         /\ Rest(s, n) = <<>> <=> n = Len(s)
         /\ n < Len(s) => /\ Rest(s, n) # <<>> /\ Head(Rest(s, n)) = s[n + 1]
                          /\ Tail(Rest(s, n)) = Rest(s, n + 1)
<1>1. Len(s) \in Nat /\ <<>> \in Seq(S)
  OBVIOUS
<1>2. Rest(s, n) \in Seq(S) /\ Len(Rest(s, n)) = Len(s) - n
  BY <1>1 DEF Rest
<1>3. Rest(s, 0) = s
  BY OneMore DEF Rest
<1>4. Rest(s, n) = <<>> <=> n = Len(s)
  BY <1>1, <1>2
<1>5. ASSUME n < Len(s)
      PROVE  /\ Head(Rest(s, n)) = s[n + 1]
             /\ Tail(Rest(s, n)) = Rest(s, n + 1)
  <2>1. Rest(s, n + 1) \in Seq(S)
    BY <1>1, <1>5 DEF Rest
  <2>2. Rest(s, n) \o <<>> = Rest(s, n) /\ Rest(s, n + 1) \o <<>> = Rest(s, n + 1)
    BY <1>2, <2>1
  <2>3. /\ Head(Rest(s, n) \o <<>>) = s[n + 1]
        /\ Tail(Rest(s, n) \o <<>>) = Rest(s, n + 1) \o <<>>
    BY <1>1, <1>5, DropHead
  <2> QED
    BY <2>2, <2>3
<1>6. n < Len(s) => n # Len(s)
  BY <1>1
<1> QED
  BY <1>2, <1>3, <1>4, <1>5, <1>6

(* After any number of whole lines, collected and to come still fit.       *)
LEMMA LinesAlong ==
  ASSUME NEW a \in Answers, NEW g, NEW l \in Seq(Event), Along(a, g, l), NEW n \in 0 .. Len(l),
         NEW lines, lines = [i \in 1 .. n |-> l[i]]
  PROVE  Rest(l, n) \in Seq(Event) /\ Along(a, Handled(g, lines)[n], Rest(l, n))
<1>1. Len(l) \in Nat /\ n \in Nat /\ \A i \in 1 .. n : l[i] \in Event
  OBVIOUS
<1>2. lines \in Seq(Event) /\ Len(lines) = n /\ \A i \in 1 .. n : lines[i] = l[i]
  BY <1>1
<1> DEFINE H == Handled(g, lines)
           T == {m \in Nat : Along(a, H[m], Rest(l, m))}
<1>3. \A m \in 0 .. n : Held(H, g, lines, m)
  BY <1>2, HandledSolved
<1> HIDE DEF H
<1>4. 0 \in T
  <2>1. H[0] = g
    <3>1. Held(H, g, lines, 0)
      BY <1>1, <1>3
    <3> QED
      BY <3>1 DEF Held
  <2>2. Rest(l, 0) = l
    BY <1>1, RestHead
  <2> QED
    BY <2>1, <2>2
<1>5. ASSUME NEW m \in Nat, m < n, m \in T PROVE m + 1 \in T
  <2>1. Along(a, H[m], Rest(l, m))
    BY <1>5
  <2>2. m \in 0 .. Len(l) /\ m < Len(l) /\ m + 1 \in 0 .. n /\ m + 1 \in 1 .. n /\ m + 1 # 0 /\ (m + 1) - 1 = m
    BY <1>1, <1>5
  <2>3. /\ Rest(l, m) # <<>> /\ Head(Rest(l, m)) = l[m + 1]
        /\ Tail(Rest(l, m)) = Rest(l, m + 1)
    BY <2>2, RestHead
  <2>4. Along(a, Handle(H[m], l[m + 1]), Rest(l, m + 1))
    BY <2>1, <2>3, EventAlong
  <2>5. H[m + 1] = Handle(H[m], l[m + 1])
    <3>1. Held(H, g, lines, m + 1)
      BY <1>3, <2>2
    <3>2. H[m + 1] = Handle(H[(m + 1) - 1], lines[m + 1])
      BY <2>2, <3>1 DEF Held
    <3> QED
      BY <1>2, <2>2, <3>2
  <2> QED
    BY <1>5, <2>4, <2>5
<1>6. n \in T
  <2> HIDE DEF T
  <2>1. \A m \in 0 .. n : m \in T
    BY <1>1, <1>4, <1>5, Counting
  <2> QED
    BY <1>1, <2>1
<1>7. Rest(l, n) \in Seq(Event)
  BY RestHead
<1> QED
  BY <1>6, <1>7 DEF H

(* What is collected is what the model said up to there.                   *)
AllOf(a) == [k \in 1 .. Len(a.calls) |-> Whole(a, k)]

(* The first n elements are a prefix.                                      *)
LEMMA BeginningIsPrefix ==
  ASSUME NEW S, NEW s \in Seq(S), NEW n \in 0 .. Len(s)
  PROVE  IsPrefix(SubSeq(s, 1, n), s)
<1>1. Len(s) \in Nat
  OBVIOUS
<1>2. SubSeq(s, 1, n) \in Seq(S) /\ Len(SubSeq(s, 1, n)) = n
  BY <1>1
<1>3. SubSeq(SubSeq(s, 1, n), 1, n) = SubSeq(s, 1, n)
  BY <1>2, OneMore
<1> QED
  BY <1>1, <1>2, <1>3 DEF IsPrefix

(* Something always comes before the end of a stream.                      *)
LEMMA NeverEmpty ==
  ASSUME NEW a \in Answers, NEW k \in 1 .. Len(a.calls) + 1
  PROVE  EventsFrom(a)[k] # <<>>
<1>1. From(EventsFrom(a), a, k) /\ Len(a.calls) \in Nat
  BY FromSolved, AnswerType
<1>2. CASE k > Len(a.calls)
  BY <1>1, <1>2 DEF From
<1>3. CASE ~(k > Len(a.calls))
  <2> DEFINE r == Deltas(a, k) \o (<<Done(a, k)>> \o EventsFrom(a)[k + 1])
             x == [type |-> "added", call |-> k]
  <2>1. k \in 1 .. Len(a.calls) /\ k + 1 \in 1 .. Len(a.calls) + 1
    BY <1>1, <1>3
  <2>2. Deltas(a, k) \in Seq(Event) /\ Done(a, k) \in Event /\ x \in Event
    BY <2>1, EventTypes
  <2>3. <<Done(a, k)>> \o EventsFrom(a)[k + 1] \in Seq(Event)
    BY <2>1, <2>2, FromTyped, ConsHead
  <2>4. r \in Seq(Event)
    BY <2>2, <2>3
  <2>5. EventsFrom(a)[k] = <<x>> \o r
    BY <1>1, <1>3 DEF From
  <2> HIDE DEF r, x
  <2> QED
    BY <2>2, <2>4, <2>5, ConsHead
<1> QED
  BY <1>2, <1>3

(* What is collected is a beginning of the answer, and all of it at the    *)
(* end.                                                                    *)
LEMMA AlongPrefix ==
  ASSUME NEW a \in Answers, NEW g, NEW l, Along(a, g, l)
  PROVE  /\ IsPrefix(g.content, a.text) /\ IsPrefix(g.calls, AllOf(a))
         /\ l = <<>> => g.content = a.text /\ g.calls = AllOf(a)
<1>1. /\ a.text \in Seq(Pieces) /\ Len(a.text) \in Nat /\ Len(a.calls) \in Nat
  BY AnswerType
<1>2. AllOf(a) \in Seq({Whole(a, k) : k \in 1 .. Len(a.calls)}) /\ Len(AllOf(a)) = Len(a.calls)
  BY <1>1 DEF AllOf
<1>3. \A n \in 0 .. Len(a.calls) : IsPrefix(FirstCalls(a, n), AllOf(a))
  BY <1>2, BeginningIsPrefix DEF FirstCalls, AllOf
<1>4. IsPrefix(a.text, a.text)
  <2>1. Len(a.text) \in 0 .. Len(a.text) /\ SubSeq(a.text, 1, Len(a.text)) = a.text
    BY <1>1, OneMore
  <2> QED
    BY <1>1, <2>1, BeginningIsPrefix
<1>5. IsPrefix(<<>>, AllOf(a))
  <2>1. 0 \in 0 .. Len(a.calls)
    BY <1>1
  <2>2. FirstCalls(a, 0) = <<>>
    BY CallsGrow
  <2>3. IsPrefix(FirstCalls(a, 0), AllOf(a))
    BY <1>3, <2>1
  <2> QED
    BY <2>2, <2>3
<1>6. CASE InText(a, g, l)
  <2>1. PICK t \in 0 .. Len(a.text) :
          /\ g = Collected(SubSeq(a.text, 1, t), <<>>, <<>>, 0)
          /\ l = Rest(Text(a), t) \o EventsFrom(a)[1]
    BY <1>6 DEF InText
  <2>2. g.content = SubSeq(a.text, 1, t) /\ g.calls = <<>>
    BY <2>1 DEF Collected
  <2>3. IsPrefix(g.content, a.text) /\ IsPrefix(g.calls, AllOf(a))
    BY <1>1, <1>5, <2>2, BeginningIsPrefix
  <2>4. l # <<>>
    <3>1. /\ EventsFrom(a)[1] \in Seq(Event) /\ 1 \in 1 .. Len(a.calls) + 1
      BY <1>1, FromTyped
    <3>2. EventsFrom(a)[1] # <<>>
      BY <3>1, NeverEmpty
    <3>3. Rest(Text(a), t) \in Seq(Event)
      BY EventTypes, RestHead
    <3> QED
      BY <2>1, <3>1, <3>2, <3>3
  <2> QED
    BY <2>3, <2>4
<1>7. CASE Between(a, g, l)
  <2>1. PICK k \in 1 .. Len(a.calls) + 1, c \in Nat :
          g = Collected(a.text, FirstCalls(a, k - 1), <<>>, c) /\ l = EventsFrom(a)[k]
    BY <1>7 DEF Between
  <2>2. g.content = a.text /\ g.calls = FirstCalls(a, k - 1) /\ k - 1 \in 0 .. Len(a.calls)
    BY <1>1, <2>1 DEF Collected
  <2>3. l # <<>>
    BY <2>1, NeverEmpty
  <2> QED
    BY <1>3, <1>4, <2>2, <2>3
<1>8. CASE InCall(a, g, l)
  <2>1. PICK k \in 1 .. Len(a.calls), n \in Nat :
        /\ n <= Len(Deltas(a, k))
        /\ g = Collected(a.text, FirstCalls(a, k - 1), SubSeq(a.calls[k], 1, n), k)
        /\ l = Rest(Deltas(a, k), n) \o (<<Done(a, k)>> \o EventsFrom(a)[k + 1])
    BY <1>8 DEF InCall
  <2>2. g.content = a.text /\ g.calls = FirstCalls(a, k - 1) /\ k - 1 \in 0 .. Len(a.calls)
    BY <1>1, <2>1 DEF Collected
  <2>3. l # <<>>
    <3> DEFINE r == <<Done(a, k)>> \o EventsFrom(a)[k + 1]
    <3>0. k + 1 \in 1 .. Len(a.calls) + 1
      BY <1>1
    <3>1. /\ Deltas(a, k) \in Seq(Event) /\ Len(Deltas(a, k)) \in Nat /\ Done(a, k) \in Event
          /\ EventsFrom(a)[k + 1] \in Seq(Event)
      BY <3>0, EventTypes, FromTyped
    <3>2. r \in Seq(Event) /\ r # <<>>
      BY <3>1, ConsHead
    <3>3. Rest(Deltas(a, k), n) \in Seq(Event)
      BY <2>1, <3>1, RestHead
    <3>4. l = Rest(Deltas(a, k), n) \o r
      BY <2>1
    <3> HIDE DEF r
    <3> QED
      BY <3>2, <3>3, <3>4
  <2> QED
    BY <1>3, <1>4, <2>2, <2>3
<1>9. CASE AtEnd(a, g, l)
  <2>1. PICK c \in Nat : g = Collected(a.text, FirstCalls(a, Len(a.calls)), <<>>, c)
    BY <1>9 DEF AtEnd
  <2>2. g.content = a.text /\ g.calls = FirstCalls(a, Len(a.calls)) /\ Len(a.calls) \in 0 .. Len(a.calls)
    BY <1>1, <2>1 DEF Collected
  <2>3. FirstCalls(a, Len(a.calls)) = AllOf(a)
    BY CallsGrow DEF AllOf
  <2> QED
    BY <1>3, <1>4, <2>2, <2>3
<1> QED
  BY <1>6, <1>7, <1>8, <1>9 DEF Along

-----------------------------------------------------------------------------
(* What the OpenAI provider has of an answer: some of the text, and of     *)
(* each call what its own deltas have brought, however they come mixed.    *)
CallEvent == [type : {"call"}, index : Nat, call : Nat, delta : Seq(Pieces)]

Heard(content, map) ==
  [content |-> content, calls |-> <<>>, args |-> <<>>, call |-> 0, map |-> map]
TextTold(a, content, q) ==
  \E t \in 0 .. Len(a.text) : q = Rest(Text(a), t) /\ content = SubSeq(a.text, 1, t)
Begun(a, k, n) == [call |-> k, args |-> SubSeq(a.calls[k], 1, n)]
Partly(a, map, q, k) ==
  \/ k \notin DOMAIN map /\ q = CallDeltas(a, k)
  \/ \E n \in 0 .. Len(a.calls[k]) :
       /\ q = Rest(CallDeltas(a, k), n + 1)
       /\ k \in DOMAIN map /\ map[k] = Begun(a, k, n)
Told(a, g, l) ==
  /\ g = Heard(g.content, g.map) /\ DOMAIN g.map \subseteq 1 .. Len(a.calls)
  /\ l = [k \in 1 .. Len(a.calls) + 1 |-> l[k]]
  /\ TextTold(a, g.content, l[1])
  /\ \A k \in 1 .. Len(a.calls) : Partly(a, g.map, l[k + 1], k)

(* The deltas of a call: its name first, then its pieces.                  *)
LEMMA DeltaTypes ==
  ASSUME NEW a \in Answers, NEW k \in 1 .. Len(a.calls)
  PROVE  /\ CallDeltas(a, k) \in Seq(CallEvent) /\ Len(CallDeltas(a, k)) = Len(a.calls[k]) + 1
         /\ CallDeltas(a, k)[1] = [type |-> "call", index |-> k, call |-> k, delta |-> <<>>]
         /\ \A n \in 1 .. Len(a.calls[k]) :
              CallDeltas(a, k)[n + 1] =
                [type |-> "call", index |-> k, call |-> 0, delta |-> <<a.calls[k][n]>>]
<1> DEFINE x == [type |-> "call", index |-> k, call |-> k, delta |-> <<>>]
           r == [i \in 1 .. Len(a.calls[k]) |->
                   [type |-> "call", index |-> k, call |-> 0, delta |-> <<a.calls[k][i]>>]]
<1>1. a.calls[k] \in Seq(Pieces) /\ Len(a.calls[k]) \in Nat /\ k \in Nat
  BY AnswerType
<1>2. ASSUME NEW i \in 1 .. Len(a.calls[k])
      PROVE  [type |-> "call", index |-> k, call |-> 0, delta |-> <<a.calls[k][i]>>] \in CallEvent
  <2>1. a.calls[k][i] \in Pieces
    BY <1>1
  <2>2. <<a.calls[k][i]>> \in Seq(Pieces)
    BY <2>1
  <2> QED
    BY <1>1, <2>2 DEF CallEvent
<1>3. r \in Seq(CallEvent) /\ Len(r) = Len(a.calls[k])
  BY <1>1, <1>2
<1>4. \A i \in 1 .. Len(a.calls[k]) :
        r[i] = [type |-> "call", index |-> k, call |-> 0, delta |-> <<a.calls[k][i]>>]
  OBVIOUS
<1>5. x \in CallEvent
  BY <1>1 DEF CallEvent
<1>6. CallDeltas(a, k) = <<x>> \o r
  BY <1>1 DEF CallDeltas
<1> HIDE DEF x, r
<1>7. <<x>> \o r \in Seq(CallEvent) /\ Len(<<x>> \o r) = Len(a.calls[k]) + 1
  BY <1>1, <1>3, <1>5
<1>8. (<<x>> \o r)[1] = x /\ \A n \in 1 .. Len(a.calls[k]) : (<<x>> \o r)[n + 1] = r[n]
  BY <1>1, <1>3, <1>5
<1> QED
  BY <1>4, <1>6, <1>7, <1>8 DEF x

(* A delta of a call, and its call in the map.                             *)
Old(map, e) == IF e.index \in DOMAIN map THEN map[e.index] ELSE [call |-> 0, args |-> <<>>]
New(map, e) == [call |-> IF e.call # 0 THEN e.call ELSE Old(map, e).call,
                args |-> Old(map, e).args \o e.delta]
NewMap(map, e) ==
  [i \in DOMAIN map \cup {e.index} |-> IF i = e.index THEN New(map, e) ELSE map[i]]

(* A delta of the k-th call brings the k-th call further ...               *)
LEMMA PartMore ==
  ASSUME NEW a \in Answers, NEW k \in 1 .. Len(a.calls), NEW map, NEW q,
         Partly(a, map, q, k), q # <<>>
  PROVE  /\ Head(q).type = "call" /\ Head(q).index = k
         /\ Partly(a, NewMap(map, Head(q)), Tail(q), k)
<1> DEFINE s == CallDeltas(a, k)
           w == a.calls[k]
<1>1. w \in Seq(Pieces) /\ Len(w) \in Nat /\ k \in Nat /\ k # 0
  BY AnswerType
<1>2. s \in Seq(CallEvent) /\ Len(s) = Len(w) + 1
  BY DeltaTypes
<1>3. CASE k \notin DOMAIN map /\ q = s
  <2>1. 0 \in 0 .. Len(s) /\ 0 < Len(s)
    BY <1>1, <1>2
  <2>2. Head(q) = s[1] /\ Tail(q) = Rest(s, 1)
    <3> HIDE DEF s
    <3>1. Head(Rest(s, 0)) = s[0 + 1] /\ Tail(Rest(s, 0)) = Rest(s, 0 + 1) /\ Rest(s, 0) = s
      BY <1>2, <2>1, RestHead
    <3> QED
      BY <1>3, <3>1
  <2>3. Head(q) = [type |-> "call", index |-> k, call |-> k, delta |-> <<>>]
    BY <2>2, DeltaTypes
  <2>4. <<>> \o <<>> = <<>> /\ SubSeq(w, 1, 0) = <<>>
    BY <1>1, OneMore
  <2>5. New(map, Head(q)) = Begun(a, k, 0)
    <3> DEFINE e == Head(q)
    <3>1. e.index = k /\ e.call = k /\ e.delta = <<>>
      BY <2>3
    <3> HIDE DEF e
    <3>2. Old(map, e) = [call |-> 0, args |-> <<>>]
      BY <1>3, <3>1 DEF Old
    <3> HIDE DEF w
    <3>3. New(map, e) = [call |-> k, args |-> <<>>]
      BY <1>1, <2>4, <3>1, <3>2 DEF New
    <3> QED
      BY <2>4, <3>3 DEF Begun, e, w
  <2>6. k \in DOMAIN NewMap(map, Head(q)) /\ NewMap(map, Head(q))[k] = Begun(a, k, 0)
    BY <2>3, <2>5 DEF NewMap
  <2>7. 0 \in 0 .. Len(w) /\ Tail(q) = Rest(s, 0 + 1)
    BY <1>1, <2>2
  <2> QED
    BY <2>3, <2>6, <2>7 DEF Partly
<1>4. CASE ~(k \notin DOMAIN map /\ q = s)
  <2>1. PICK n \in 0 .. Len(w) :
          /\ q = Rest(s, n + 1)
          /\ k \in DOMAIN map /\ map[k] = Begun(a, k, n)
    BY <1>4 DEF Partly
  <2>2. n + 1 \in 0 .. Len(s) /\ n \in Nat
    BY <1>1, <1>2, <2>1
  <2>3. n + 1 # Len(s)
    <3> HIDE DEF s
    <3> QED
      BY <1>2, <2>1, <2>2, RestHead
  <2>4. n < Len(w) /\ n + 1 < Len(s) /\ n + 1 \in 0 .. Len(w) /\ n + 1 \in 1 .. Len(w)
    <3> HIDE DEF s, w
    <3> QED
      BY <1>1, <1>2, <2>2, <2>3
  <2>5. Head(q) = s[(n + 1) + 1] /\ Tail(q) = Rest(s, (n + 1) + 1)
    <3> HIDE DEF s
    <3> QED
      BY <1>2, <2>1, <2>2, <2>4, RestHead
  <2>6. Head(q) = [type |-> "call", index |-> k, call |-> 0, delta |-> <<w[n + 1]>>]
    BY <2>4, <2>5, DeltaTypes
  <2>7. SubSeq(w, 1, n + 1) = SubSeq(w, 1, n) \o <<w[n + 1]>>
    <3>1. SubSeq(w, 1, n + 1) = Append(SubSeq(w, 1, n), w[n + 1])
      BY <1>1, <2>2, <2>4, OneMore
    <3>2. SubSeq(w, 1, n) \in Seq(Pieces) /\ w[n + 1] \in Pieces
      BY <1>1, <2>4
    <3>3. Append(SubSeq(w, 1, n), w[n + 1]) = SubSeq(w, 1, n) \o <<w[n + 1]>>
      BY <3>2
    <3> QED
      BY <3>1, <3>3
  <2>8. New(map, Head(q)) = Begun(a, k, n + 1)
    <3> DEFINE e == Head(q)
    <3>1. e.index = k /\ e.call = 0 /\ e.delta = <<w[n + 1]>>
      BY <2>6
    <3> HIDE DEF e
    <3>2. Old(map, e) = [call |-> k, args |-> SubSeq(w, 1, n)]
      BY <2>1, <3>1 DEF Old, Begun
    <3> HIDE DEF w
    <3>3. New(map, e) = [call |-> k, args |-> SubSeq(w, 1, n + 1)]
      BY <2>7, <3>1, <3>2 DEF New
    <3> QED
      BY <3>3 DEF Begun, e, w
  <2>9. k \in DOMAIN NewMap(map, Head(q)) /\ NewMap(map, Head(q))[k] = Begun(a, k, n + 1)
    BY <2>6, <2>8 DEF NewMap
  <2> QED
    BY <2>4, <2>5, <2>6, <2>9 DEF Partly
<1> QED
  BY <1>3, <1>4

(* ... and leaves the others where they were.                              *)
LEMMA PartSame ==
  ASSUME NEW a, NEW k, NEW map, NEW q, NEW e, Partly(a, map, q, k), e.index # k
  PROVE  Partly(a, NewMap(map, e), q, k)
<1>1. k \in DOMAIN NewMap(map, e) <=> k \in DOMAIN map
  BY DEF NewMap
<1>2. k \in DOMAIN map => NewMap(map, e)[k] = map[k]
  BY DEF NewMap
<1> QED
  BY <1>1, <1>2 DEF Partly

(* Whichever delta comes next, what is heard and to come still fit.        *)
LEMMA ToldMore ==
  ASSUME NEW a \in Answers, NEW g, NEW l, Told(a, g, l), NEW k \in DOMAIN l, l[k] # <<>>,
         NEW m, m = [l EXCEPT ![k] = Tail(l[k])]
  PROVE  Told(a, Accumulate(g, Head(l[k])), m)
<1> DEFINE C == Len(a.calls)
           e == Head(l[k])
<1>1. a.text \in Seq(Pieces) /\ Len(a.text) \in Nat /\ C \in Nat
  BY AnswerType
<1>2. /\ g = Heard(g.content, g.map) /\ DOMAIN g.map \subseteq 1 .. C
      /\ l = [i \in 1 .. C + 1 |-> l[i]] /\ TextTold(a, g.content, l[1])
      /\ \A i \in 1 .. C : Partly(a, g.map, l[i + 1], i)
  BY DEF Told
<1>3. DOMAIN l = 1 .. C + 1 /\ k \in 1 .. C + 1
  BY <1>2
<1>4. /\ m = [i \in 1 .. C + 1 |-> m[i]] /\ m[k] = Tail(l[k])
      /\ \A i \in 1 .. C + 1 : i # k => m[i] = l[i]
  <2> HIDE DEF C
  <2> QED
    BY <1>2, <1>3
<1>5. PICK content, map : g = Heard(content, map) /\ content = g.content /\ map = g.map
  BY <1>2
<1>6. CASE k = 1
  <2>1. PICK t \in 0 .. Len(a.text) : l[1] = Rest(Text(a), t) /\ content = SubSeq(a.text, 1, t)
    BY <1>2, <1>5 DEF TextTold
  <2>2. Text(a) \in Seq(Event) /\ Len(Text(a)) = Len(a.text)
    BY EventTypes
  <2>3. t # Len(a.text)
    BY <1>6, <2>1, <2>2, RestHead
  <2>4. t \in Nat /\ t < Len(a.text) /\ t + 1 \in 1 .. Len(a.text) /\ t + 1 \in 0 .. Len(a.text)
    BY <1>1, <2>3
  <2>5. e = Text(a)[t + 1] /\ Tail(l[1]) = Rest(Text(a), t + 1)
    BY <1>6, <2>1, <2>2, <2>4, RestHead
  <2>6. e = [type |-> "text", delta |-> a.text[t + 1]]
    BY <2>4, <2>5, EventTypes
  <2>7. Accumulate(g, e) = Heard(Append(content, a.text[t + 1]), map)
    <3> HIDE DEF e
    <3> QED
      BY <1>5, <2>6 DEF Accumulate, Heard
  <2>8. Append(content, a.text[t + 1]) = SubSeq(a.text, 1, t + 1)
    BY <1>1, <2>1, <2>4, OneMore
  <2>9. TextTold(a, SubSeq(a.text, 1, t + 1), m[1])
    BY <1>4, <1>6, <2>4, <2>5 DEF TextTold
  <2>10. \A i \in 1 .. C : Partly(a, map, m[i + 1], i)
    <3>1. \A i \in 1 .. C : i + 1 \in 1 .. C + 1 /\ i + 1 # 1
      BY <1>1
    <3> HIDE DEF C
    <3> QED
      BY <1>2, <1>4, <1>5, <1>6, <3>1
  <2> DEFINE h == Heard(SubSeq(a.text, 1, t + 1), map)
  <2>11. h = Heard(h.content, h.map) /\ h.content = SubSeq(a.text, 1, t + 1) /\ h.map = map
    BY DEF Heard
  <2>12. Accumulate(g, e) = h
    BY <2>7, <2>8
  <2> HIDE DEF h, e
  <2> QED
    BY <1>2, <1>4, <1>5, <2>9, <2>10, <2>11, <2>12 DEF Told, e
<1>7. CASE k # 1
  <2>1. PICK j \in 1 .. C : k = j + 1
    <3>1. k - 1 \in 1 .. C /\ k = (k - 1) + 1
      BY <1>1, <1>3, <1>7
    <3> QED
      BY <3>1
  <2>2. Partly(a, map, l[k], j)
    BY <1>2, <1>5, <2>1
  <2>3. e.type = "call" /\ e.index = j /\ Partly(a, NewMap(map, e), Tail(l[k]), j)
    BY <2>2, PartMore
  <2> HIDE DEF e
  <2>4. Accumulate(g, e) = Heard(content, NewMap(map, e))
    BY <1>5, <2>3 DEF Accumulate, Heard, NewMap, New, Old
  <2>5. ASSUME NEW i \in 1 .. C PROVE Partly(a, NewMap(map, e), m[i + 1], i)
    <3>1. CASE i = j
      BY <1>4, <2>1, <2>3, <3>1
    <3>2. CASE i # j
      <4>1. i + 1 \in 1 .. C + 1 /\ i + 1 # k
        BY <1>1, <2>1, <3>2
      <4>2. m[i + 1] = l[i + 1] /\ Partly(a, map, l[i + 1], i)
        BY <1>2, <1>4, <1>5, <4>1
      <4> QED
        BY <2>3, <3>2, <4>2, PartSame
    <3> QED
      BY <3>1, <3>2
  <2>6. DOMAIN NewMap(map, e) \subseteq 1 .. C
    BY <1>2, <1>5, <2>3 DEF NewMap
  <2>7. TextTold(a, content, m[1])
    <3>1. 1 \in 1 .. C + 1
      BY <1>1
    <3> QED
      BY <1>2, <1>4, <1>5, <1>7, <3>1
  <2> DEFINE h == Heard(content, NewMap(map, e))
  <2>8. h = Heard(h.content, h.map) /\ h.content = content /\ h.map = NewMap(map, e)
    BY DEF Heard
  <2> HIDE DEF h
  <2>9. Accumulate(g, e) = h
    BY <2>4 DEF h
  <2> QED
    BY <1>4, <2>5, <2>6, <2>7, <2>8, <2>9 DEF Told, e
<1> QED
  BY <1>6, <1>7

Nth(D, n) == CHOOSE i \in D : Cardinality({k \in D : k <= i}) = n

(* When nothing is to come, all of the text and all calls were heard.      *)
LEMMA AllTold ==
  ASSUME NEW a \in Answers, NEW g, NEW l, Told(a, g, l), \A k \in DOMAIN l : l[k] = <<>>
  PROVE  g.content = a.text /\ ByIndex(g.map) = AllOf(a)
<1> DEFINE C == Len(a.calls)
<1>1. a.text \in Seq(Pieces) /\ Len(a.text) \in Nat /\ C \in Nat
  BY AnswerType
<1>2. /\ DOMAIN g.map \subseteq 1 .. C /\ l = [i \in 1 .. C + 1 |-> l[i]]
      /\ TextTold(a, g.content, l[1])
      /\ \A i \in 1 .. C : Partly(a, g.map, l[i + 1], i)
  BY DEF Told
<1>3. \A i \in 1 .. C + 1 : l[i] = <<>>
  BY <1>2
<1>4. g.content = a.text
  <2>1. PICK t \in 0 .. Len(a.text) : l[1] = Rest(Text(a), t) /\ g.content = SubSeq(a.text, 1, t)
    BY <1>2 DEF TextTold
  <2>2. l[1] = <<>>
    BY <1>1, <1>3
  <2>3. Text(a) \in Seq(Event) /\ Len(Text(a)) = Len(a.text)
    BY EventTypes
  <2>4. t = Len(a.text)
    BY <2>1, <2>2, <2>3, RestHead
  <2> QED
    BY <1>1, <2>1, <2>4, OneMore
<1>5. ASSUME NEW k \in 1 .. C PROVE k \in DOMAIN g.map /\ g.map[k] = Whole(a, k)
  <2> DEFINE s == CallDeltas(a, k)
             w == a.calls[k]
  <2>1. w \in Seq(Pieces) /\ Len(w) \in Nat
    BY AnswerType
  <2>2. s \in Seq(CallEvent) /\ Len(s) = Len(w) + 1
    BY DeltaTypes
  <2>3. l[k + 1] = <<>> /\ Partly(a, g.map, l[k + 1], k)
    <3>1. k + 1 \in 1 .. C + 1
      BY <1>1
    <3> QED
      BY <1>2, <1>3, <3>1
  <2>4. s # <<>>
    <3> HIDE DEF s, w
    <3> QED
      BY <2>1, <2>2
  <2>5. PICK n \in 0 .. Len(w) :
          <<>> = Rest(s, n + 1) /\ k \in DOMAIN g.map /\ g.map[k] = Begun(a, k, n)
    BY <2>3, <2>4 DEF Partly
  <2>6. n = Len(w)
    <3> HIDE DEF s, w
    <3>1. n + 1 \in 0 .. Len(s)
      BY <2>1, <2>2
    <3>2. n + 1 = Len(s)
      BY <2>2, <2>5, <3>1, RestHead
    <3> QED
      BY <2>1, <2>2, <3>2
  <2>7. SubSeq(w, 1, n) = w
    BY <2>1, <2>6, OneMore
  <2> QED
    BY <2>5, <2>7 DEF Begun, Whole
<1>6. DOMAIN g.map = 1 .. C
  BY <1>2, <1>5
<1> HIDE DEF C
<1>7. \A i \in 0 .. C : Cardinality(1 .. i) = i
  <2>1. ASSUME NEW i \in 0 .. C PROVE Cardinality(1 .. i) = i
    <3>1. i \in Nat /\ 1 \in Int /\ i \in Int /\ (1 > i => i = 0)
      BY <1>1
    <3>2. Cardinality(1 .. i) = IF 1 > i THEN 0 ELSE i - 1 + 1
      BY <3>1, FS_Interval
    <3> QED
      BY <3>1, <3>2
  <2> QED
    BY <2>1
<1>8. ASSUME NEW n \in 1 .. C
      PROVE Nth(1 .. C, n) = n
  <2>1. ASSUME NEW i \in 1 .. C PROVE Cardinality({k \in 1 .. C : k <= i}) = i
    <3>1. {k \in 1 .. C : k <= i} = 1 .. i /\ i \in 0 .. C
      BY <1>1
    <3> QED
      BY <1>7, <3>1
  <2> DEFINE P(i) == Cardinality({k \in 1 .. C : k <= i}) = n
  <2>2. \A i \in 1 .. C : P(i) <=> i = n
    BY <2>1
  <2> HIDE DEF P
  <2>3. (CHOOSE i \in 1 .. C : P(i)) = n
    BY <2>2
  <2> QED
    BY <2>3 DEF P, Nth
<1>9. ByIndex(g.map) = [n \in 1 .. C |-> g.map[n]]
  <2>1. Cardinality(DOMAIN g.map) = C
    BY <1>1, <1>6, <1>7
  <2>2. ByIndex(g.map) = [n \in 1 .. Cardinality(DOMAIN g.map) |-> g.map[Nth(DOMAIN g.map, n)]]
    BY DEF ByIndex, Nth
  <2> QED
    BY <1>6, <1>8, <2>1, <2>2
<1>10. [n \in 1 .. C |-> g.map[n]] = AllOf(a)
  BY <1>5 DEF AllOf, C
<1> QED
  BY <1>4, <1>9, <1>10

-----------------------------------------------------------------------------
(* The inductive invariant of a stream: what is collected and what is      *)
(* still to come fit together, as long as no character was cut.            *)
StreamInv ==
  /\ answer \in Answers /\ api \in {"chatgpt", "openai"}
  /\ shown = got.content
  /\ half = "hurt" => damaged
  /\ (api = "chatgpt" /\ ~damaged) => left \in Seq(Event) /\ Along(answer, got, left)
  /\ (api = "openai" /\ ended # "ok") => Told(answer, got, left)
  /\ (api = "openai" /\ ended = "ok") => got.content = answer.text /\ got.calls = AllOf(answer)

(* A ChatGPT stream before its first event.                                *)
LEMMA BeginsAlong ==
  ASSUME NEW a \in Answers
  PROVE  ChatgptEvents(a) \in Seq(Event) /\ Along(a, Nothing, ChatgptEvents(a))
<1>1. /\ Text(a) \in Seq(Event) /\ a.text \in Seq(Pieces) /\ Len(a.text) \in Nat /\ Len(a.calls) \in Nat
  BY AnswerType, EventTypes
<1>2. EventsFrom(a)[1] \in Seq(Event)
  <2>1. 1 \in 1 .. Len(a.calls) + 1
    BY <1>1
  <2> QED
    BY <2>1, FromTyped
<1>3. ChatgptEvents(a) \in Seq(Event)
  <2> DEFINE x == EventsFrom(a)[1]
             y == Text(a)
  <2>1. ChatgptEvents(a) = y \o x
    BY DEF ChatgptEvents
  <2> HIDE DEF x, y
  <2>2. x \in Seq(Event) /\ y \in Seq(Event)
    BY <1>1, <1>2 DEF x, y
  <2> QED
    BY <2>1, <2>2
<1>4. 0 \in 0 .. Len(a.text) /\ 0 \in 0 .. Len(Text(a))
  BY <1>1
<1>5. Nothing = Collected(SubSeq(a.text, 1, 0), <<>>, <<>>, 0)
  <2>1. SubSeq(a.text, 1, 0) = <<>>
    BY <1>1, OneMore
  <2> QED
    BY <2>1 DEF Nothing, Collected
<1>6. Rest(Text(a), 0) = Text(a)
  BY <1>1, <1>4, RestHead
<1>7. ChatgptEvents(a) = Rest(Text(a), 0) \o EventsFrom(a)[1]
  BY <1>6 DEF ChatgptEvents
<1>8. InText(a, Nothing, ChatgptEvents(a))
  BY <1>4, <1>5, <1>7 DEF InText
<1> QED
  BY <1>3, <1>8 DEF Along

(* An OpenAI stream before its first delta.                                *)
LEMMA BeginsTold ==
  ASSUME NEW a \in Answers
  PROVE  Told(a, Nothing, OpenaiEvents(a))
<1> DEFINE C == Len(a.calls)
           l == OpenaiEvents(a)
           S == {Text(a)} \cup {CallDeltas(a, k) : k \in 1 .. C}
           d == [k \in 1 .. C |-> CallDeltas(a, k)]
<1>1. /\ Text(a) \in Seq(Event) /\ Len(Text(a)) = Len(a.text)
      /\ a.text \in Seq(Pieces) /\ Len(a.text) \in Nat /\ C \in Nat
      /\ DOMAIN a.calls = 1 .. C
  BY AnswerType, EventTypes
<1>2. d \in Seq(S) /\ Len(d) = C /\ \A k \in 1 .. C : d[k] = CallDeltas(a, k)
  BY <1>1
<1>3. l = <<Text(a)>> \o d
  BY <1>1 DEF OpenaiEvents
<1> HIDE DEF d
<1>4. /\ l \in Seq(S) /\ Len(l) = C + 1 /\ l[1] = Text(a)
      /\ \A k \in 1 .. C : l[k + 1] = d[k]
  <2> DEFINE x == Text(a)
             q == <<x>> \o d
  <2>1. x \in S
    OBVIOUS
  <2> HIDE DEF x, S, C, l
  <2>2. q \in Seq(S) /\ Len(q) = C + 1 /\ q[1] = x /\ \A k \in 1 .. C : q[k + 1] = d[k]
    BY <1>1, <1>2, <2>1
  <2> HIDE DEF q
  <2>3. l = q
    BY <1>3 DEF q, x
  <2> QED
    BY <2>2, <2>3 DEF x
<1> HIDE DEF l, S
<1>5. l = [k \in 1 .. C + 1 |-> l[k]]
  BY <1>1, <1>4
<1>6. TextTold(a, <<>>, l[1])
  <2>1. 0 \in 0 .. Len(a.text) /\ SubSeq(a.text, 1, 0) = <<>>
    BY <1>1, OneMore
  <2>2. Rest(Text(a), 0) = Text(a)
    BY <1>1, RestHead
  <2> QED
    BY <1>4, <2>1, <2>2 DEF TextTold
<1>7. Nothing = Heard(<<>>, <<>>) /\ Nothing.content = <<>> /\ Nothing.map = <<>> /\ DOMAIN Nothing.map = {}
  BY DEF Nothing, Heard
<1>8. \A k \in 1 .. C : Partly(a, <<>>, l[k + 1], k)
  <2>1. DOMAIN <<>> = {}
    OBVIOUS
  <2> QED
    BY <1>2, <1>4, <2>1 DEF Partly
<1> QED
  BY <1>5, <1>6, <1>7, <1>8 DEF Told, l

(* What a chunk without a cut character brings.                            *)
LEMMA ChunkKeeps ==
  ASSUME StreamInv, Chunk
  PROVE  StreamInv'
<1>1. /\ api = "chatgpt" /\ api' = api /\ answer' = answer /\ answer \in Answers
      /\ half = "hurt" => damaged
      /\ ~damaged => left \in Seq(Event) /\ Along(answer, got, left)
  BY DEF StreamInv, Chunk
<1>2. PICK lines \in 0 .. Len(left), rest \in {"no", "whole", "hurt"} :
       /\ LET whole == [i \in 1 .. lines |->
                          IF i = 1 /\ half = "hurt" THEN Hurt(left[i]) ELSE left[i]]
          IN  /\ got' = Handled(got, whole)[lines]
              /\ shown' = got'.content
              /\ left' = SubSeq(left, lines + 1, Len(left))
       /\ half' = rest
       /\ damaged' = (damaged \/ rest = "hurt")
  BY DEF Chunk
<1>3. shown' = got'.content /\ (half' = "hurt" => damaged')
  BY <1>2
<1>4. ASSUME ~damaged' PROVE left' \in Seq(Event) /\ Along(answer, got', left')
  <2>1. ~damaged /\ half # "hurt"
    BY <1>1, <1>2, <1>4
  <2> DEFINE whole == [i \in 1 .. lines |-> left[i]]
  <2>2. got' = Handled(got, whole)[lines]
    BY <1>2, <2>1
  <2>3. left' = Rest(left, lines)
    BY <1>2 DEF Rest
  <2>4. Rest(left, lines) \in Seq(Event) /\ Along(answer, Handled(got, whole)[lines], Rest(left, lines))
    BY <1>1, <2>1, LinesAlong
  <2> QED
    BY <2>2, <2>3, <2>4
<1> QED
  BY <1>1, <1>3, <1>4 DEF StreamInv

(* A delta keeps the invariant.                                            *)
LEMMA DeltaKeeps ==
  ASSUME StreamInv, Delta
  PROVE  StreamInv'
<1>1. /\ api = "openai" /\ ended = "no" /\ api' = api /\ answer' = answer /\ half' = half
      /\ ended' = ended /\ damaged' = damaged /\ shown' = got'.content
      /\ answer \in Answers /\ (half = "hurt" => damaged) /\ Told(answer, got, left)
  BY DEF StreamInv, Delta
<1>2. PICK k \in DOMAIN left :
       /\ left[k] # <<>>
       /\ got' = Accumulate(got, Head(left[k]))
       /\ left' = [left EXCEPT ![k] = Tail(@)]
  BY DEF Delta
<1>3. left' = [left EXCEPT ![k] = Tail(left[k])]
  BY <1>2
<1>4. Told(answer, got', left')
  BY <1>1, <1>2, <1>3, ToldMore
<1> QED
  BY <1>1, <1>4 DEF StreamInv

(* The end of all deltas completes the answer.                             *)
LEMMA CompletedKeeps ==
  ASSUME StreamInv, Completed
  PROVE  StreamInv'
<1>1. /\ api = "openai" /\ ended' = "ok" /\ api' = api /\ answer' = answer /\ half' = half
      /\ damaged' = damaged /\ shown' = shown /\ shown = got.content
      /\ answer \in Answers /\ (half = "hurt" => damaged) /\ Told(answer, got, left)
      /\ \A k \in DOMAIN left : left[k] = <<>>
      /\ got' = [got EXCEPT !.calls = ByIndex(got.map)]
  BY DEF StreamInv, Completed
<1>2. got.content = answer.text /\ ByIndex(got.map) = AllOf(answer)
  BY <1>1, AllTold
<1>3. got = Heard(got.content, got.map)
  BY <1>1 DEF Told
<1>4. got'.content = got.content /\ got'.calls = ByIndex(got.map)
  BY <1>1, <1>3 DEF Heard
<1> QED
  BY <1>1, <1>2, <1>4 DEF StreamInv

(* The invariant holds of every stream.                                    *)
THEOREM StreamInvariant == StreamSpec => []StreamInv
<1>1. InitStream => StreamInv
  <2> SUFFICES ASSUME InitStream PROVE StreamInv
    OBVIOUS
  <2>1. /\ answer \in Answers /\ api \in {"chatgpt", "openai"} /\ shown = got.content
        /\ half = "no" /\ ended = "no" /\ got = Nothing
    BY DEF InitStream, Nothing
  <2>2. CASE api = "chatgpt"
    BY <2>1, <2>2, BeginsAlong DEF InitStream, StreamInv
  <2>3. CASE api = "openai"
    <3>1. left = OpenaiEvents(answer)
      BY <2>3 DEF InitStream
    <3> QED
      BY <2>1, <2>3, <3>1, BeginsTold DEF StreamInv
  <2> QED
    BY <2>1, <2>2, <2>3
<1>2. StreamInv /\ [NextStream]_streamVars => StreamInv'
  <2> SUFFICES ASSUME StreamInv, [NextStream]_streamVars PROVE StreamInv'
    OBVIOUS
  <2>1. CASE Chunk
    BY <2>1, ChunkKeeps
  <2>2. CASE EndsEarly
    BY <2>2 DEF EndsEarly, StreamInv
  <2>3. CASE Delta
    BY <2>3, DeltaKeeps
  <2>4. CASE Completed
    BY <2>4, CompletedKeeps
  <2>5. CASE Breaks
    BY <2>5 DEF Breaks, StreamInv
  <2>6. CASE UNCHANGED streamVars
    BY <2>6 DEF streamVars, StreamInv
  <2> QED
    BY <2>1, <2>2, <2>3, <2>4, <2>5, <2>6 DEF NextStream
<1> QED
  BY <1>1, <1>2, PTL DEF StreamSpec

(* However a stream is cut, mixed or ended: an answer that counts is the   *)
(* model's, with whole calls, in its order, and complete when all of the   *)
(* stream came; as long as no chunk ended within a character               *)
(* (send_streaming_request in core/chatgpt.rs, chat_stream in              *)
(* core/openai.rs).                                                        *)
THEOREM AnswersAreTheModels == StreamSpec => []AnswerIsTheModels
<1>1. StreamInv => AnswerIsTheModels
  <2> SUFFICES ASSUME StreamInv, ended = "ok", ~damaged
               PROVE  /\ IsPrefix(got.content, answer.text) /\ shown = got.content
                      /\ IsPrefix(got.calls, AllOf(answer))
                      /\ api = "openai" \/ left = <<>> =>
                           got.content = answer.text /\ got.calls = AllOf(answer)
    <3>1. /\ DOMAIN answer.calls = 1 .. Len(answer.calls)
      BY AnswerType DEF StreamInv
    <3>2. [k \in DOMAIN answer.calls |-> [call |-> k, args |-> answer.calls[k]]] = AllOf(answer)
      BY <3>1 DEF AllOf, Whole
    <3> QED
      BY <3>2 DEF AnswerIsTheModels
  <2>1. answer \in Answers /\ shown = got.content /\ api \in {"chatgpt", "openai"}
    BY DEF StreamInv
  <2>2. CASE api = "chatgpt"
    <3>1. Along(answer, got, left)
      BY <2>2 DEF StreamInv
    <3> QED
      BY <2>1, <2>2, <3>1, AlongPrefix
  <2>3. CASE api = "openai"
    <3>1. got.content = answer.text /\ got.calls = AllOf(answer)
      BY <2>3 DEF StreamInv
    <3>2. answer.text \in Seq(Pieces) /\ Len(answer.text) \in Nat /\ Len(answer.calls) \in Nat
      BY <2>1, AnswerType
    <3>3. AllOf(answer) \in Seq({Whole(answer, k) : k \in 1 .. Len(answer.calls)})
      BY <3>2 DEF AllOf
    <3>4. Len(answer.text) \in 0 .. Len(answer.text) /\ Len(AllOf(answer)) \in 0 .. Len(AllOf(answer))
      BY <3>2, <3>3
    <3>5. IsPrefix(answer.text, answer.text)
      BY <3>2, <3>4, OneMore, BeginningIsPrefix
    <3>6. IsPrefix(AllOf(answer), AllOf(answer))
      BY <3>3, <3>4, OneMore, BeginningIsPrefix
    <3> QED
      BY <2>1, <3>1, <3>5, <3>6
  <2> QED
    BY <2>1, <2>2, <2>3
<1> QED
  BY <1>1, StreamInvariant, PTL
==============================================================================
