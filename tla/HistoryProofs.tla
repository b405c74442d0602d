----------------------------- MODULE HistoryProofs -----------------------------
(***************************************************************************)
(* A theory of the histories of a conversation, for sequences of messages  *)
(* of every length.                                                        *)
(*                                                                         *)
(* A history is sound when every result stands in the group of its call,   *)
(* behind all the earlier results of the group, and no two messages make   *)
(* the same calls; it is closed when every group is also complete.  What a *)
(* crash leaves is sound, with incomplete groups only after the complete   *)
(* ones (BrokenLast); sanitizing closes it.                                *)
(***************************************************************************)
EXTENDS Messages, Integers, WellFoundedInduction, TLAPS

Ids == Runs \X Nat \X Nat

Msgs ==
  [role : {"user", "final"}, run : Runs]
  \cup [role : {"revision"}, run : Runs, iter : Nat]
  \cup [role : {"assistant"}, run : Runs, iter : Nat, calls : Nat]
  \cup [role : {"result"}, of : Ids]

Calls(h, a) == a \in DOMAIN h /\ h[a].role = "assistant"

(* Message a with the first n results behind it.                           *)
Results(h, a, n) ==
  \A k \in 1 .. n : a + k \in DOMAIN h /\ h[a + k] = ToolResult(<<h[a].run, h[a].iter, k>>)
Complete(h, a) == Results(h, a, h[a].calls)

Sound(h) ==
  /\ \A i \in DOMAIN h : h[i].role = "result" =>
       \E a \in 1 .. i - 1 : Calls(h, a) /\ i - a <= h[a].calls /\ Results(h, a, i - a)
  /\ \A a, b \in DOMAIN h :
       Calls(h, a) /\ Calls(h, b) /\ h[a].run = h[b].run /\ h[a].iter = h[b].iter => a = b

Closed(h) == Sound(h) /\ \A a \in DOMAIN h : Calls(h, a) => Complete(h, a)

(* sanitize_history() stops at the last complete group: none may be broken *)
(* before it.                                                              *)
BrokenLast(h) ==
  \A a, b \in DOMAIN h : Calls(h, a) /\ Calls(h, b) /\ a < b /\ Complete(h, b) => Complete(h, a)

(* The last group of h is <<r, i>>, with n results of c; the others are    *)
(* complete.                                                               *)
Open(h, r, i, n, c) ==
  /\ Sound(h)
  /\ n \in Nat /\ c \in Nat /\ n <= c /\ Len(h) - n \in DOMAIN h
  /\ h[Len(h) - n] = Assistant(r, i, c)
  /\ Results(h, Len(h) - n, n)
  /\ \A a \in DOMAIN h : Calls(h, a) /\ a # Len(h) - n => Complete(h, a)

-----------------------------------------------------------------------------
(* Sequences.                                                              *)

(* What holds of 0 and is handed on holds up to N.                         *)
LEMMA Counting ==
  ASSUME NEW N \in Nat, NEW T, 0 \in T, \A n \in Nat : n < N /\ n \in T => n + 1 \in T
  PROVE  \A n \in 0 .. N : n \in T
<1> DEFINE D == {m \in Nat : m <= N /\ m \notin T}
<1> SUFFICES ASSUME D # {} PROVE FALSE
  OBVIOUS
<1>1. PICK m \in D : \A k \in D : ~(<<k, m>> \in OpToRel(<, Nat))
  <2>1. D \subseteq Nat
    OBVIOUS
  <2> HIDE DEF D
  <2> QED
    BY <2>1, NatLessThanWellFounded, WFMin
<1>2. m \in Nat /\ m # 0 /\ m - 1 \in Nat /\ m - 1 < m
  OBVIOUS
<1>3. m - 1 \notin D
  BY <1>1, <1>2 DEF OpToRel
<1> QED
  BY <1>2, <1>3

(* The recursion of Picks has a solution: one up to n extends to n + 1.    *)
Pick(p, h, I, n) ==
  p[n] = IF n = 0 THEN <<>> ELSE IF n \in I THEN Append(p[n - 1], h[n]) ELSE p[n - 1]

LEMMA PicksSolved ==
  ASSUME NEW S, NEW h \in Seq(S), NEW I
  PROVE  \A n \in 0 .. Len(h) : Pick(Picks(h, I), h, I, n)
<1> DEFINE T == {n \in Nat : \E p : \A m \in 0 .. n : Pick(p, h, I, m)}
<1>1. Len(h) \in Nat
  OBVIOUS
<1>2. 0 \in T
  <2>1. \A m \in 0 .. 0 : Pick([k \in {0} |-> <<>>], h, I, m)
    BY DEF Pick
  <2> QED
    BY <2>1
<1>3. ASSUME NEW n \in T PROVE n + 1 \in T
  <2>1. PICK p : \A m \in 0 .. n : Pick(p, h, I, m)
    OBVIOUS
  <2> DEFINE g == [k \in 0 .. n + 1 |->
                     IF k <= n THEN p[k]
                     ELSE IF n + 1 \in I THEN Append(p[n], h[n + 1]) ELSE p[n]]
  <2>2. ASSUME NEW m \in 0 .. n + 1 PROVE Pick(g, h, I, m)
    <3>1. CASE m <= n
      <4>1. g[m] = p[m] /\ (m # 0 => g[m - 1] = p[m - 1])
        BY <3>1
      <4>2. Pick(p, h, I, m)
        BY <2>1, <3>1
      <4> QED
        BY <4>1, <4>2 DEF Pick
    <3>2. CASE m = n + 1
      <4>1. m # 0 /\ m - 1 = n /\ g[n] = p[n]
        BY <3>2
      <4>2. g[m] = IF n + 1 \in I THEN Append(p[n], h[n + 1]) ELSE p[n]
        BY <3>2
      <4> QED
        BY <3>2, <4>1, <4>2 DEF Pick
    <3> QED
      BY <3>1, <3>2
  <2> HIDE DEF g
  <2> QED
    BY <2>2
<1>4. PICK p : \A m \in 0 .. Len(h) : Pick(p, h, I, m)
  <2> HIDE DEF T
  <2>1. \A n \in 0 .. Len(h) : n \in T
    BY <1>1, <1>2, <1>3, Counting
  <2>2. Len(h) \in T
    BY <1>1, <2>1
  <2> QED
    BY <2>2 DEF T
<1> DEFINE f == [m \in 0 .. Len(h) |-> p[m]]
<1>5. f = [n \in 0 .. Len(h) |->
             IF n = 0 THEN <<>> ELSE IF n \in I THEN Append(f[n - 1], h[n]) ELSE f[n - 1]]
  BY <1>1, <1>4 DEF Pick
<1> HIDE DEF f
<1>6. Picks(h, I) = [n \in 0 .. Len(h) |->
                       IF n = 0 THEN <<>> ELSE IF n \in I THEN Append(Picks(h, I)[n - 1], h[n])
                                                        ELSE Picks(h, I)[n - 1]]
  BY <1>5 DEF Picks
<1> QED
  BY <1>6 DEF Pick

(* s is what I leaves of the first n messages of h: e says where each came *)
(* from.                                                                   *)
Leaves(s, h, n, I, e) ==
  /\ \A j \in 1 .. Len(s) : e[j] \in 1 .. n /\ e[j] \in I /\ s[j] = h[e[j]]
  /\ \A i, j \in 1 .. Len(s) : i < j => e[i] < e[j]
  /\ \A k \in 1 .. n : k \in I => \E j \in 1 .. Len(s) : e[j] = k
  /\ Len(s) <= n /\ ((\E k \in 1 .. n : k \notin I) => Len(s) < n)

LEMMA PicksLeave ==
  ASSUME NEW S, NEW h \in Seq(S), NEW I, NEW N \in 0 .. Len(h)
  PROVE  /\ Picks(h, I)[N] \in Seq(S)
         /\ \E e : Leaves(Picks(h, I)[N], h, N, I, e)
         /\ (1 .. N \subseteq I) => Picks(h, I)[N] = SubSeq(h, 1, N)
<1> DEFINE p == Picks(h, I)
           T == {n \in Nat : /\ p[n] \in Seq(S)
                             /\ \E e : Leaves(p[n], h, n, I, e)
                             /\ (1 .. n \subseteq I) => p[n] = SubSeq(h, 1, n)}
<1>1. Len(h) \in Nat /\ \A n \in 1 .. Len(h) : h[n] \in S
  OBVIOUS
<1>2. 0 \in T
  <2>1. p[0] = <<>>
    BY <1>1, PicksSolved DEF Pick
  <2>2. Leaves(<<>>, h, 0, I, <<>>)
    BY DEF Leaves
  <2>3. SubSeq(h, 1, 0) = <<>>
    OBVIOUS
  <2> HIDE DEF p
  <2>4. <<>> \in Seq(S)
    OBVIOUS
  <2> QED
    BY <2>1, <2>2, <2>3, <2>4
<1>3. ASSUME NEW n \in Nat, n < Len(h), n \in T PROVE n + 1 \in T
  <2>1. n + 1 \in 0 .. Len(h) /\ n + 1 # 0 /\ (n + 1) - 1 = n /\ n + 1 \in 1 .. Len(h)
    BY <1>1, <1>3
  <2>2. p[n + 1] = IF n + 1 \in I THEN Append(p[n], h[n + 1]) ELSE p[n]
    BY <2>1, PicksSolved DEF Pick
  <2> HIDE DEF p
  <2>3. PICK s \in Seq(S) : s = p[n]
    BY <1>3
  <2>4. PICK e : Leaves(s, h, n, I, e)
    BY <1>3, <2>3
  <2>5. Len(s) \in Nat /\ h[n + 1] \in S
    BY <1>1, <2>1
  <2>6. \A k \in 1 .. n + 1 : k \in 1 .. n \/ k = n + 1
    OBVIOUS
  <2>7. CASE n + 1 \in I
    <3> DEFINE t == Append(s, h[n + 1])
               d == [j \in 1 .. Len(s) + 1 |-> IF j <= Len(s) THEN e[j] ELSE n + 1]
    <3>1. /\ t \in Seq(S) /\ Len(t) = Len(s) + 1
          /\ \A j \in 1 .. Len(s) : t[j] = s[j]
          /\ t[Len(s) + 1] = h[n + 1]
      BY <2>5
    <3>2. \A j \in 1 .. Len(s) + 1 : (j \in 1 .. Len(s) /\ d[j] = e[j]) \/ (j = Len(s) + 1 /\ d[j] = n + 1)
      BY <2>5
    <3> HIDE DEF t, d
    <3>3. \A j \in 1 .. Len(s) + 1 : d[j] \in 1 .. n + 1 /\ d[j] \in I /\ t[j] = h[d[j]]
      <4>1. \A j \in 1 .. Len(s) : e[j] \in 1 .. n + 1 /\ e[j] \in I /\ s[j] = h[e[j]]
        BY <2>4 DEF Leaves
      <4> QED
        BY <2>1, <2>7, <3>1, <3>2, <4>1
    <3>4. ASSUME NEW i \in 1 .. Len(s) + 1, NEW j \in 1 .. Len(s) + 1, i < j PROVE d[i] < d[j]
      <4>1. i \in 1 .. Len(s) /\ d[i] = e[i] /\ e[i] \in 1 .. n
        BY <2>4, <2>5, <3>2, <3>4 DEF Leaves
      <4>2. CASE j \in 1 .. Len(s) /\ d[j] = e[j]
        BY <2>4, <3>4, <4>1, <4>2 DEF Leaves
      <4>3. CASE d[j] = n + 1
        <5>1. e[i] < n + 1
          BY <4>1
        <5> QED
          BY <4>1, <4>3, <5>1
      <4> QED
        BY <3>2, <4>2, <4>3
    <3>5. ASSUME NEW k \in 1 .. n + 1, k \in I PROVE \E j \in 1 .. Len(s) + 1 : d[j] = k
      <4>1. CASE k = n + 1
        <5>1. Len(s) + 1 \in 1 .. Len(s) + 1 /\ Len(s) + 1 \notin 1 .. Len(s)
          BY <2>5
        <5>2. d[Len(s) + 1] = n + 1
          BY <3>2, <5>1
        <5> QED
          BY <4>1, <5>1, <5>2
      <4>2. CASE k \in 1 .. n
        <5>1. PICK j \in 1 .. Len(s) : e[j] = k
          BY <2>4, <3>5, <4>2 DEF Leaves
        <5>2. j \in 1 .. Len(s) + 1 /\ j # Len(s) + 1
          BY <2>5
        <5> QED
          BY <3>2, <5>1, <5>2
      <4> QED
        BY <2>6, <4>1, <4>2
    <3>6. (\E k \in 1 .. n + 1 : k \notin I) => \E k \in 1 .. n : k \notin I
      BY <2>6, <2>7
    <3>7. Leaves(t, h, n + 1, I, d)
      BY <2>4, <2>5, <3>1, <3>3, <3>4, <3>5, <3>6 DEF Leaves
    <3>8. ASSUME 1 .. n + 1 \subseteq I PROVE t = SubSeq(h, 1, n + 1)
      <4>1. s = SubSeq(h, 1, n)
        BY <1>3, <2>3, <3>8
      <4>2. /\ Len(s) = n /\ \A j \in 1 .. n : s[j] = h[j]
            /\ Len(SubSeq(h, 1, n + 1)) = n + 1
            /\ \A j \in 1 .. n + 1 : SubSeq(h, 1, n + 1)[j] = h[j]
        BY <1>1, <1>3, <2>1, <4>1
      <4>3. \A j \in 1 .. n + 1 : t[j] = SubSeq(h, 1, n + 1)[j]
        BY <2>6, <3>1, <4>2
      <4>4. SubSeq(h, 1, n + 1) \in Seq(S)
        BY <1>1, <2>1
      <4> QED
        BY <3>1, <4>2, <4>3, <4>4
    <3>9. p[n + 1] = t
      BY <2>2, <2>3, <2>7 DEF t
    <3> QED
      BY <3>1, <3>7, <3>8, <3>9
  <2>8. CASE n + 1 \notin I
    <3>1. p[n + 1] = s
      BY <2>2, <2>3, <2>8
    <3>2. Leaves(s, h, n + 1, I, e)
      BY <2>4, <2>5, <2>6, <2>8 DEF Leaves
    <3>3. ~(1 .. n + 1 \subseteq I)
      BY <2>8
    <3> QED
      BY <3>1, <3>2, <3>3
  <2> QED
    BY <2>7, <2>8
<1> HIDE DEF T
<1>4. \A n \in 0 .. Len(h) : n \in T
  BY <1>1, <1>2, <1>3, Counting
<1> QED
  BY <1>4 DEF T

(* retain keeps what it is told to, in its order, and loses the rest.      *)
LEMMA Retained ==
  ASSUME NEW S, NEW h \in Seq(S), NEW I
  PROVE  /\ Retain(h, I) \in Seq(S)
         /\ \E e : Leaves(Retain(h, I), h, Len(h), I, e)
         /\ DOMAIN h \subseteq I => Retain(h, I) = h
<1>1. Len(h) \in 0 .. Len(h) /\ DOMAIN h = 1 .. Len(h)
  OBVIOUS
<1>2. SubSeq(h, 1, Len(h)) = h
  <2>1. /\ SubSeq(h, 1, Len(h)) \in Seq(S) /\ Len(SubSeq(h, 1, Len(h))) = Len(h)
        /\ \A i \in 1 .. Len(h) : SubSeq(h, 1, Len(h))[i] = h[i]
    OBVIOUS
  <2> QED
    BY <2>1
<1>3. /\ Picks(h, I)[Len(h)] \in Seq(S)
      /\ \E e : Leaves(Picks(h, I)[Len(h)], h, Len(h), I, e)
      /\ (1 .. Len(h) \subseteq I) => Picks(h, I)[Len(h)] = SubSeq(h, 1, Len(h))
  BY <1>1, PicksLeave
<1> QED
  BY <1>1, <1>2, <1>3 DEF Retain

-----------------------------------------------------------------------------
(* Histories.                                                              *)

LEMMA Shapes ==
  ASSUME NEW m \in Msgs
  PROVE  /\ m.role = "assistant" =>
              m.run \in Runs /\ m.iter \in Nat /\ m.calls \in Nat
         /\ m.role = "result" => m.of \in Ids /\ m = ToolResult(m.of)
         /\ m.role # "assistant" => CallsOf(m) = {}
<1>1. CASE m \in [role : {"result"}, of : Ids]
  BY <1>1 DEF ToolResult, CallsOf
<1>2. CASE m \in [role : {"assistant"}, run : Runs, iter : Nat, calls : Nat]
  BY <1>2
<1>3. CASE m \in [role : {"user", "final"}, run : Runs]
  BY <1>3 DEF CallsOf
<1>4. CASE m \in [role : {"revision"}, run : Runs, iter : Nat]
  BY <1>4 DEF CallsOf
<1> QED
  BY <1>1, <1>2, <1>3, <1>4 DEF Msgs

LEMMA Made ==
  ASSUME NEW r \in Runs
  PROVE  /\ User(r) \in Msgs /\ User(r).role = "user"
         /\ Final(r) \in Msgs /\ Final(r).role = "final"
         /\ \A i \in Nat : Revision(r, i) \in Msgs /\ Revision(r, i).role = "revision"
         /\ \A i, c \in Nat :
              /\ Assistant(r, i, c) \in Msgs /\ Assistant(r, i, c).role = "assistant"
              /\ Assistant(r, i, c).run = r /\ Assistant(r, i, c).iter = i
              /\ Assistant(r, i, c).calls = c
BY DEF User, Final, Revision, Assistant, Msgs

LEMMA Resulting ==
  ASSUME NEW c
  PROVE  /\ ToolResult(c).role = "result" /\ ToolResult(c).of = c
         /\ c \in Ids => ToolResult(c) \in Msgs
BY DEF ToolResult, Msgs

LEMMA Appended ==
  ASSUME NEW h \in Seq(Msgs), NEW m \in Msgs
  PROVE  /\ Append(h, m) \in Seq(Msgs) /\ Len(Append(h, m)) = Len(h) + 1
         /\ Len(h) \in Nat /\ DOMAIN h = 1 .. Len(h) /\ DOMAIN Append(h, m) = 1 .. Len(h) + 1
         /\ \A i \in 1 .. Len(h) : Append(h, m)[i] = h[i] /\ h[i] \in Msgs
         /\ Append(h, m)[Len(h) + 1] = m
OBVIOUS

(* What a group has of results, it keeps; it gets more only from a result. *)
LEMMA GroupsKept ==
  ASSUME NEW h \in Seq(Msgs), NEW m \in Msgs, NEW a \in DOMAIN h
  PROVE  /\ Calls(Append(h, m), a) <=> Calls(h, a)
         /\ Append(h, m)[a] = h[a]
         /\ \A n \in Nat : Results(h, a, n) => Results(Append(h, m), a, n)
         /\ \A n \in Nat : Results(Append(h, m), a, n) /\ (m.role # "result" \/ a + n <= Len(h)) =>
                             Results(h, a, n)
<1>1. Append(h, m)[a] = h[a] /\ a \in DOMAIN Append(h, m) /\ a \in Nat
  BY Appended
<1>2. ASSUME NEW n \in Nat, Results(h, a, n) PROVE Results(Append(h, m), a, n)
  BY <1>1, <1>2, Appended DEF Results
<1>3. ASSUME NEW n \in Nat, Results(Append(h, m), a, n), m.role # "result" \/ a + n <= Len(h)
      PROVE  Results(h, a, n)
  <2> SUFFICES ASSUME NEW k \in 1 .. n
               PROVE  a + k \in DOMAIN h /\ h[a + k] = ToolResult(<<h[a].run, h[a].iter, k>>)
    BY DEF Results
  <2>1. /\ a + k \in 1 .. Len(h) + 1
        /\ Append(h, m)[a + k] = ToolResult(<<h[a].run, h[a].iter, k>>)
    BY <1>1, <1>3, Appended DEF Results
  <2>2. a + k # Len(h) + 1
    <3>1. Append(h, m)[a + k].role = "result"
      BY <2>1, Resulting
    <3>2. Len(h) \in Nat /\ Append(h, m)[Len(h) + 1] = m
      BY Appended
    <3> QED
      BY <1>1, <1>3, <3>1, <3>2
  <2> QED
    BY <2>1, <2>2, Appended
<1> QED
  BY <1>1, <1>2, <1>3 DEF Calls

(* A message of the user, the monitor or the model's last word.            *)
LEMMA PlainAppended ==
  ASSUME NEW h \in Seq(Msgs), NEW m \in Msgs, m.role \notin {"assistant", "result"}
  PROVE  /\ Sound(h) => Sound(Append(h, m))
         /\ Closed(h) => Closed(Append(h, m))
         /\ BrokenLast(h) => BrokenLast(Append(h, m))
<1> DEFINE g == Append(h, m)
<1>1. /\ DOMAIN g = DOMAIN h \cup {Len(h) + 1} /\ g[Len(h) + 1] = m
      /\ \A a : Calls(g, a) => Calls(h, a) /\ a \in DOMAIN h
  <2>1. \A a \in DOMAIN g : a \in DOMAIN h \/ a = Len(h) + 1
    BY Appended
  <2> QED
    BY <2>1, Appended DEF Calls
<1> HIDE DEF g
<1>2. ASSUME Sound(h) PROVE Sound(g)
  <2>1. ASSUME NEW i \in DOMAIN g, g[i].role = "result"
        PROVE  \E a \in 1 .. i - 1 : Calls(g, a) /\ i - a <= g[a].calls /\ Results(g, a, i - a)
    <3>1. i \in DOMAIN h /\ g[i] = h[i]
      BY <1>1, <2>1, GroupsKept DEF g
    <3>2. PICK a \in 1 .. i - 1 : Calls(h, a) /\ i - a <= h[a].calls /\ Results(h, a, i - a)
      BY <1>2, <2>1, <3>1 DEF Sound
    <3>3. a \in DOMAIN h /\ i - a \in Nat
      BY <3>1, <3>2, Appended DEF Calls
    <3>4. Calls(g, a) /\ g[a] = h[a] /\ Results(g, a, i - a)
      BY <3>2, <3>3, GroupsKept DEF g
    <3> QED
      BY <3>2, <3>4
  <2>2. ASSUME NEW a \in DOMAIN g, NEW b \in DOMAIN g, Calls(g, a), Calls(g, b),
               g[a].run = g[b].run, g[a].iter = g[b].iter
        PROVE  a = b
    <3>1. Calls(h, a) /\ Calls(h, b) /\ a \in DOMAIN h /\ b \in DOMAIN h
      BY <1>1, <2>2
    <3>2. g[a] = h[a] /\ g[b] = h[b]
      BY <3>1, GroupsKept DEF g
    <3> QED
      BY <1>2, <2>2, <3>1, <3>2 DEF Sound
  <2> QED
    BY <2>1, <2>2 DEF Sound
<1>3. \A a : Calls(g, a) => a \in DOMAIN h /\ Calls(h, a) /\ (Complete(g, a) <=> Complete(h, a))
  <2> TAKE a
  <2> HAVE Calls(g, a)
  <2>1. a \in DOMAIN h /\ Calls(h, a) /\ h[a] \in Msgs
    BY <1>1, Appended
  <2>2. h[a].calls \in Nat /\ g[a] = h[a]
    BY <2>1, Shapes, GroupsKept DEF Calls, g
  <2>3. Results(g, a, h[a].calls) <=> Results(h, a, h[a].calls)
    BY <2>1, <2>2, GroupsKept DEF g
  <2> QED
    BY <2>1, <2>2, <2>3 DEF Complete
<1>4. Closed(h) => Closed(g)
  BY <1>1, <1>2, <1>3 DEF Closed
<1>5. BrokenLast(h) => BrokenLast(g)
  BY <1>1, <1>3 DEF BrokenLast
<1> QED
  BY <1>2, <1>4, <1>5 DEF g

(* A message with calls opens a group.                                     *)
LEMMA GroupOpened ==
  ASSUME NEW h \in Seq(Msgs), NEW r \in Runs, NEW i \in Nat, NEW c \in Nat, Closed(h),
         \A a \in DOMAIN h : Calls(h, a) => ~(h[a].run = r /\ h[a].iter = i)
  PROVE  Open(Append(h, Assistant(r, i, c)), r, i, 0, c)
<1>1. PICK m \in Msgs : m = Assistant(r, i, c)
  BY Made
<1> DEFINE g == Append(h, m)
<1>2. m.role = "assistant" /\ m.run = r /\ m.iter = i /\ m.calls = c
  BY <1>1, Made
<1>3. /\ Len(g) = Len(h) + 1 /\ Len(h) \in Nat /\ g[Len(h) + 1] = m
      /\ Len(h) + 1 \in DOMAIN g /\ \A a \in DOMAIN g : a \in DOMAIN h \/ a = Len(h) + 1
  BY Appended
<1>4. \A a \in DOMAIN h : g[a] = h[a] /\ (Calls(g, a) <=> Calls(h, a)) /\ a \in DOMAIN g
  BY GroupsKept, Appended
<1> HIDE DEF g
<1>5. ASSUME NEW j \in DOMAIN g, g[j].role = "result"
      PROVE  \E a \in 1 .. j - 1 : Calls(g, a) /\ j - a <= g[a].calls /\ Results(g, a, j - a)
  <2>1. j \in DOMAIN h /\ g[j] = h[j]
    BY <1>2, <1>3, <1>4, <1>5
  <2>2. PICK a \in 1 .. j - 1 : Calls(h, a) /\ j - a <= h[a].calls /\ Results(h, a, j - a)
    BY <1>5, <2>1 DEF Sound, Closed
  <2>3. a \in DOMAIN h /\ j - a \in Nat
    BY <2>1, <2>2, Appended DEF Calls
  <2>4. Calls(g, a) /\ g[a] = h[a] /\ Results(g, a, j - a)
    BY <2>2, <2>3, GroupsKept DEF g
  <2> QED
    BY <2>2, <2>4
<1>6. ASSUME NEW a \in DOMAIN g, NEW b \in DOMAIN g, Calls(g, a), Calls(g, b),
             g[a].run = g[b].run, g[a].iter = g[b].iter
      PROVE  a = b
  <2>1. CASE a \in DOMAIN h /\ b \in DOMAIN h
    BY <1>4, <1>6, <2>1 DEF Closed, Sound
  <2>2. CASE a \in DOMAIN h /\ b = Len(h) + 1
    BY <1>2, <1>3, <1>4, <1>6, <2>2
  <2>3. CASE b \in DOMAIN h /\ a = Len(h) + 1
    BY <1>2, <1>3, <1>4, <1>6, <2>3
  <2> QED
    BY <1>3, <2>1, <2>2, <2>3
<1>7. Sound(g)
  BY <1>5, <1>6 DEF Sound
<1>8. ASSUME NEW a \in DOMAIN g, Calls(g, a), a # Len(h) + 1 PROVE Complete(g, a)
  <2>1. a \in DOMAIN h /\ Calls(h, a) /\ g[a] = h[a] /\ h[a] \in Msgs
    BY <1>3, <1>4, <1>8, Appended
  <2>2. h[a].calls \in Nat /\ Results(h, a, h[a].calls)
    BY <2>1, Shapes DEF Calls, Closed, Complete
  <2> QED
    BY <2>1, <2>2, GroupsKept DEF Complete, g
<1>9. Results(g, Len(h) + 1, 0)
  BY DEF Results
<1>10. Len(g) - 0 = Len(h) + 1 /\ 0 \in Nat /\ 0 <= c
  BY <1>3
<1>11. Open(g, r, i, 0, c)
  BY <1>1, <1>3, <1>7, <1>8, <1>9, <1>10 DEF Open
<1> QED
  BY <1>1, <1>11 DEF g

(* The group's start holds calls, its run and its iteration.               *)
LEMMA OpenGroup ==
  ASSUME NEW h \in Seq(Msgs), NEW r \in Runs, NEW i \in Nat, NEW n, NEW c,
         Open(h, r, i, n, c)
  PROVE  /\ n \in Nat /\ c \in Nat /\ n <= c /\ Len(h) \in Nat /\ n < Len(h)
         /\ Calls(h, Len(h) - n) /\ Len(h) - n \in 1 .. Len(h)
         /\ h[Len(h) - n].run = r /\ h[Len(h) - n].iter = i /\ h[Len(h) - n].calls = c
         /\ \A k \in 1 .. n : h[Len(h) - n + k] = ToolResult(<<r, i, k>>)
<1>1. n \in Nat /\ c \in Nat /\ n <= c /\ Len(h) \in Nat /\ Len(h) - n \in 1 .. Len(h)
  BY DEF Open
<1>2. h[Len(h) - n] = Assistant(r, i, c)
  BY DEF Open
<1>3. /\ h[Len(h) - n].role = "assistant" /\ h[Len(h) - n].run = r
      /\ h[Len(h) - n].iter = i /\ h[Len(h) - n].calls = c
  BY <1>1, <1>2, Made
<1>4. \A k \in 1 .. n : h[Len(h) - n + k] = ToolResult(<<r, i, k>>)
  BY <1>3 DEF Open, Results
<1> QED
  BY <1>1, <1>3, <1>4 DEF Calls

(* The next result of the group.                                           *)
LEMMA GroupGrows ==
  ASSUME NEW h \in Seq(Msgs), NEW r \in Runs, NEW i \in Nat, NEW n, NEW c,
         Open(h, r, i, n, c), n < c
  PROVE  Open(Append(h, ToolResult(<<r, i, n + 1>>)), r, i, n + 1, c)
<1> DEFINE s == Len(h) - n
<1>1. /\ n \in Nat /\ c \in Nat /\ n <= c /\ Len(h) \in Nat
      /\ Calls(h, s) /\ s \in 1 .. Len(h) /\ h[s].run = r /\ h[s].iter = i /\ h[s].calls = c
      /\ Results(h, s, n) /\ s + n = Len(h)
  <2>1. n \in Nat /\ Len(h) \in Nat
    BY OpenGroup
  <2>2. s + n = Len(h)
    BY <2>1
  <2>3. Results(h, s, n)
    BY DEF Open
  <2> QED
    BY <2>2, <2>3, OpenGroup
<1>2. PICK m \in Msgs : m = ToolResult(<<r, i, n + 1>>)
  <2>1. <<r, i, n + 1>> \in Ids
    BY <1>1 DEF Ids
  <2> QED
    BY <2>1, Resulting
<1> DEFINE g == Append(h, m)
<1>3. m.role = "result"
  BY <1>2, Resulting
<1>4. /\ Len(g) = Len(h) + 1 /\ g[Len(h) + 1] = m /\ DOMAIN h = 1 .. Len(h)
      /\ DOMAIN g = 1 .. Len(h) + 1 /\ \A a \in DOMAIN g : a \in DOMAIN h \/ a = Len(h) + 1
  BY Appended
<1>5. \A a \in DOMAIN h : g[a] = h[a] /\ (Calls(g, a) <=> Calls(h, a)) /\ a \in DOMAIN g
  BY GroupsKept, Appended
<1>6. \A a : Calls(g, a) => a \in DOMAIN h /\ Calls(h, a)
  <2> HIDE DEF g
  <2> QED
    BY <1>3, <1>4, <1>5 DEF Calls
<1> HIDE DEF s
<1>7. Results(g, s, n + 1)
  <2> SUFFICES ASSUME NEW k \in 1 .. n + 1
               PROVE  s + k \in DOMAIN g /\ g[s + k] = ToolResult(<<g[s].run, g[s].iter, k>>)
    BY DEF Results
  <2>1. CASE k \in 1 .. n
    <3>1. Results(g, s, n)
      BY <1>1, <1>4, GroupsKept
    <3> QED
      BY <2>1, <3>1 DEF Results
  <2>2. CASE k = n + 1
    <3>1. s + k = Len(h) + 1 /\ s \in DOMAIN h
      BY <1>1, <1>4, <2>2
    <3> HIDE DEF g
    <3>2. g[s + k] = ToolResult(<<r, i, k>>)
      BY <1>2, <1>4, <2>2, <3>1
    <3>3. g[s].run = r /\ g[s].iter = i
      BY <1>1, <1>5, <3>1
    <3>4. s + k \in DOMAIN g
      BY <1>1, <1>4, <3>1
    <3> QED
      BY <3>2, <3>3, <3>4
  <2>3. k \in 1 .. n \/ k = n + 1
    BY <1>1
  <2> QED
    BY <2>1, <2>2, <2>3
<1>8. ASSUME NEW j \in DOMAIN g, g[j].role = "result"
      PROVE  \E a \in 1 .. j - 1 : Calls(g, a) /\ j - a <= g[a].calls /\ Results(g, a, j - a)
  <2>1. CASE j \in DOMAIN h
    <3>1. g[j] = h[j]
      BY <1>5, <2>1
    <3>2. PICK a \in 1 .. j - 1 : Calls(h, a) /\ j - a <= h[a].calls /\ Results(h, a, j - a)
      BY <1>8, <2>1, <3>1 DEF Open, Sound
    <3>3. a \in DOMAIN h /\ j - a \in Nat
      BY <1>4, <2>1, <3>2 DEF Calls
    <3>4. Calls(g, a) /\ g[a] = h[a] /\ Results(g, a, j - a)
      BY <3>2, <3>3, GroupsKept
    <3> QED
      BY <3>2, <3>4
  <2>2. CASE j = Len(h) + 1
    <3>1. s \in 1 .. j - 1 /\ j - s = n + 1 /\ s \in DOMAIN h
      BY <1>1, <1>4, <2>2
    <3>2. Calls(g, s) /\ g[s].calls = c
      BY <1>1, <1>5, <3>1
    <3>3. n + 1 <= c
      BY <1>1
    <3> QED
      BY <1>7, <3>1, <3>2, <3>3
  <2> QED
    BY <1>4, <2>1, <2>2
<1>9. ASSUME NEW a \in DOMAIN g, NEW b \in DOMAIN g, Calls(g, a), Calls(g, b),
             g[a].run = g[b].run, g[a].iter = g[b].iter
      PROVE  a = b
  BY <1>5, <1>6, <1>9 DEF Open, Sound
<1>10. ASSUME NEW a \in DOMAIN g, Calls(g, a), a # s PROVE Complete(g, a)
  <2>1. a \in DOMAIN h /\ Calls(h, a) /\ g[a] = h[a] /\ h[a] \in Msgs
    BY <1>5, <1>6, <1>10, Appended
  <2>2. h[a].calls \in Nat /\ Results(h, a, h[a].calls)
    BY <1>10, <2>1, Shapes DEF Calls, Open, Complete, s
  <2> QED
    BY <2>1, <2>2, GroupsKept DEF Complete
<1>11. Len(g) - (n + 1) = s /\ s \in DOMAIN g /\ n + 1 \in Nat /\ n + 1 <= c
  BY <1>1, <1>4 DEF s
<1>12. g[s] = Assistant(r, i, c)
  <2>1. s \in DOMAIN h
    BY <1>1, <1>4
  <2> QED
    BY <1>5, <2>1 DEF Open, s
<1>13. Sound(g)
  BY <1>8, <1>9 DEF Sound
<1> HIDE DEF g
<1>14. Open(g, r, i, n + 1, c)
  BY <1>1, <1>7, <1>10, <1>11, <1>12, <1>13 DEF Open
<1> QED
  BY <1>2, <1>14 DEF g

(* A group with all its results closes the history.                        *)
LEMMA GroupDone ==
  ASSUME NEW h \in Seq(Msgs), NEW r \in Runs, NEW i \in Nat, NEW c, Open(h, r, i, c, c)
  PROVE  Closed(h)
<1>1. /\ Sound(h) /\ Results(h, Len(h) - c, c)
      /\ \A a \in DOMAIN h : Calls(h, a) /\ a # Len(h) - c => Complete(h, a)
  BY DEF Open
<1>2. h[Len(h) - c].calls = c
  BY OpenGroup
<1> QED
  BY <1>1, <1>2 DEF Closed, Complete

(* Only the last group of a run at work is broken.                         *)
LEMMA OpenBroken ==
  ASSUME NEW h \in Seq(Msgs), NEW r \in Runs, NEW i \in Nat, NEW n, NEW c,
         Open(h, r, i, n, c)
  PROVE  Sound(h) /\ BrokenLast(h)
<1>1. Sound(h)
  BY DEF Open
<1>2. ASSUME NEW a \in DOMAIN h, NEW b \in DOMAIN h, Calls(h, a), Calls(h, b), a < b
      PROVE  Complete(h, a)
  <2>1. CASE a # Len(h) - n
    BY <1>2, <2>1 DEF Open
  <2>2. CASE a = Len(h) - n
    <3>1. n \in Nat /\ Len(h) \in Nat /\ b \in 1 .. Len(h) /\ b - a \in 1 .. n
      <4>1. n \in Nat /\ Len(h) \in Nat /\ a \in 1 .. Len(h) /\ b \in 1 .. Len(h)
        BY <2>2, OpenGroup
      <4> QED
        BY <1>2, <2>2, <4>1
    <3>2. h[a + (b - a)] = ToolResult(<<r, i, b - a>>)
      <4>1. \A k \in 1 .. n : h[Len(h) - n + k] = ToolResult(<<r, i, k>>)
        BY OpenGroup
      <4> QED
        BY <2>2, <3>1, <4>1
    <3>3. a + (b - a) = b
      BY <2>2, <3>1
    <3> QED
      BY <1>2, <3>2, <3>3, Resulting DEF Calls
  <2> QED
    BY <2>1, <2>2
<1> QED
  BY <1>1, <1>2 DEF BrokenLast

LEMMA ClosedBroken ==
  ASSUME NEW h \in Seq(Msgs), Closed(h)
  PROVE  Sound(h) /\ BrokenLast(h)
BY DEF Closed, BrokenLast

(* What a rewrite has brought back so far of a closed history.             *)
LEMMA BroughtBack ==
  ASSUME NEW s \in Seq(Msgs), NEW t \in Seq(Msgs), Closed(s \o t)
  PROVE  Sound(s) /\ BrokenLast(s)
<1> DEFINE h == s \o t
<1>1. /\ Len(s) \in Nat /\ Len(t) \in Nat /\ Len(h) = Len(s) + Len(t) /\ h \in Seq(Msgs)
      /\ DOMAIN s = 1 .. Len(s) /\ DOMAIN h = 1 .. Len(s) + Len(t)
      /\ \A i \in 1 .. Len(s) : h[i] = s[i]
  OBVIOUS
<1> HIDE DEF h
<1>2. \A a \in DOMAIN s : a \in DOMAIN h /\ h[a] = s[a] /\ (Calls(h, a) <=> Calls(s, a))
  BY <1>1 DEF Calls
<1>3. ASSUME NEW a \in DOMAIN s, NEW n \in Nat, a + n <= Len(s), Results(h, a, n)
      PROVE  Results(s, a, n)
  BY <1>1, <1>3 DEF Results
<1>4. Sound(h) /\ \A a \in DOMAIN h : Calls(h, a) => Complete(h, a)
  BY DEF Closed, h
<1>5. ASSUME NEW j \in DOMAIN s, s[j].role = "result"
      PROVE  \E a \in 1 .. j - 1 : Calls(s, a) /\ j - a <= s[a].calls /\ Results(s, a, j - a)
  <2>1. PICK a \in 1 .. j - 1 : Calls(h, a) /\ j - a <= h[a].calls /\ Results(h, a, j - a)
    BY <1>2, <1>4, <1>5 DEF Sound
  <2>2. a \in DOMAIN s /\ j - a \in Nat /\ a + (j - a) <= Len(s)
    BY <1>1, <2>1
  <2> QED
    BY <1>2, <1>3, <2>1, <2>2
<1>6. ASSUME NEW a \in DOMAIN s, NEW b \in DOMAIN s, Calls(s, a), Calls(s, b),
             s[a].run = s[b].run, s[a].iter = s[b].iter
      PROVE  a = b
  BY <1>2, <1>4, <1>6 DEF Sound
<1>7. ASSUME NEW a \in DOMAIN s, NEW b \in DOMAIN s, Calls(s, a), Calls(s, b), a < b
      PROVE  Complete(s, a)
  <2>1. Results(h, a, h[a].calls) /\ h[a] = s[a] /\ h[a].calls \in Nat
    BY <1>1, <1>2, <1>4, <1>7, Shapes DEF Complete, Calls
  <2>2. a + h[a].calls < b
    <3> SUFFICES ASSUME b <= a + h[a].calls PROVE FALSE
      BY <1>1, <2>1
    <3>1. b - a \in 1 .. h[a].calls /\ a + (b - a) = b
      BY <1>1, <1>7, <2>1
    <3>2. h[b] = ToolResult(<<h[a].run, h[a].iter, b - a>>)
      BY <2>1, <3>1 DEF Results
    <3> QED
      BY <1>2, <1>7, <3>2, Resulting DEF Calls
  <2>3. Results(s, a, h[a].calls)
    BY <1>1, <1>3, <2>1, <2>2
  <2> QED
    BY <2>1, <2>3 DEF Complete
<1> QED
  BY <1>5, <1>6, <1>7 DEF Sound, BrokenLast

-----------------------------------------------------------------------------
(* Sanitizing.                                                             *)

LEMMA OfGroup ==
  ASSUME NEW h \in Seq(Msgs), NEW a, Calls(h, a)
  PROVE  /\ h[a] \in Msgs /\ a \in 1 .. Len(h) /\ Len(h) \in Nat
         /\ h[a].run \in Runs /\ h[a].iter \in Nat /\ h[a].calls \in Nat
         /\ CallsOf(h[a]) = {<<h[a].run, h[a].iter, k>> : k \in 1 .. h[a].calls}
<1>1. h[a] \in Msgs /\ a \in 1 .. Len(h) /\ Len(h) \in Nat /\ h[a].role = "assistant"
  BY DEF Calls
<1> QED
  BY <1>1, Shapes DEF CallsOf

(* A result stands at its number in the group of its call.                 *)
LEMMA OfResult ==
  ASSUME NEW h \in Seq(Msgs), Sound(h), NEW i \in DOMAIN h, h[i].role = "result"
  PROVE  \E a \in 1 .. i - 1 :
           /\ Calls(h, a) /\ a \in 1 .. Len(h) /\ i - a \in 1 .. h[a].calls
           /\ Results(h, a, i - a) /\ h[i].of = <<h[a].run, h[a].iter, i - a>>
<1>1. PICK a \in 1 .. i - 1 : Calls(h, a) /\ i - a <= h[a].calls /\ Results(h, a, i - a)
  BY DEF Sound
<1>2. i \in 1 .. Len(h) /\ Len(h) \in Nat /\ h[a].calls \in Nat
  BY <1>1, OfGroup
<1>3. i - a \in 1 .. h[a].calls /\ i - a \in 1 .. i - a /\ a + (i - a) = i /\ a \in 1 .. Len(h)
  BY <1>1, <1>2
<1>4. h[a + (i - a)] = ToolResult(<<h[a].run, h[a].iter, i - a>>)
  BY <1>1, <1>3 DEF Results
<1>5. h[i].of = <<h[a].run, h[a].iter, i - a>>
  BY <1>3, <1>4, Resulting
<1> QED
  BY <1>1, <1>3, <1>5

(* The first pass finds nothing to remove.                                 *)
LEMMA KnownKept ==
  ASSUME NEW h \in Seq(Msgs), Sound(h)
  PROVE  RetainKnown(h) = h
<1>1. ASSUME NEW i \in DOMAIN h, h[i].role = "result" PROVE h[i].of \in AllCalls(h)
  <2>1. PICK a \in 1 .. i - 1 :
           /\ Calls(h, a) /\ i - a \in 1 .. h[a].calls
           /\ h[i].of = <<h[a].run, h[a].iter, i - a>>
    BY <1>1, OfResult
  <2>2. h[i].of \in CallsOf(h[a]) /\ a \in DOMAIN h
    BY <2>1, OfGroup
  <2> QED
    BY <2>2 DEF AllCalls
<1>2. DOMAIN h \subseteq { i \in DOMAIN h : h[i].role = "result" => h[i].of \in AllCalls(h) }
  BY <1>1
<1> QED
  BY <1>2, Retained DEF RetainKnown

LEMMA SanitizeIs ==
  ASSUME NEW h \in Seq(Msgs), Sound(h)
  PROVE  Sanitize(h) = RetainAnswered(h)
BY KnownKept DEF Sanitize

(* Broken for sanitize_history() is: not complete.                         *)
LEMMA BrokenIs ==
  ASSUME NEW h \in Seq(Msgs), Sound(h), NEW a \in DOMAIN h
  PROVE  IsBroken(h, a) <=> Calls(h, a) /\ ~Complete(h, a)
<1>1. CASE ~Calls(h, a)
  BY <1>1, Shapes DEF Calls, IsBroken
<1>2. CASE Calls(h, a)
  <2>1. /\ h[a].calls \in Nat /\ a \in 1 .. Len(h)
        /\ CallsOf(h[a]) = {<<h[a].run, h[a].iter, k>> : k \in 1 .. h[a].calls}
    BY <1>2, OfGroup
  <2>2. ASSUME Complete(h, a) PROVE CallsOf(h[a]) \subseteq AnsweredAfter(h, a)
    <3> SUFFICES ASSUME NEW k \in 1 .. h[a].calls
                 PROVE  <<h[a].run, h[a].iter, k>> \in AnsweredAfter(h, a)
      BY <2>1
    <3>1. a + k \in DOMAIN h /\ h[a + k] = ToolResult(<<h[a].run, h[a].iter, k>>) /\ a + k > a
      BY <2>1, <2>2 DEF Complete, Results
    <3>2. h[a + k].role = "result" /\ h[a + k].of = <<h[a].run, h[a].iter, k>>
      BY <3>1, Resulting
    <3> QED
      BY <3>1, <3>2 DEF AnsweredAfter
  <2>3. ASSUME CallsOf(h[a]) \subseteq AnsweredAfter(h, a) PROVE Complete(h, a)
    <3> SUFFICES ASSUME NEW k \in 1 .. h[a].calls
                 PROVE  a + k \in DOMAIN h /\ h[a + k] = ToolResult(<<h[a].run, h[a].iter, k>>)
      BY DEF Complete, Results
    <3>1. PICK j \in DOMAIN h : j > a /\ h[j].role = "result" /\ h[j].of = <<h[a].run, h[a].iter, k>>
      <4>1. <<h[a].run, h[a].iter, k>> \in AnsweredAfter(h, a)
        BY <2>1, <2>3
      <4> QED
        BY <4>1 DEF AnsweredAfter
    <3>2. PICK b \in 1 .. j - 1 :
             /\ Calls(h, b) /\ b \in 1 .. Len(h) /\ Results(h, b, j - b)
             /\ h[j].of = <<h[b].run, h[b].iter, j - b>>
      BY <3>1, OfResult
    <3>3. b = a
      BY <1>2, <2>1, <3>1, <3>2 DEF Sound
    <3>4. k = j - a /\ a + k = j
      BY <2>1, <3>1, <3>2, <3>3
    <3>5. h[j] = ToolResult(h[j].of)
      <4>1. h[j] \in Msgs
        BY <3>1
      <4> QED
        BY <3>1, <4>1, Shapes
    <3> QED
      BY <3>1, <3>4, <3>5
  <2>4. CallsOf(h[a]) = {} => Complete(h, a)
    BY <2>1 DEF Complete, Results
  <2> QED
    BY <1>2, <2>2, <2>3, <2>4 DEF IsBroken
<1> QED
  BY <1>1, <1>2

(* What the second pass keeps: complete groups, and what is in no group.   *)
Kept(h) ==
  { i \in DOMAIN h :
      /\ h[i].role = "result" =>
           \A a \in DOMAIN h : Calls(h, a) /\ h[i].of \in CallsOf(h[a]) => Complete(h, a)
      /\ Calls(h, i) => Complete(h, i) }

(* Two groups are apart.                                                   *)
LEMMA GroupsApart ==
  ASSUME NEW h \in Seq(Msgs), Sound(h), NEW a, NEW b, Calls(h, a), Calls(h, b),
         CallsOf(h[a]) \cap CallsOf(h[b]) # {}
  PROVE  a = b
<1>1. PICK x : x \in CallsOf(h[a]) /\ x \in CallsOf(h[b])
  OBVIOUS
<1>2. PICK k : x = <<h[a].run, h[a].iter, k>>
  BY <1>1, OfGroup
<1>3. PICK l : x = <<h[b].run, h[b].iter, l>>
  BY <1>1, OfGroup
<1>4. h[a].run = h[b].run /\ h[a].iter = h[b].iter
  BY <1>2, <1>3
<1> QED
  BY <1>4 DEF Sound, Calls

LEMMA AnsweredKept ==
  ASSUME NEW h \in Seq(Msgs), Sound(h), BrokenLast(h)
  PROVE  RetainAnswered(h) = Retain(h, Kept(h))
<1> DEFINE broken == { i \in DOMAIN h :
                         /\ IsBroken(h, i)
                         /\ \A j \in DOMAIN h :
                              j > i /\ CallsOf(h[j]) # {} => IsBroken(h, j) }
           gone == UNION { CallsOf(h[i]) : i \in broken }
           I == { i \in DOMAIN h : /\ h[i].role = "result" => h[i].of \notin gone
                                   /\ CallsOf(h[i]) \cap gone = {} }
<1>1. ASSUME NEW i \in DOMAIN h, IsBroken(h, i), NEW j \in DOMAIN h, j > i, CallsOf(h[j]) # {}
      PROVE  IsBroken(h, j)
  <2>1. Calls(h, j)
    BY <1>1, Shapes DEF Calls
  <2>2. Calls(h, i) /\ ~Complete(h, i)
    BY <1>1, BrokenIs
  <2>3. i < j
    BY <1>1
  <2>4. ~Complete(h, j)
    BY <2>1, <2>2, <2>3 DEF BrokenLast
  <2> QED
    BY <2>1, <2>4, BrokenIs
<1>2. broken = { a \in DOMAIN h : Calls(h, a) /\ ~Complete(h, a) }
  BY <1>1, BrokenIs
<1> HIDE DEF broken
<1>3. \A x : x \in gone <=> \E a \in DOMAIN h : Calls(h, a) /\ ~Complete(h, a) /\ x \in CallsOf(h[a])
  BY <1>2
<1> HIDE DEF gone
<1>4. ASSUME NEW i \in DOMAIN h
      PROVE  CallsOf(h[i]) \cap gone = {} <=> (Calls(h, i) => Complete(h, i))
  <2>1. CASE ~Calls(h, i)
    <3>1. h[i] \in Msgs
      OBVIOUS
    <3> QED
      BY <2>1, <3>1, Shapes DEF Calls
  <2>2. CASE Calls(h, i) /\ Complete(h, i)
    <3> SUFFICES ASSUME NEW x \in CallsOf(h[i]), x \in gone PROVE FALSE
      BY <2>2
    <3>1. PICK a \in DOMAIN h : Calls(h, a) /\ ~Complete(h, a) /\ x \in CallsOf(h[a])
      BY <1>3
    <3> QED
      BY <2>2, <3>1, GroupsApart
  <2>3. CASE Calls(h, i) /\ ~Complete(h, i)
    <3>1. CallsOf(h[i]) # {}
      BY <2>3, BrokenIs DEF IsBroken
    <3> QED
      BY <1>3, <2>3, <3>1
  <2> QED
    BY <2>1, <2>2, <2>3
<1>5. ASSUME NEW i \in DOMAIN h
      PROVE  h[i].of \notin gone <=>
               \A a \in DOMAIN h : Calls(h, a) /\ h[i].of \in CallsOf(h[a]) => Complete(h, a)
  BY <1>3
<1>6. I = Kept(h)
  BY <1>4, <1>5 DEF Kept
<1> QED
  BY <1>6 DEF RetainAnswered, broken, gone

(* The whole of a complete group stays together.                           *)
LEMMA GroupStays ==
  ASSUME NEW h \in Seq(Msgs), Sound(h), NEW s \in Seq(Msgs), NEW e,
         Leaves(s, h, Len(h), Kept(h), e), NEW j, Calls(s, j)
  PROVE  /\ e[j] \in DOMAIN h /\ Calls(h, e[j]) /\ h[e[j]] = s[j] /\ Complete(h, e[j])
         /\ s[j].calls \in Nat
         /\ \A k \in 0 .. s[j].calls : j + k \in DOMAIN s /\ e[j + k] = e[j] + k
<1> DEFINE c == s[j].calls
           a == e[j]
           T == {k \in Nat : j + k \in DOMAIN s /\ e[j + k] = a + k}
<1>1. /\ j \in 1 .. Len(s) /\ Len(s) \in Nat /\ DOMAIN s = 1 .. Len(s)
      /\ Len(h) \in Nat /\ DOMAIN h = 1 .. Len(h)
  BY OfGroup
<1>2. a \in DOMAIN h /\ a \in Kept(h) /\ s[j] = h[a]
  BY <1>1 DEF Leaves
<1>3. Calls(h, a) /\ Complete(h, a) /\ c \in Nat
  BY <1>2, OfGroup DEF Kept, Calls
<1>4. 0 \in T
  BY <1>1, <1>2
<1>5. ASSUME NEW k \in Nat, k < c, k \in T PROVE k + 1 \in T
  <2>1. /\ k + 1 \in 1 .. h[a].calls /\ a + (k + 1) \in DOMAIN h
        /\ h[a + (k + 1)] = ToolResult(<<h[a].run, h[a].iter, k + 1>>)
    <3>1. k + 1 \in 1 .. h[a].calls
      BY <1>2, <1>3, <1>5
    <3> QED
      BY <1>3, <3>1 DEF Complete, Results
  <2>2. a + (k + 1) \in Kept(h)
    <3>1. ~Calls(h, a + (k + 1)) /\ h[a + (k + 1)].of = <<h[a].run, h[a].iter, k + 1>>
      BY <2>1, Resulting DEF Calls
    <3>2. <<h[a].run, h[a].iter, k + 1>> \in CallsOf(h[a])
      <4>1. CallsOf(h[a]) = {<<h[a].run, h[a].iter, d>> : d \in 1 .. h[a].calls}
        BY <1>3, OfGroup
      <4>2. k + 1 \in 1 .. h[a].calls
        BY <2>1
      <4> QED
        BY <4>1, <4>2
    <3>3. ASSUME NEW b \in DOMAIN h, Calls(h, b), h[a + (k + 1)].of \in CallsOf(h[b])
          PROVE  Complete(h, b)
      BY <1>3, <3>1, <3>2, <3>3, GroupsApart
    <3> QED
      BY <2>1, <3>1, <3>3 DEF Kept
  <2>3. PICK m \in 1 .. Len(s) : e[m] = a + (k + 1)
    BY <1>1, <2>1, <2>2 DEF Leaves
  <2>4. j + k \in 1 .. Len(s) /\ e[j + k] = a + k /\ a \in Nat /\ j \in Nat
    BY <1>1, <1>2, <1>5
  <2>5. j + k < m
    <3> SUFFICES ASSUME ~(j + k < m) PROVE FALSE
      OBVIOUS
    <3>1. m = j + k \/ m < j + k
      BY <2>4
    <3>2. m < j + k => e[m] < e[j + k]
      BY <2>4 DEF Leaves
    <3> QED
      BY <2>3, <2>4, <3>1, <3>2
  <2>6. j + (k + 1) \in 1 .. Len(s) /\ j + k < j + (k + 1) /\ (j + (k + 1) = m \/ j + (k + 1) < m)
    BY <2>4, <2>5
  <2>7. e[j + k] < e[j + (k + 1)]
    BY <2>4, <2>6 DEF Leaves
  <2>8. j + (k + 1) < m => e[j + (k + 1)] < e[m]
    BY <2>6 DEF Leaves
  <2>9. e[j + (k + 1)] \in Nat
    BY <1>1, <2>6 DEF Leaves
  <2>10. e[j + (k + 1)] = a + (k + 1)
    BY <2>3, <2>4, <2>6, <2>7, <2>8, <2>9
  <2> QED
    BY <1>1, <2>6, <2>10
<1>6. \A k \in 0 .. c : k \in T
  <2> HIDE DEF T, c
  <2> QED
    BY <1>3, <1>4, <1>5, Counting
<1> QED
  BY <1>2, <1>3, <1>6

LEMMA KeptClosed ==
  ASSUME NEW h \in Seq(Msgs), Sound(h), NEW s \in Seq(Msgs), NEW e,
         Leaves(s, h, Len(h), Kept(h), e)
  PROVE  Closed(s)
<1>1. /\ Len(s) \in Nat /\ DOMAIN s = 1 .. Len(s) /\ Len(h) \in Nat /\ DOMAIN h = 1 .. Len(h)
      /\ \A j \in DOMAIN s : e[j] \in DOMAIN h /\ e[j] \in Kept(h) /\ s[j] = h[e[j]]
  BY DEF Leaves
<1>2. \A i, j \in DOMAIN s : e[i] = e[j] => i = j
  <2> TAKE i, j \in DOMAIN s
  <2>1. i < j => e[i] < e[j]
    BY <1>1 DEF Leaves
  <2>2. j < i => e[j] < e[i]
    BY <1>1 DEF Leaves
  <2>3. e[i] \in Nat /\ e[j] \in Nat /\ i \in Nat /\ j \in Nat
    BY <1>1
  <2> QED
    BY <2>1, <2>2, <2>3
<1>3. ASSUME NEW j \in DOMAIN s, Calls(s, j) PROVE Complete(s, j)
  <2> SUFFICES ASSUME NEW k \in 1 .. s[j].calls
               PROVE  j + k \in DOMAIN s /\ s[j + k] = ToolResult(<<s[j].run, s[j].iter, k>>)
    BY DEF Complete, Results
  <2>1. h[e[j]] = s[j] /\ Complete(h, e[j]) /\ s[j].calls \in Nat
    BY <1>3, GroupStays
  <2>2. k \in 0 .. s[j].calls
    BY <2>1
  <2>3. j + k \in DOMAIN s /\ e[j + k] = e[j] + k
    BY <1>3, <2>2, GroupStays
  <2>4. h[e[j] + k] = ToolResult(<<s[j].run, s[j].iter, k>>)
    BY <2>1 DEF Complete, Results
  <2> QED
    BY <1>1, <2>3, <2>4
<1>4. ASSUME NEW i \in DOMAIN s, s[i].role = "result"
      PROVE  \E a \in 1 .. i - 1 : Calls(s, a) /\ i - a <= s[a].calls /\ Results(s, a, i - a)
  <2>1. e[i] \in DOMAIN h /\ e[i] \in Kept(h) /\ h[e[i]].role = "result"
    BY <1>1, <1>4
  <2>2. PICK a \in 1 .. e[i] - 1 :
           /\ Calls(h, a) /\ a \in 1 .. Len(h) /\ e[i] - a \in 1 .. h[a].calls
           /\ h[e[i]].of = <<h[a].run, h[a].iter, e[i] - a>>
    BY <2>1, OfResult
  <2>3. h[e[i]].of \in CallsOf(h[a])
    BY <2>2, OfGroup
  <2>4. Complete(h, a)
    BY <1>1, <2>1, <2>2, <2>3 DEF Kept
  <2>5. a \in Kept(h)
    BY <1>1, <2>2, <2>4 DEF Kept, Calls
  <2>6. PICK j \in DOMAIN s : e[j] = a
    BY <1>1, <2>2, <2>5 DEF Leaves
  <2>7. s[j] = h[a] /\ Calls(s, j)
    BY <1>1, <2>2, <2>6 DEF Calls
  <2>8. s[j].calls \in Nat /\ \A k \in 0 .. s[j].calls : j + k \in DOMAIN s /\ e[j + k] = e[j] + k
    BY <2>7, GroupStays
  <2>9. PICK d \in 1 .. s[j].calls : d = e[i] - a
    BY <2>2, <2>7
  <2>10. j + d \in DOMAIN s /\ e[j + d] = a + d
    BY <2>6, <2>8, <2>9
  <2>11. a + d = e[i]
    BY <1>1, <2>2, <2>9
  <2>12. i = j + d
    BY <1>2, <2>10, <2>11
  <2>13. j \in 1 .. i - 1 /\ i - j = d /\ d <= s[j].calls
    BY <1>1, <2>8, <2>9, <2>12
  <2>14. Results(s, j, d)
    <3>1. Results(s, j, s[j].calls)
      BY <1>3, <2>7 DEF Complete
    <3>2. \A k \in 1 .. d : k \in 1 .. s[j].calls
      BY <2>8, <2>9
    <3> QED
      BY <3>1, <3>2 DEF Results
  <2> QED
    BY <2>7, <2>13, <2>14
<1>5. ASSUME NEW a \in DOMAIN s, NEW b \in DOMAIN s, Calls(s, a), Calls(s, b),
             s[a].run = s[b].run, s[a].iter = s[b].iter
      PROVE  a = b
  <2>1. /\ e[a] \in DOMAIN h /\ Calls(h, e[a]) /\ h[e[a]] = s[a]
        /\ e[b] \in DOMAIN h /\ Calls(h, e[b]) /\ h[e[b]] = s[b]
    BY <1>5, GroupStays
  <2>2. e[a] = e[b]
    BY <1>5, <2>1 DEF Sound
  <2> QED
    BY <1>2, <2>2
<1> QED
  BY <1>3, <1>4, <1>5 DEF Closed, Sound

(* sanitize_history() makes a closed history of what a crash left, loses   *)
(* no message but those of broken groups, and tells by the length whether  *)
(* it changed anything.                                                    *)
LEMMA Sanitized ==
  ASSUME NEW h \in Seq(Msgs), Sound(h), BrokenLast(h)
  PROVE  /\ Sanitize(h) \in Seq(Msgs) /\ Closed(Sanitize(h))
         /\ Len(Sanitize(h)) = Len(h) => Closed(h)
         /\ \A i \in DOMAIN h : h[i].role \notin {"assistant", "result"} =>
              \E j \in DOMAIN Sanitize(h) : Sanitize(h)[j] = h[i]
         /\ \A j \in DOMAIN Sanitize(h) : \E i \in DOMAIN h : h[i] = Sanitize(h)[j]
<1>1. Sanitize(h) = Retain(h, Kept(h))
  BY SanitizeIs, AnsweredKept
<1>2. PICK s \in Seq(Msgs) : s = Sanitize(h)
  BY <1>1, Retained
<1>3. PICK e : Leaves(s, h, Len(h), Kept(h), e)
  BY <1>1, <1>2, Retained
<1>4. Closed(s)
  BY <1>3, KeptClosed
<1>5. DOMAIN h = 1 .. Len(h) /\ DOMAIN s = 1 .. Len(s) /\ Len(h) \in Nat /\ Len(s) \in Nat
  OBVIOUS
<1>6. ASSUME Len(s) = Len(h) PROVE Closed(h)
  <2>1. DOMAIN h \subseteq Kept(h)
    BY <1>3, <1>5, <1>6 DEF Leaves
  <2>2. s = h
    BY <1>1, <1>2, <2>1, Retained
  <2> QED
    BY <1>4, <2>2
<1>7. ASSUME NEW i \in DOMAIN h, h[i].role \notin {"assistant", "result"}
      PROVE  \E j \in DOMAIN s : s[j] = h[i]
  <2>1. i \in Kept(h)
    BY <1>7 DEF Kept, Calls
  <2> QED
    BY <1>3, <1>5, <2>1 DEF Leaves
<1>8. \A j \in DOMAIN s : \E i \in DOMAIN h : h[i] = s[j]
  BY <1>3, <1>5 DEF Leaves
<1> QED
  BY <1>2, <1>4, <1>6, <1>7, <1>8

(* A closed history is what a request to a model must be.                  *)
LEMMA ClosedWellFormed ==
  ASSUME NEW h \in Seq(Msgs), Closed(h)
  PROVE  WellFormed(h)
<1>1. ASSUME NEW i \in DOMAIN h, h[i].role = "assistant", NEW k \in 1 .. h[i].calls
      PROVE  i + k \in DOMAIN h /\ h[i + k] = ToolResult(<<h[i].run, h[i].iter, k>>)
  BY <1>1 DEF Closed, Calls, Complete, Results
<1>2. ASSUME NEW i \in DOMAIN h, h[i].role = "result"
      PROVE  h[i].of \in AllCalls(SubSeq(h, 1, i - 1))
  <2>1. PICK a \in 1 .. i - 1 :
           /\ Calls(h, a) /\ a \in 1 .. Len(h) /\ i - a \in 1 .. h[a].calls
           /\ h[i].of = <<h[a].run, h[a].iter, i - a>>
    BY <1>2, OfResult DEF Closed
  <2>2. h[i].of \in CallsOf(h[a])
    BY <2>1, OfGroup
  <2>3. a \in DOMAIN SubSeq(h, 1, i - 1) /\ SubSeq(h, 1, i - 1)[a] = h[a]
    <3>1. i - 1 \in 0 .. Len(h)
      OBVIOUS
    <3> QED
      BY <2>1, <3>1
  <2> QED
    BY <2>2, <2>3 DEF AllCalls
<1> QED
  BY <1>1, <1>2 DEF WellFormed

-----------------------------------------------------------------------------
(* Requests: the turns that are made of a history.                         *)

Turned(p, h, n) == p[n] = IF n = 0 THEN <<>> ELSE AddTurn(p[n - 1], h[n])

LEMMA TurnsSolved ==
  ASSUME NEW S, NEW h \in Seq(S)
  PROVE  \A n \in 0 .. Len(h) : Turned(TurnsUpTo(h), h, n)
<1> DEFINE T == {n \in Nat : \E p : \A m \in 0 .. n : Turned(p, h, m)}
<1>1. Len(h) \in Nat
  OBVIOUS
<1>2. 0 \in T
  <2>1. \A m \in 0 .. 0 : Turned([k \in {0} |-> <<>>], h, m)
    BY DEF Turned
  <2> QED
    BY <2>1
<1>3. ASSUME NEW n \in T PROVE n + 1 \in T
  <2>1. PICK p : \A m \in 0 .. n : Turned(p, h, m)
    OBVIOUS
  <2> DEFINE g == [k \in 0 .. n + 1 |-> IF k <= n THEN p[k] ELSE AddTurn(p[n], h[n + 1])]
  <2>2. ASSUME NEW m \in 0 .. n + 1 PROVE Turned(g, h, m)
    <3>1. CASE m <= n
      <4>1. g[m] = p[m] /\ (m # 0 => g[m - 1] = p[m - 1])
        BY <3>1
      <4>2. Turned(p, h, m)
        BY <2>1, <3>1
      <4> QED
        BY <4>1, <4>2 DEF Turned
    <3>2. CASE m = n + 1
      <4>1. m # 0 /\ m - 1 = n /\ g[n] = p[n]
        BY <3>2
      <4>2. g[m] = AddTurn(p[n], h[n + 1])
        BY <3>2
      <4> QED
        BY <3>2, <4>1, <4>2 DEF Turned
    <3> QED
      BY <3>1, <3>2
  <2> HIDE DEF g
  <2> QED
    BY <2>2
<1>4. PICK p : \A m \in 0 .. Len(h) : Turned(p, h, m)
  <2> HIDE DEF T
  <2>1. \A n \in 0 .. Len(h) : n \in T
    BY <1>1, <1>2, <1>3, Counting
  <2>2. Len(h) \in T
    BY <1>1, <2>1
  <2> QED
    BY <2>2 DEF T
<1> DEFINE f == [m \in 0 .. Len(h) |-> p[m]]
<1>5. f = [n \in 0 .. Len(h) |-> IF n = 0 THEN <<>> ELSE AddTurn(f[n - 1], h[n])]
  BY <1>1, <1>4 DEF Turned
<1> HIDE DEF f
<1>6. TurnsUpTo(h) = [n \in 0 .. Len(h) |->
                        IF n = 0 THEN <<>> ELSE AddTurn(TurnsUpTo(h)[n - 1], h[n])]
  BY <1>5 DEF TurnsUpTo
<1> QED
  BY <1>6 DEF Turned

TurnRecord == [role : {"user", "assistant"}, blocks : Seq(Msgs)]

IsResult(h, i) == h[i].role = "result"

(* The turn u is made of the messages behind a up to b: one message, or    *)
(* nothing but results.                                                    *)
TurnAt(u, h, a, b) ==
  /\ a < b /\ Len(u.blocks) = b - a
  /\ \A d \in 1 .. b - a : u.blocks[d] = h[a + d]
  /\ b = a + 1 \/ \A d \in 1 .. b - a : IsResult(h, a + d)
  /\ IsResult(h, a + 1) => u.role = "user"

(* The turns t have the first n messages of h: turn k those behind f[k] up *)
(* to f[k + 1].  No turn of results follows another.                       *)
TurnsOf(t, h, n, f) ==
  /\ f \in [1 .. Len(t) + 1 -> 0 .. n] /\ f[1] = 0 /\ f[Len(t) + 1] = n
  /\ \A k \in 1 .. Len(t) : TurnAt(t[k], h, f[k], f[k + 1])
  /\ \A k \in 1 .. Len(t) - 1 : ~(IsResult(h, f[k] + 1) /\ IsResult(h, f[k + 1] + 1))

LEMMA TurnJoined ==
  ASSUME NEW h \in Seq(Msgs), NEW n \in Nat, n < Len(h), NEW t \in Seq(TurnRecord), NEW f,
         TurnsOf(t, h, n, f), Joins(t, h[n + 1])
  PROVE  /\ AddTurn(t, h[n + 1]) \in Seq(TurnRecord)
         /\ TurnsOf(AddTurn(t, h[n + 1]), h, n + 1, [f EXCEPT ![Len(t) + 1] = n + 1])
<1> DEFINE L == Len(t)
           m == h[n + 1]
           bl == Append(t[L].blocks, m)
           u == [t[L] EXCEPT !.blocks = bl]
           w == [t EXCEPT ![L] = u]
           g == [f EXCEPT ![L + 1] = n + 1]
<1>1. /\ L \in Nat /\ L > 0 /\ L \in 1 .. L /\ t[L] \in TurnRecord /\ m \in Msgs
      /\ m.role = "result" /\ Len(h) \in Nat
  BY DEF Joins
<1>2. AddTurn(t, m) = w
  BY DEF AddTurn
<1>3. /\ t[L].blocks \in Seq(Msgs) /\ bl \in Seq(Msgs) /\ Len(bl) = Len(t[L].blocks) + 1
      /\ \A d \in 1 .. Len(t[L].blocks) : bl[d] = t[L].blocks[d]
      /\ bl[Len(t[L].blocks) + 1] = m
  BY <1>1 DEF TurnRecord
<1> HIDE DEF bl
<1>4. u \in TurnRecord /\ u.blocks = bl /\ u.role = t[L].role
  BY <1>1, <1>3 DEF TurnRecord
<1> HIDE DEF u
<1>5. /\ w \in Seq(TurnRecord) /\ Len(w) = L /\ w[L] = u
      /\ \A k \in 1 .. L : k # L => w[k] = t[k]
  BY <1>1, <1>4
<1> HIDE DEF w
<1>6. /\ g \in [1 .. L + 1 -> 0 .. n + 1] /\ g[L + 1] = n + 1
      /\ \A k \in 1 .. L : g[k] = f[k]
      /\ f \in [1 .. L + 1 -> 0 .. n]
  <2>1. f \in [1 .. L + 1 -> 0 .. n]
    BY DEF TurnsOf
  <2> QED
    BY <1>1, <2>1
<1> HIDE DEF g
<1>7. PICK a \in 0 .. n : a = f[L]
  BY <1>1, <1>6
<1>8. TurnAt(t[L], h, a, n)
  BY <1>1, <1>7 DEF TurnsOf
<1>9. Len(t[L].blocks) = n - a /\ a < n /\ n - a \in Nat
  BY <1>7, <1>8 DEF TurnAt
<1>10. \A d \in 1 .. (n + 1) - a : d \in 1 .. n - a \/ (d = n - a + 1 /\ a + d = n + 1)
  <2>1. PICK q \in Nat : q = n - a
    BY <1>9
  <2>2. (n + 1) - a = q + 1 /\ a + (q + 1) = n + 1
    <3>1. n \in Nat /\ a \in Nat
      BY <1>7
    <3> QED
      BY <2>1, <3>1
  <2>3. \A d \in 1 .. q + 1 : d \in 1 .. q \/ (d = q + 1 /\ a + d = n + 1)
    BY <2>2
  <2> QED
    BY <2>1, <2>2, <2>3
<1>11. \A d \in 1 .. n - a : IsResult(h, a + d) /\ t[L].blocks[d] = h[a + d]
  <2>1. 1 \in 1 .. n - a
    BY <1>7, <1>9
  <2>2. IsResult(h, a + 1)
    BY <1>8, <2>1 DEF TurnAt, Joins, Last, IsResult
  <2>3. n = a + 1 => \A d \in 1 .. n - a : d = 1
    BY <1>7
  <2> QED
    BY <1>8, <2>2, <2>3 DEF TurnAt
<1>12. TurnAt(u, h, a, n + 1)
  <2>1. \A d \in 1 .. (n + 1) - a : bl[d] = h[a + d] /\ IsResult(h, a + d)
    BY <1>1, <1>3, <1>9, <1>10, <1>11 DEF IsResult
  <2>2. Len(bl) = (n + 1) - a /\ a < n + 1
    BY <1>3, <1>7, <1>9
  <2> QED
    BY <1>4, <2>1, <2>2 DEF TurnAt, Joins, Last
<1>13. \A k \in 1 .. L : TurnAt(w[k], h, g[k], g[k + 1])
  <2> TAKE k \in 1 .. L
  <2>1. CASE k = L
    BY <1>1, <1>5, <1>6, <1>7, <1>12, <2>1
  <2>2. CASE k # L
    <3>1. k + 1 \in 1 .. L /\ g[k + 1] = f[k + 1] /\ g[k] = f[k]
      BY <1>1, <1>6, <2>2
    <3> QED
      BY <1>5, <2>2, <3>1 DEF TurnsOf
  <2> QED
    BY <2>1, <2>2
<1>14. \A k \in 1 .. L - 1 : ~(IsResult(h, g[k] + 1) /\ IsResult(h, g[k + 1] + 1))
  <2> TAKE k \in 1 .. L - 1
  <2>1. k + 1 \in 1 .. L /\ k \in 1 .. L
    BY <1>1
  <2> QED
    BY <1>6, <2>1 DEF TurnsOf
<1>15. g[1] = 0
  BY <1>1, <1>6 DEF TurnsOf
<1>16. TurnsOf(w, h, n + 1, g)
  BY <1>5, <1>6, <1>13, <1>14, <1>15 DEF TurnsOf
<1> QED
  BY <1>2, <1>5, <1>16 DEF g

LEMMA TurnAdded ==
  ASSUME NEW h \in Seq(Msgs), NEW n \in Nat, n < Len(h), NEW t \in Seq(TurnRecord), NEW f,
         TurnsOf(t, h, n, f), ~Joins(t, h[n + 1])
  PROVE  /\ AddTurn(t, h[n + 1]) \in Seq(TurnRecord)
         /\ \E g : TurnsOf(AddTurn(t, h[n + 1]), h, n + 1, g)
<1> DEFINE L == Len(t)
           m == h[n + 1]
           u == [role |-> Speaker(m), blocks |-> <<m>>]
           w == Append(t, u)
           g == [k \in 1 .. L + 2 |-> IF k <= L + 1 THEN f[k] ELSE n + 1]
<1>1. L \in Nat /\ m \in Msgs /\ Len(h) \in Nat
  OBVIOUS
<1>2. AddTurn(t, m) = w
  BY DEF AddTurn
<1>3. /\ u \in TurnRecord /\ Len(u.blocks) = 1 /\ u.blocks[1] = m
      /\ m.role = "result" => u.role = "user"
  <2>1. Speaker(m) = "assistant" \/ Speaker(m) = "user"
    BY DEF Speaker
  <2>2. ASSUME m.role = "result" PROVE Speaker(m) = "user"
    BY <2>2 DEF Speaker
  <2>3. <<m>> \in Seq(Msgs) /\ Len(<<m>>) = 1 /\ <<m>>[1] = m
    BY <1>1
  <2> QED
    BY <2>1, <2>2, <2>3 DEF TurnRecord
<1> HIDE DEF u
<1>4. /\ w \in Seq(TurnRecord) /\ Len(w) = L + 1 /\ w[L + 1] = u
      /\ \A k \in 1 .. L : w[k] = t[k]
  BY <1>1, <1>3
<1> HIDE DEF w
<1>5. f \in [1 .. L + 1 -> 0 .. n] /\ f[1] = 0 /\ f[L + 1] = n
  BY DEF TurnsOf
<1>6. /\ g \in [1 .. (L + 1) + 1 -> 0 .. n + 1] /\ g[(L + 1) + 1] = n + 1
      /\ \A k \in 1 .. L + 1 : g[k] = f[k]
  <2>1. \A k \in 1 .. L + 1 : k \in 1 .. L + 2 /\ f[k] \in 0 .. n + 1
    BY <1>1, <1>5
  <2>2. L + 2 = (L + 1) + 1 /\ n + 1 \in 0 .. n + 1 /\ ~(L + 2 <= L + 1)
    BY <1>1
  <2> QED
    BY <1>1, <2>1, <2>2
<1> HIDE DEF g
<1>7. TurnAt(u, h, n, n + 1)
  <2>1. (n + 1) - n = 1 /\ \A d \in 1 .. 1 : d = 1
    OBVIOUS
  <2> QED
    BY <1>3, <2>1 DEF TurnAt, IsResult
<1>8. \A k \in 1 .. L + 1 : TurnAt(w[k], h, g[k], g[k + 1])
  <2> TAKE k \in 1 .. L + 1
  <2>1. CASE k = L + 1
    BY <1>1, <1>4, <1>5, <1>6, <1>7, <2>1
  <2>2. CASE k # L + 1
    <3>1. k \in 1 .. L /\ k + 1 \in 1 .. L + 1
      BY <1>1, <2>2
    <3> QED
      BY <1>4, <1>6, <3>1 DEF TurnsOf
  <2> QED
    BY <2>1, <2>2
<1>9. \A k \in 1 .. L : ~(IsResult(h, g[k] + 1) /\ IsResult(h, g[k + 1] + 1))
  <2> TAKE k \in 1 .. L
  <2>1. k + 1 \in 1 .. L + 1 /\ k \in 1 .. L + 1
    BY <1>1
  <2>2. CASE k = L
    <3> SUFFICES ASSUME IsResult(h, f[L] + 1), IsResult(h, n + 1) PROVE FALSE
      BY <1>5, <1>6, <2>1, <2>2
    <3>1. TurnAt(t[L], h, f[L], n) /\ f[L] \in Nat
      BY <1>1, <1>5, <2>1, <2>2 DEF TurnsOf
    <3>2. 1 \in 1 .. n - f[L]
      BY <3>1 DEF TurnAt
    <3>3. t[L].role = "user" /\ t[L].blocks[1] = h[f[L] + 1]
      BY <3>1, <3>2 DEF TurnAt
    <3>4. t # <<>>
      BY <1>1, <2>2
    <3> QED
      BY <3>3, <3>4 DEF Joins, Last, IsResult
  <2>3. CASE k # L
    <3>1. k \in 1 .. L - 1
      BY <1>1, <2>3
    <3> QED
      BY <1>6, <2>1, <3>1 DEF TurnsOf
  <2> QED
    BY <2>2, <2>3
<1>10. g[1] = 0 /\ (L + 1) - 1 = L
  BY <1>1, <1>5, <1>6
<1>11. TurnsOf(w, h, n + 1, g)
  BY <1>4, <1>6, <1>8, <1>9, <1>10 DEF TurnsOf
<1> QED
  BY <1>2, <1>4, <1>11

LEMMA TurnsMade ==
  ASSUME NEW h \in Seq(Msgs)
  PROVE  Turns(h) \in Seq(TurnRecord) /\ \E f : TurnsOf(Turns(h), h, Len(h), f)
<1> DEFINE p == TurnsUpTo(h)
           T == {n \in Nat : p[n] \in Seq(TurnRecord) /\ \E f : TurnsOf(p[n], h, n, f)}
<1>1. Len(h) \in Nat
  OBVIOUS
<1>2. 0 \in T
  <2>1. p[0] = <<>>
    BY <1>1, TurnsSolved DEF Turned
  <2>2. <<>> \in Seq(TurnRecord) /\ Len(<<>>) = 0
    OBVIOUS
  <2> DEFINE f == [k \in 1 .. 0 + 1 |-> 0]
  <2>3. f \in [1 .. 0 + 1 -> 0 .. 0] /\ f[1] = 0 /\ f[0 + 1] = 0
    OBVIOUS
  <2> HIDE DEF f
  <2>4. TurnsOf(<<>>, h, 0, f)
    BY <2>2, <2>3 DEF TurnsOf
  <2> HIDE DEF p
  <2> QED
    BY <2>1, <2>2, <2>4
<1>3. ASSUME NEW n \in Nat, n < Len(h), n \in T PROVE n + 1 \in T
  <2>1. n + 1 \in 0 .. Len(h) /\ n + 1 # 0 /\ (n + 1) - 1 = n
    BY <1>1, <1>3
  <2>2. p[n + 1] = AddTurn(p[n], h[n + 1])
    BY <2>1, TurnsSolved DEF Turned
  <2> HIDE DEF p
  <2>3. PICK t \in Seq(TurnRecord) : t = p[n]
    BY <1>3
  <2>4. PICK f : TurnsOf(t, h, n, f)
    BY <1>3, <2>3
  <2>5. AddTurn(t, h[n + 1]) \in Seq(TurnRecord) /\ \E g : TurnsOf(AddTurn(t, h[n + 1]), h, n + 1, g)
    BY <1>3, <2>4, TurnJoined, TurnAdded
  <2> QED
    BY <2>2, <2>3, <2>5
<1> HIDE DEF T
<1>4. \A n \in 0 .. Len(h) : n \in T
  BY <1>1, <1>2, <1>3, Counting
<1>5. Len(h) \in T
  BY <1>1, <1>4
<1> QED
  BY <1>5 DEF T, Turns

HasCalls(h, a) == Calls(h, a) /\ h[a].calls > 0

(* In a closed history, what follows a message that is no result is a      *)
(* result only if that message has calls.                                  *)
LEMMA ResultFollows ==
  ASSUME NEW h \in Seq(Msgs), Closed(h), NEW i \in DOMAIN h, IsResult(h, i)
  PROVE  /\ i > 1
         /\ \/ IsResult(h, i - 1)
            \/ HasCalls(h, i - 1)
<1>1. PICK a \in 1 .. i - 1 :
         /\ Calls(h, a) /\ a \in 1 .. Len(h) /\ i - a \in 1 .. h[a].calls /\ Results(h, a, i - a)
  BY OfResult DEF Closed, IsResult
<1>2. i \in Nat /\ i > 1
  <2>1. DOMAIN h = 1 .. Len(h) /\ Len(h) \in Nat
    OBVIOUS
  <2> QED
    BY <1>1, <2>1
<1>3. CASE i - 1 = a
  <2>1. h[a].calls \in Nat
    BY <1>1, OfGroup
  <2>2. h[a].calls > 0
    BY <1>1, <1>2, <2>1
  <2> QED
    BY <1>1, <1>2, <1>3, <2>2 DEF HasCalls
<1>4. CASE i - 1 # a
  <2>1. PICK k \in 1 .. i - a : k = (i - 1) - a
    BY <1>1, <1>2, <1>4
  <2>2. a + k = i - 1
    BY <1>1, <1>2, <2>1
  <2>3. h[i - 1] = ToolResult(<<h[a].run, h[a].iter, k>>)
    BY <1>1, <2>1, <2>2 DEF Results
  <2> QED
    BY <1>2, <2>3, Resulting DEF IsResult
<1> QED
  BY <1>2, <1>3, <1>4

(* Behind the results of a group stands no other result.                   *)
LEMMA GroupEnds ==
  ASSUME NEW h \in Seq(Msgs), Closed(h), NEW a, Calls(h, a), NEW i \in DOMAIN h, IsResult(h, i),
         i > a
  PROVE  i <= a + h[a].calls \/ \E j \in DOMAIN h : a + h[a].calls < j /\ j < i /\ ~IsResult(h, j)
<1>1. PICK b \in 1 .. i - 1 :
         /\ Calls(h, b) /\ b \in 1 .. Len(h) /\ i - b \in 1 .. h[b].calls /\ Results(h, b, i - b)
  BY OfResult DEF Closed, IsResult
<1>2. /\ a \in 1 .. Len(h) /\ h[a].calls \in Nat /\ i \in Nat /\ DOMAIN h = 1 .. Len(h)
      /\ Len(h) \in Nat
  BY OfGroup
<1>3. ~IsResult(h, a) /\ ~IsResult(h, b)
  BY <1>1 DEF Calls, IsResult
<1>4. CASE b = a
  BY <1>1, <1>2, <1>4
<1>5. CASE b < a
  <2>1. PICK k \in 1 .. i - b : k = a - b
    BY <1>1, <1>2, <1>5
  <2>2. b + k = a
    BY <1>1, <1>2, <2>1
  <2>3. h[a] = ToolResult(<<h[b].run, h[b].iter, k>>)
    BY <1>1, <2>1, <2>2 DEF Results
  <2> QED
    BY <1>3, <2>3, Resulting DEF IsResult
<1>6. CASE b > a
  <2>1. CASE b <= a + h[a].calls
    <3>1. PICK k \in 1 .. h[a].calls : k = b - a
      BY <1>1, <1>2, <1>6, <2>1
    <3>2. a + k = b
      BY <1>1, <1>2, <3>1
    <3>3. Results(h, a, h[a].calls)
      BY DEF Closed, Calls, Complete
    <3>4. h[b] = ToolResult(<<h[a].run, h[a].iter, k>>)
      BY <3>1, <3>2, <3>3 DEF Results
    <3> QED
      BY <1>3, <3>4, Resulting DEF IsResult
  <2>2. CASE b > a + h[a].calls
    BY <1>1, <1>2, <1>3, <2>2
  <2> QED
    BY <1>1, <1>2, <2>1, <2>2
<1> QED
  BY <1>1, <1>2, <1>4, <1>5, <1>6

LEMMA NoCalls ==
  ASSUME NEW h \in Seq(Msgs), NEW a \in DOMAIN h, ~HasCalls(h, a)
  PROVE  CallsOf(h[a]) = {}
<1>1. CASE Calls(h, a)
  <2>1. h[a].calls \in Nat /\ CallsOf(h[a]) = {<<h[a].run, h[a].iter, k>> : k \in 1 .. h[a].calls}
    BY <1>1, OfGroup
  <2>2. 1 .. h[a].calls = {}
    BY <1>1, <2>1 DEF HasCalls
  <2> QED
    BY <2>1, <2>2
<1>2. CASE ~Calls(h, a)
  BY <1>2 DEF Calls, CallsOf
<1> QED
  BY <1>1, <1>2

(* What a turn asks and answers.                                           *)
Asked(bl) == UNION {CallsOf(bl[k]) : k \in DOMAIN bl}
AnsweredIn(bl) == {bl[k].of : k \in {k \in DOMAIN bl : bl[k].role = "result"}}

LEMMA TurnBlocks ==
  ASSUME NEW h \in Seq(Msgs), NEW u \in TurnRecord, NEW a \in Nat, NEW b \in Nat,
         b <= Len(h), TurnAt(u, h, a, b)
  PROVE  /\ DOMAIN u.blocks = 1 .. b - a /\ b - a \in Nat /\ 1 \in 1 .. b - a
         /\ a + 1 \in DOMAIN h /\ u.blocks[1] = h[a + 1]
         /\ IsResult(h, a + 1) => Asked(u.blocks) = {}
         /\ ~IsResult(h, a + 1) => /\ b = a + 1 /\ AnsweredIn(u.blocks) = {}
                                   /\ Asked(u.blocks) = CallsOf(h[b])
<1>1. /\ u.blocks \in Seq(Msgs) /\ Len(h) \in Nat /\ a < b /\ Len(u.blocks) = b - a
      /\ \A d \in 1 .. b - a : u.blocks[d] = h[a + d]
  BY DEF TurnAt, TurnRecord
<1>2. DOMAIN u.blocks = 1 .. b - a /\ b - a \in Nat /\ 1 \in 1 .. b - a /\ a + 1 \in DOMAIN h
  BY <1>1
<1>3. ASSUME IsResult(h, a + 1) PROVE Asked(u.blocks) = {}
  <2>1. \A d \in 1 .. b - a : IsResult(h, a + d)
    <3>1. b = a + 1 => \A d \in 1 .. b - a : d = 1
      OBVIOUS
    <3> QED
      BY <1>3, <3>1 DEF TurnAt
  <2>2. \A d \in DOMAIN u.blocks : CallsOf(u.blocks[d]) = {}
    BY <1>1, <1>2, <2>1 DEF IsResult, CallsOf
  <2> QED
    BY <2>2 DEF Asked
<1>4. ASSUME ~IsResult(h, a + 1)
      PROVE  b = a + 1 /\ AnsweredIn(u.blocks) = {} /\ Asked(u.blocks) = CallsOf(h[b])
  <2>1. b = a + 1
    BY <1>2, <1>4 DEF TurnAt
  <2>2. \A d \in DOMAIN u.blocks : d = 1 /\ u.blocks[d] = h[a + 1]
    <3>1. (a + 1) - a = 1 /\ \A d \in 1 .. 1 : d = 1
      OBVIOUS
    <3> QED
      BY <1>1, <1>2, <2>1, <3>1
  <2>3. AnsweredIn(u.blocks) = {}
    BY <1>4, <2>2 DEF AnsweredIn, IsResult
  <2>4. Asked(u.blocks) = CallsOf(h[a + 1])
    BY <1>2, <2>2 DEF Asked
  <2> QED
    BY <2>1, <2>3, <2>4
<1> QED
  BY <1>1, <1>2, <1>3, <1>4

(* The turn behind a turn with calls has all the results, and no others.   *)
EndsAt(h, b, e) == e = Len(h) \/ ~(IsResult(h, b + 1) /\ IsResult(h, e + 1))

LEMMA TurnAnswers ==
  ASSUME NEW h \in Seq(Msgs), Closed(h), NEW u \in TurnRecord, NEW b \in Nat, NEW e \in Nat,
         e <= Len(h), TurnAt(u, h, b, e), HasCalls(h, b), EndsAt(h, b, e)
  PROVE  AnsweredIn(u.blocks) = CallsOf(h[b])
<1>0. PICK c \in Nat : c = h[b].calls /\ Calls(h, b) /\ c > 0
  BY OfGroup DEF HasCalls
<1>1. /\ c \in Nat /\ c > 0 /\ b \in 1 .. Len(h) /\ Len(h) \in Nat /\ DOMAIN h = 1 .. Len(h)
      /\ 1 \in 1 .. c
  BY <1>0, OfGroup
<1>2. CallsOf(h[b]) = {<<h[b].run, h[b].iter, k>> : k \in 1 .. c} /\ Results(h, b, c)
  BY <1>0, OfGroup DEF Closed, Calls, Complete
<1>3. \A k \in 1 .. c : /\ b + k \in DOMAIN h /\ h[b + k] = ToolResult(<<h[b].run, h[b].iter, k>>)
                        /\ IsResult(h, b + k)
  BY <1>2, Resulting DEF Results, IsResult
<1>4. /\ u.blocks \in Seq(Msgs) /\ b < e /\ Len(u.blocks) = e - b
      /\ \A d \in 1 .. e - b : u.blocks[d] = h[b + d]
  BY DEF TurnAt, TurnRecord
<1>5. PICK q \in Nat : q = e - b /\ b + q = e /\ DOMAIN u.blocks = 1 .. q
  <2>1. DOMAIN u.blocks = 1 .. e - b
    BY <1>4
  <2>2. e - b \in Nat /\ b + (e - b) = e
    BY <1>4
  <2> QED
    BY <2>1, <2>2
<1>6. IsResult(h, b + 1)
  BY <1>1, <1>3
<1>7. \A d \in 1 .. q : IsResult(h, b + d)
  <2>1. e = b + 1 => \A d \in 1 .. e - b : d = 1
    OBVIOUS
  <2> QED
    BY <1>5, <1>6, <2>1 DEF TurnAt
<1>8. q = c
  <2>1. ASSUME q > c PROVE FALSE
    <3>1. c \in Nat /\ Len(h) \in Nat /\ b + q <= Len(h) /\ DOMAIN h = 1 .. Len(h)
      BY <1>1, <1>5
    <3>2. c + 1 \in 1 .. q
      BY <2>1, <3>1
    <3>3. PICK i \in Nat : i = b + (c + 1)
      BY <3>1
    <3>4. i \in DOMAIN h /\ i > b /\ i = b + c + 1
      BY <2>1, <3>1, <3>3
    <3>5. IsResult(h, i)
      BY <1>7, <3>2, <3>3
    <3>6. i <= b + c \/ \E j \in DOMAIN h : b + c < j /\ j < i /\ ~IsResult(h, j)
      BY <1>0, <3>4, <3>5, GroupEnds
    <3> QED
      BY <3>1, <3>4, <3>6
  <2>2. ASSUME q < c PROVE FALSE
    <3>1. q + 1 \in 1 .. c /\ b + (q + 1) = e + 1
      <4>1. c \in Nat /\ b + q = e
        BY <1>1, <1>5
      <4> QED
        BY <2>2, <4>1
    <3>2. IsResult(h, e + 1) /\ e + 1 \in DOMAIN h
      BY <1>3, <3>1
    <3>3. e # Len(h)
      <4>1. e + 1 <= Len(h) /\ Len(h) \in Nat
        BY <1>1, <3>2
      <4> QED
        BY <4>1
    <3> QED
      BY <1>6, <3>2, <3>3 DEF EndsAt
  <2> QED
    BY <1>1, <2>1, <2>2
<1>9. \A k \in 1 .. c : u.blocks[k] = ToolResult(<<h[b].run, h[b].iter, k>>)
  <2>1. 1 .. e - b = 1 .. c
    BY <1>5, <1>8
  <2>2. \A d \in 1 .. c : u.blocks[d] = h[b + d]
    BY <1>4, <2>1
  <2> QED
    BY <1>3, <2>2
<1>10. \A k \in 1 .. c : u.blocks[k].role = "result" /\ u.blocks[k].of = <<h[b].run, h[b].iter, k>>
  <2> TAKE k \in 1 .. c
  <2>1. u.blocks[k] = ToolResult(<<h[b].run, h[b].iter, k>>)
    BY <1>9
  <2> QED
    BY <2>1, Resulting
<1>11. {k \in DOMAIN u.blocks : u.blocks[k].role = "result"} = 1 .. c
  BY <1>5, <1>8, <1>10
<1>12. AnsweredIn(u.blocks) = {u.blocks[k].of : k \in 1 .. c}
  BY <1>11 DEF AnsweredIn
<1>13. CallsOf(h[b]) = {<<h[b].run, h[b].iter, k>> : k \in 1 .. c}
  BY <1>2
<1>14. \A k \in 1 .. c : u.blocks[k].of = <<h[b].run, h[b].iter, k>>
  BY <1>10
<1> QED
  BY <1>12, <1>13, <1>14

LEMMA ClosedTurns ==
  ASSUME NEW h \in Seq(Msgs), Closed(h)
  PROVE  TurnsPairUp(Turns(h))
<1>1. PICK t \in Seq(TurnRecord) : t = Turns(h)
  BY TurnsMade
<1>2. PICK f : TurnsOf(t, h, Len(h), f)
  BY <1>1, TurnsMade
<1>3. /\ f \in [1 .. Len(t) + 1 -> 0 .. Len(h)] /\ f[1] = 0 /\ f[Len(t) + 1] = Len(h)
      /\ \A k \in 1 .. Len(t) : TurnAt(t[k], h, f[k], f[k + 1])
      /\ \A k \in 1 .. Len(t) - 1 : ~(IsResult(h, f[k] + 1) /\ IsResult(h, f[k + 1] + 1))
      /\ DOMAIN t = 1 .. Len(t) /\ Len(t) \in Nat /\ Len(h) \in Nat /\ DOMAIN h = 1 .. Len(h)
  BY <1>2 DEF TurnsOf
<1>4. ASSUME NEW i \in DOMAIN t
      PROVE  LET next == IF i < Len(t) THEN t[i + 1].blocks ELSE <<>>
             IN  /\ Asked(t[i].blocks) = AnsweredIn(next)
                 /\ i = 1 => t[i].blocks[1].role # "result"
  <2>1. i \in 1 .. Len(t) /\ i \in 1 .. Len(t) + 1 /\ i + 1 \in 1 .. Len(t) + 1
    BY <1>3
  <2>2. PICK a \in 0 .. Len(h) : a = f[i]
    BY <1>3, <2>1
  <2>3. PICK b \in 0 .. Len(h) : b = f[i + 1]
    BY <1>3, <2>1
  <2>4. TurnAt(t[i], h, a, b) /\ t[i] \in TurnRecord /\ a \in Nat /\ b \in Nat /\ b <= Len(h)
    BY <1>3, <2>1, <2>2, <2>3
  <2> DEFINE next == IF i < Len(t) THEN t[i + 1].blocks ELSE <<>>
  <2>5. AnsweredIn(<<>>) = {}
    BY DEF AnsweredIn
  <2>6. ASSUME i < Len(t) PROVE Asked(t[i].blocks) = AnsweredIn(next)
    <3>1. next = t[i + 1].blocks /\ t[i + 1] \in TurnRecord /\ i + 1 \in 1 .. Len(t)
          /\ i \in 1 .. Len(t) - 1 /\ (i + 1) + 1 \in 1 .. Len(t) + 1
      BY <1>3, <2>1, <2>6
    <3> HIDE DEF next
    <3>2. PICK e \in 0 .. Len(h) : e = f[(i + 1) + 1]
      BY <1>3, <3>1
    <3>3. TurnAt(t[i + 1], h, b, e) /\ e \in Nat /\ e <= Len(h)
      BY <1>3, <2>3, <3>1, <3>2
    <3>4. EndsAt(h, b, e)
      <4>1. CASE i + 1 = Len(t)
        BY <1>3, <3>2, <4>1 DEF EndsAt
      <4>2. CASE i + 1 # Len(t)
        <5>1. i + 1 \in 1 .. Len(t) - 1
          BY <1>3, <3>1, <4>2
        <5> QED
          BY <1>3, <2>3, <3>2, <5>1 DEF EndsAt
      <4> QED
        BY <4>1, <4>2
    <3>5. ~(IsResult(h, a + 1) /\ IsResult(h, b + 1))
      BY <1>3, <2>2, <2>3, <3>1
    <3>6. b + 1 \in DOMAIN h /\ (~IsResult(h, b + 1) => AnsweredIn(next) = {})
      BY <2>4, <3>1, <3>3, TurnBlocks
    <3>7. CASE IsResult(h, a + 1)
      BY <2>4, <3>5, <3>6, <3>7, TurnBlocks
    <3>8. CASE ~IsResult(h, a + 1)
      <4>1. b = a + 1 /\ Asked(t[i].blocks) = CallsOf(h[b]) /\ b \in DOMAIN h
        BY <2>4, <3>8, TurnBlocks
      <4>2. CASE HasCalls(h, b)
        BY <2>4, <3>1, <3>3, <3>4, <4>1, <4>2, TurnAnswers
      <4>3. CASE ~HasCalls(h, b)
        <5>1. (b + 1) - 1 = b
          BY <2>4
        <5>2. ~IsResult(h, b + 1)
          BY <3>6, <3>8, <4>1, <4>3, <5>1, ResultFollows
        <5>3. CallsOf(h[b]) = {}
          BY <4>1, <4>3, NoCalls
        <5> QED
          BY <3>6, <4>1, <5>2, <5>3
      <4> QED
        BY <4>2, <4>3
    <3>9. Asked(t[i].blocks) = AnsweredIn(next)
      BY <3>7, <3>8
    <3> QED
      BY <3>9 DEF next
  <2>7. ASSUME ~(i < Len(t)) PROVE Asked(t[i].blocks) = AnsweredIn(next)
    <3>1. b = Len(h)
      BY <1>3, <2>1, <2>3, <2>7
    <3>2. Asked(t[i].blocks) = {}
      <4>1. CASE IsResult(h, a + 1)
        BY <2>4, <4>1, TurnBlocks
      <4>2. CASE ~IsResult(h, a + 1)
        <5>1. b = a + 1 /\ Asked(t[i].blocks) = CallsOf(h[b]) /\ b \in DOMAIN h
          BY <2>4, <4>2, TurnBlocks
        <5>2. ~HasCalls(h, b)
          <6> SUFFICES ASSUME HasCalls(h, b) PROVE FALSE
            OBVIOUS
          <6>1. Results(h, b, h[b].calls) /\ h[b].calls \in Nat
            BY OfGroup DEF Closed, HasCalls, Calls, Complete
          <6>2. 1 \in 1 .. h[b].calls
            BY <6>1 DEF HasCalls
          <6>3. b + 1 \in DOMAIN h
            BY <6>1, <6>2 DEF Results
          <6> QED
            BY <1>3, <3>1, <6>3
        <5> QED
          BY <5>1, <5>2, NoCalls
      <4> QED
        BY <4>1, <4>2
    <3>3. next = <<>>
      BY <2>7
    <3> QED
      BY <2>5, <3>2, <3>3
  <2>8. ASSUME i = 1 PROVE t[i].blocks[1].role # "result"
    <3>1. a = 0 /\ a + 1 = 1
      BY <1>3, <2>2, <2>8
    <3>2. t[i].blocks[1] = h[a + 1] /\ a + 1 \in DOMAIN h
      BY <2>4, TurnBlocks
    <3>3. t[i].blocks[1] = h[1] /\ 1 \in DOMAIN h
      BY <3>1, <3>2
    <3>4. ~IsResult(h, 1)
      <4>1. ~(1 > 1)
        OBVIOUS
      <4> QED
        BY <3>3, <4>1, ResultFollows
    <3> QED
      BY <3>3, <3>4 DEF IsResult
  <2> QED
    BY <2>6, <2>7, <2>8
<1>5. TurnsPairUp(t)
  BY <1>4 DEF TurnsPairUp, Asked, AnsweredIn
<1> QED
  BY <1>1, <1>5

-----------------------------------------------------------------------------
(* Requests: the items that are made of a history.                         *)

Flattened(p, s, n) == p[n] = IF n = 1 THEN s[n] ELSE p[n - 1] \o s[n]

LEMMA FlattenSolved ==
  ASSUME NEW S, NEW s \in Seq(S), Len(s) # 0
  PROVE  \E p : FlattenSeq(s) = p[Len(s)] /\ \A n \in 1 .. Len(s) : Flattened(p, s, n)
<1> DEFINE T == {n \in Nat : \E p : \A m \in 1 .. n : Flattened(p, s, m)}
<1>1. Len(s) \in Nat
  OBVIOUS
<1>2. 0 \in T
  OBVIOUS
<1>3. ASSUME NEW n \in T PROVE n + 1 \in T
  <2>1. PICK p : \A m \in 1 .. n : Flattened(p, s, m)
    OBVIOUS
  <2> DEFINE g == [k \in 1 .. n + 1 |->
                     IF k <= n THEN p[k] ELSE IF n + 1 = 1 THEN s[n + 1] ELSE p[n] \o s[n + 1]]
  <2>2. ASSUME NEW m \in 1 .. n + 1 PROVE Flattened(g, s, m)
    <3>1. CASE m <= n
      <4>1. g[m] = p[m] /\ (m # 1 => g[m - 1] = p[m - 1])
        BY <3>1
      <4>2. Flattened(p, s, m)
        BY <2>1, <3>1
      <4> QED
        BY <4>1, <4>2 DEF Flattened
    <3>2. CASE m = n + 1
      <4>1. m # 1 => m - 1 = n /\ g[n] = p[n]
        BY <3>2
      <4>2. g[m] = IF m = 1 THEN s[m] ELSE p[n] \o s[m]
        BY <3>2
      <4> QED
        BY <3>2, <4>1, <4>2 DEF Flattened
    <3> QED
      BY <3>1, <3>2
  <2> HIDE DEF g
  <2> QED
    BY <2>2
<1>4. PICK p : \A m \in 1 .. Len(s) : Flattened(p, s, m)
  <2> HIDE DEF T
  <2>1. \A n \in 0 .. Len(s) : n \in T
    BY <1>1, <1>2, <1>3, Counting
  <2>2. Len(s) \in T
    BY <1>1, <2>1
  <2> QED
    BY <2>2 DEF T
<1> DEFINE f == [m \in 1 .. Len(s) |-> p[m]]
           Solves(x) == x = [i \in 1 .. Len(s) |-> IF i = 1 THEN s[i] ELSE x[i - 1] \o s[i]]
           c == CHOOSE x : Solves(x)
<1>5. Solves(f)
  BY <1>1, <1>4 DEF Flattened
<1>6. Solves(c)
  <2> HIDE DEF f, Solves
  <2> QED
    BY <1>5
<1>7. FlattenSeq(s) = c[Len(s)]
  BY DEF FlattenSeq
<1>8. \A n \in 1 .. Len(s) : Flattened(c, s, n)
  <2> HIDE DEF c
  <2> QED
    BY <1>6 DEF Flattened
<1> QED
  BY <1>7, <1>8

(* f has the first n sequences of s, number p behind position g[p].        *)
Placed(f, s, n, g) ==
  /\ g \in [1 .. n -> Nat]
  /\ \A p \in 1 .. n : g[p] + Len(s[p]) <= Len(f)
  /\ \A p \in 1 .. n : \A d \in 1 .. Len(s[p]) : f[g[p] + d] = s[p][d]
  /\ \A i \in 1 .. Len(f) : \E p \in 1 .. n : \E d \in 1 .. Len(s[p]) : i = g[p] + d
  /\ \A p, q \in 1 .. n : p < q => g[p] + Len(s[p]) <= g[q]

LEMMA PlacedNext ==
  ASSUME NEW S, NEW s \in Seq(Seq(S)), NEW n \in Nat, n < Len(s), NEW f \in Seq(S), NEW g,
         Placed(f, s, n, g)
  PROVE  f \o s[n + 1] \in Seq(S) /\ \E d : Placed(f \o s[n + 1], s, n + 1, d)
<1> DEFINE t == s[n + 1]
           w == f \o t
           e == [k \in 1 .. n + 1 |-> IF k <= n THEN g[k] ELSE Len(f)]
<1>1. /\ t \in Seq(S) /\ Len(f) \in Nat /\ Len(t) \in Nat
      /\ \A p \in 1 .. n : s[p] \in Seq(S) /\ Len(s[p]) \in Nat
  OBVIOUS
<1> HIDE DEF t
<1>2. /\ w \in Seq(S) /\ Len(w) = Len(f) + Len(t)
      /\ \A i \in 1 .. Len(f) : w[i] = f[i]
      /\ \A d \in 1 .. Len(t) : w[Len(f) + d] = t[d]
  BY <1>1
<1> HIDE DEF w
<1>3. g \in [1 .. n -> Nat]
  BY DEF Placed
<1>4. /\ e \in [1 .. n + 1 -> Nat] /\ e[n + 1] = Len(f)
      /\ \A p \in 1 .. n : e[p] = g[p] /\ g[p] \in Nat /\ p \in 1 .. n + 1
      /\ \A p \in 1 .. n + 1 : p \in 1 .. n \/ p = n + 1
  BY <1>1, <1>3
<1> HIDE DEF e
<1>5. \A p \in 1 .. n + 1 : e[p] + Len(s[p]) <= Len(w)
  <2> TAKE p \in 1 .. n + 1
  <2>1. CASE p \in 1 .. n
    <3>1. g[p] + Len(s[p]) <= Len(f) /\ g[p] \in Nat /\ Len(s[p]) \in Nat
      BY <1>1, <1>4, <2>1 DEF Placed
    <3>2. PICK x \in Nat, c \in Nat : x = g[p] /\ c = Len(s[p]) /\ x + c <= Len(f)
      BY <3>1
    <3>3. PICK y \in Nat, z \in Nat : y = Len(f) /\ z = Len(t) /\ Len(w) = y + z
      BY <1>1, <1>2
    <3>4. x + c <= y + z
      BY <3>2, <3>3
    <3>5. e[p] = x
      BY <1>4, <2>1, <3>2
    <3> QED
      BY <3>2, <3>3, <3>4, <3>5
  <2>2. CASE p = n + 1
    <3>1. e[p] = Len(f) /\ s[p] = t
      BY <1>4, <2>2 DEF t
    <3> QED
      BY <1>1, <1>2, <3>1
  <2> QED
    BY <1>4, <2>1, <2>2
<1>6. \A p \in 1 .. n + 1 : \A d \in 1 .. Len(s[p]) : w[e[p] + d] = s[p][d]
  <2> TAKE p \in 1 .. n + 1
  <2> TAKE d \in 1 .. Len(s[p])
  <2>1. CASE p \in 1 .. n
    <3>1. g[p] + Len(s[p]) <= Len(f) /\ g[p] \in Nat /\ Len(s[p]) \in Nat
      BY <1>1, <1>4, <2>1 DEF Placed
    <3>2. g[p] + d \in 1 .. Len(f)
      <4>1. PICK x \in Nat, c \in Nat : x = g[p] /\ c = Len(s[p]) /\ x + c <= Len(f)
        BY <3>1
      <4>2. PICK y \in Nat : y = Len(f)
        BY <1>1
      <4>3. d \in 1 .. c /\ x + c <= y
        BY <4>1, <4>2
      <4>4. x + d \in 1 .. y
        BY <4>3
      <4> QED
        BY <4>1, <4>2, <4>4
    <3>3. f[g[p] + d] = s[p][d]
      BY <2>1 DEF Placed
    <3>4. w[g[p] + d] = f[g[p] + d] /\ e[p] = g[p]
      BY <1>2, <1>4, <2>1, <3>2
    <3> QED
      BY <3>3, <3>4
  <2>2. CASE p = n + 1
    <3>1. e[p] = Len(f) /\ s[p] = t
      BY <1>4, <2>2 DEF t
    <3>2. d \in 1 .. Len(t)
      BY <3>1
    <3> QED
      BY <1>2, <3>1, <3>2
  <2> QED
    BY <1>4, <2>1, <2>2
<1>7. \A i \in 1 .. Len(w) : \E p \in 1 .. n + 1 : \E d \in 1 .. Len(s[p]) : i = e[p] + d
  <2> TAKE i \in 1 .. Len(w)
  <2>1. CASE i <= Len(f)
    <3>1. i \in 1 .. Len(f)
      BY <1>1, <2>1
    <3>2. PICK p \in 1 .. n : \E d \in 1 .. Len(s[p]) : i = g[p] + d
      BY <3>1 DEF Placed
    <3> QED
      BY <1>4, <3>2
  <2>2. CASE i > Len(f)
    <3>1. i - Len(f) \in 1 .. Len(t) /\ i = Len(f) + (i - Len(f))
      BY <1>1, <1>2, <2>2
    <3>2. n + 1 \in 1 .. n + 1
      OBVIOUS
    <3> QED
      BY <1>4, <3>1, <3>2 DEF t
  <2> QED
    BY <1>1, <2>1, <2>2
<1>8. \A p, q \in 1 .. n + 1 : p < q => e[p] + Len(s[p]) <= e[q]
  <2> TAKE p, q \in 1 .. n + 1
  <2> HAVE p < q
  <2>1. p \in 1 .. n
    OBVIOUS
  <2>2. CASE q \in 1 .. n
    BY <1>4, <2>1, <2>2 DEF Placed
  <2>3. CASE q = n + 1
    BY <1>4, <2>1, <2>3 DEF Placed
  <2> QED
    BY <1>4, <2>2, <2>3
<1>9. Placed(w, s, n + 1, e)
  BY <1>4, <1>5, <1>6, <1>7, <1>8 DEF Placed
<1> QED
  BY <1>2, <1>9 DEF w, t

LEMMA FlattenPlaces ==
  ASSUME NEW S, NEW s \in Seq(Seq(S))
  PROVE  FlattenSeq(s) \in Seq(S) /\ \E g : Placed(FlattenSeq(s), s, Len(s), g)
<1>1. Len(s) \in Nat /\ \A n \in 1 .. Len(s) : s[n] \in Seq(S)
  OBVIOUS
<1>2. Placed(<<>>, s, 0, [k \in 1 .. 0 |-> 0]) /\ <<>> \in Seq(S)
  BY DEF Placed
<1>3. CASE Len(s) = 0
  <2>1. s = <<>> /\ FlattenSeq(s) = s
    BY <1>3 DEF FlattenSeq
  <2> QED
    BY <1>2, <1>3, <2>1
<1>4. CASE Len(s) # 0
  <2>1. PICK p : FlattenSeq(s) = p[Len(s)] /\ \A n \in 1 .. Len(s) : Flattened(p, s, n)
    BY <1>4, FlattenSolved
  <2> DEFINE T == {n \in Nat : n = 0 \/ (p[n] \in Seq(S) /\ \E g : Placed(p[n], s, n, g))}
  <2>2. 0 \in T
    OBVIOUS
  <2>3. ASSUME NEW n \in Nat, n < Len(s), n \in T PROVE n + 1 \in T
    <3>1. n + 1 \in 1 .. Len(s) /\ (n + 1) - 1 = n /\ s[n + 1] \in Seq(S)
      BY <1>1, <2>3
    <3>2. p[n + 1] = IF n + 1 = 1 THEN s[n + 1] ELSE p[n] \o s[n + 1]
      BY <2>1, <3>1 DEF Flattened
    <3>3. CASE n = 0
      <4>1. <<>> \o s[n + 1] = s[n + 1] /\ p[n + 1] = s[n + 1]
        BY <3>1, <3>2, <3>3
      <4>2. \E d : Placed(<<>> \o s[n + 1], s, n + 1, d)
        BY <1>2, <2>3, <3>3, PlacedNext
      <4> QED
        BY <3>1, <4>1, <4>2
    <3>4. CASE n # 0
      <4>1. PICK f \in Seq(S) : f = p[n]
        BY <2>3, <3>4
      <4>2. PICK g : Placed(f, s, n, g)
        BY <2>3, <3>4, <4>1
      <4>3. f \o s[n + 1] \in Seq(S) /\ \E d : Placed(f \o s[n + 1], s, n + 1, d)
        BY <2>3, <4>2, PlacedNext
      <4>4. n + 1 # 1
        BY <3>4
      <4>5. p[n + 1] = f \o s[n + 1]
        BY <3>2, <4>1, <4>4
      <4>6. p[n + 1] \in Seq(S) /\ \E d : Placed(p[n + 1], s, n + 1, d)
        BY <4>3, <4>5
      <4> QED
        BY <4>6
    <3> QED
      BY <3>3, <3>4
  <2> HIDE DEF T
  <2>4. \A n \in 0 .. Len(s) : n \in T
    BY <1>1, <2>2, <2>3, Counting
  <2>5. Len(s) \in T
    BY <1>1, <2>4
  <2> QED
    BY <1>4, <2>1, <2>5 DEF T
<1> QED
  BY <1>3, <1>4

ItemSet == Msgs \cup [role : {"call"}, of : Ids]

LEMMA ItemsShape ==
  ASSUME NEW m \in Msgs
  PROVE  /\ ItemsOf(m) \in Seq(ItemSet) /\ m.role # "call"
         /\ m.role = "assistant" =>
              /\ Len(ItemsOf(m)) = m.calls
              /\ \A k \in 1 .. m.calls : /\ ItemsOf(m)[k] = [role |-> "call", of |-> <<m.run, m.iter, k>>]
                                         /\ ItemsOf(m)[k].role = "call"
                                         /\ ItemsOf(m)[k].of = <<m.run, m.iter, k>>
         /\ m.role # "assistant" => Len(ItemsOf(m)) = 1 /\ ItemsOf(m)[1] = m
<1>1. m.role # "call"
  BY DEF Msgs
<1>2. CASE m.role = "assistant"
  <2>1. m.run \in Runs /\ m.iter \in Nat /\ m.calls \in Nat
    BY <1>2, Shapes
  <2> DEFINE Item(k) == [role |-> "call", of |-> <<m.run, m.iter, k>>]
  <2>2. ItemsOf(m) = [k \in 1 .. m.calls |-> Item(k)]
    BY <1>2 DEF ItemsOf
  <2>3. ASSUME NEW k \in 1 .. m.calls
        PROVE  Item(k) \in ItemSet /\ Item(k).role = "call" /\ Item(k).of = <<m.run, m.iter, k>>
    <3>1. k \in Nat
      BY <2>1
    <3>2. <<m.run, m.iter, k>> \in Ids
      BY <2>1, <3>1 DEF Ids
    <3> QED
      BY <3>2 DEF ItemSet
  <2>4. \A k \in 1 .. m.calls : ItemsOf(m)[k] = Item(k)
    BY <2>2
  <2>5. ItemsOf(m) \in Seq(ItemSet) /\ Len(ItemsOf(m)) = m.calls
    <3> HIDE DEF Item
    <3> QED
      BY <2>1, <2>2, <2>3
  <2> QED
    BY <1>1, <1>2, <2>3, <2>4, <2>5
<1>3. CASE m.role # "assistant"
  <2>1. ItemsOf(m) = <<m>> /\ m \in ItemSet
    BY <1>3 DEF ItemsOf, ItemSet
  <2> QED
    BY <1>1, <1>3, <2>1
<1> QED
  BY <1>2, <1>3

LEMMA CallItem ==
  ASSUME NEW m \in Msgs, m.role = "assistant", NEW k \in 1 .. m.calls
  PROVE  /\ ItemsOf(m)[k] = [role |-> "call", of |-> <<m.run, m.iter, k>>]
         /\ ItemsOf(m)[k].role = "call" /\ ItemsOf(m)[k].of = <<m.run, m.iter, k>>
BY ItemsShape

(* Every call goes before its result, and every result behind its call.    *)
LEMMA ClosedItems ==
  ASSUME NEW h \in Seq(Msgs), Closed(h)
  PROVE  ItemsPairUp(Items(h))
<1> DEFINE s == [i \in DOMAIN h |-> ItemsOf(h[i])]
<1>1. /\ DOMAIN h = 1 .. Len(h) /\ Len(h) \in Nat
      /\ \A p \in 1 .. Len(h) : h[p] \in Msgs /\ ItemsOf(h[p]) \in Seq(ItemSet)
  BY ItemsShape
<1>2. s \in Seq(Seq(ItemSet)) /\ Len(s) = Len(h) /\ \A p \in 1 .. Len(h) : s[p] = ItemsOf(h[p])
  BY <1>1
<1>3. Items(h) = FlattenSeq(s)
  BY DEF Items
<1> HIDE DEF s
<1>4. PICK t \in Seq(ItemSet) : t = FlattenSeq(s)
  BY <1>2, FlattenPlaces
<1>5. PICK g : Placed(t, s, Len(h), g)
  BY <1>2, <1>4, FlattenPlaces
<1>6. /\ DOMAIN t = 1 .. Len(t) /\ Len(t) \in Nat
      /\ \A p \in 1 .. Len(h) : g[p] \in Nat /\ Len(s[p]) \in Nat
      /\ \A p \in 1 .. Len(h) : \A d \in 1 .. Len(s[p]) :
           g[p] + d \in DOMAIN t /\ t[g[p] + d] = s[p][d]
  <2>1. DOMAIN t = 1 .. Len(t) /\ Len(t) \in Nat
    OBVIOUS
  <2>2. \A p \in 1 .. Len(h) : g[p] \in Nat /\ Len(s[p]) \in Nat /\ g[p] + Len(s[p]) <= Len(t)
    <3> TAKE p \in 1 .. Len(h)
    <3>1. s[p] \in Seq(ItemSet)
      BY <1>1, <1>2
    <3>2. Len(s[p]) \in Nat
      BY <3>1
    <3>3. g[p] \in Nat /\ g[p] + Len(s[p]) <= Len(t)
      BY <1>5 DEF Placed
    <3> QED
      BY <3>2, <3>3
  <2>3. ASSUME NEW p \in 1 .. Len(h), NEW d \in 1 .. Len(s[p])
        PROVE  g[p] + d \in DOMAIN t /\ t[g[p] + d] = s[p][d]
    <3>1. g[p] + d \in DOMAIN t
      BY <2>1, <2>2
    <3> QED
      BY <1>5, <3>1 DEF Placed
  <2> QED
    BY <2>1, <2>2, <2>3
<1>7. ASSUME NEW i \in DOMAIN t, t[i].role = "call"
      PROVE  \E j \in DOMAIN t : j > i /\ t[j] = ToolResult(t[i].of)
  <2>1. PICK p \in 1 .. Len(h) : \E d \in 1 .. Len(s[p]) : i = g[p] + d
    BY <1>5, <1>6 DEF Placed
  <2>2. PICK d \in 1 .. Len(s[p]) : i = g[p] + d
    BY <2>1
  <2>3. t[i] = s[p][d] /\ s[p] = ItemsOf(h[p]) /\ h[p] \in Msgs
    BY <1>1, <1>2, <1>6, <2>2
  <2>4. h[p].role = "assistant"
    <3> SUFFICES ASSUME h[p].role # "assistant" PROVE FALSE
      OBVIOUS
    <3>1. Len(s[p]) = 1 /\ s[p][1] = h[p] /\ h[p].role # "call"
      BY <2>3, ItemsShape
    <3>2. d = 1
      BY <3>1
    <3> QED
      BY <1>7, <2>3, <3>1, <3>2
  <2>5. Calls(h, p) /\ h[p].calls \in Nat
    <3>1. Calls(h, p)
      BY <1>1, <2>4 DEF Calls
    <3> QED
      BY <3>1, OfGroup
  <2>6. Len(s[p]) = h[p].calls /\ t[i].of = <<h[p].run, h[p].iter, d>>
    <3>1. Len(s[p]) = h[p].calls
      BY <2>3, <2>4, ItemsShape
    <3>2. d \in 1 .. h[p].calls /\ t[i] = ItemsOf(h[p])[d]
      BY <2>3, <3>1
    <3>3. t[i].of = <<h[p].run, h[p].iter, d>>
      BY <2>3, <2>4, <3>2, CallItem
    <3> QED
      BY <3>1, <3>3
  <2>7. p + d \in DOMAIN h /\ h[p + d] = ToolResult(<<h[p].run, h[p].iter, d>>)
    BY <1>1, <2>5, <2>6 DEF Closed, Complete, Results
  <2>8. PICK q \in 1 .. Len(h) : q = p + d
    BY <1>1, <2>7
  <2>9. h[q] = ToolResult(t[i].of) /\ h[q].role # "assistant"
    <3>1. h[q] = ToolResult(t[i].of)
      BY <2>6, <2>7, <2>8
    <3> QED
      BY <3>1, Resulting
  <2>10. Len(s[q]) = 1 /\ s[q][1] = h[q]
    <3>1. s[q] = ItemsOf(h[q]) /\ h[q] \in Msgs /\ h[q].role # "assistant"
      BY <1>1, <1>2, <2>9
    <3> QED
      BY <3>1, ItemsShape
  <2>11. g[q] + 1 \in DOMAIN t /\ t[g[q] + 1] = h[q]
    BY <1>6, <2>10
  <2>12. g[p] + Len(s[p]) <= g[q]
    <3>1. p < q
      BY <2>5, <2>6, <2>8
    <3> QED
      BY <1>5, <3>1 DEF Placed
  <2>13. g[q] + 1 > i
    <3>1. PICK x \in Nat, y \in Nat, c \in Nat : x = g[p] /\ y = g[q] /\ c = Len(s[p])
      BY <1>6
    <3>2. x + c <= y /\ i = x + d /\ d \in 1 .. c
      BY <2>2, <2>12, <3>1
    <3>3. y + 1 > i
      BY <3>2
    <3> QED
      BY <3>1, <3>3
  <2> QED
    BY <2>9, <2>11, <2>13
<1>8. ASSUME NEW i \in DOMAIN t, t[i].role = "result"
      PROVE  \E j \in DOMAIN t : j < i /\ t[j] = [role |-> "call", of |-> t[i].of]
  <2>1. PICK p \in 1 .. Len(h) : \E d \in 1 .. Len(s[p]) : i = g[p] + d
    BY <1>5, <1>6 DEF Placed
  <2>2. PICK d \in 1 .. Len(s[p]) : i = g[p] + d
    BY <2>1
  <2>3. t[i] = s[p][d] /\ s[p] = ItemsOf(h[p]) /\ h[p] \in Msgs
    BY <1>1, <1>2, <1>6, <2>2
  <2>4. h[p].role # "assistant"
    <3> SUFFICES ASSUME h[p].role = "assistant" PROVE FALSE
      OBVIOUS
    <3>1. Len(s[p]) = h[p].calls
      BY <2>3, ItemsShape
    <3>2. d \in 1 .. h[p].calls /\ t[i] = ItemsOf(h[p])[d]
      BY <2>3, <3>1
    <3>3. ItemsOf(h[p])[d].role = "call"
      <4>1. h[p] \in Msgs /\ d \in 1 .. h[p].calls
        BY <2>3, <3>2
      <4> QED
        BY <4>1, CallItem
    <3> QED
      BY <1>8, <3>2, <3>3
  <2>5. Len(s[p]) = 1 /\ s[p][1] = h[p]
    BY <2>3, <2>4, ItemsShape
  <2>6. d = 1 /\ t[i] = h[p]
    BY <2>2, <2>3, <2>5
  <2>7. PICK a \in 1 .. p - 1 :
          /\ Calls(h, a) /\ a \in 1 .. Len(h) /\ p - a \in 1 .. h[a].calls
          /\ h[p].of = <<h[a].run, h[a].iter, p - a>>
    BY <1>1, <1>8, <2>6, OfResult DEF Closed
  <2>8. PICK k \in 1 .. h[a].calls : h[p].of = <<h[a].run, h[a].iter, k>>
    BY <2>7
  <2>9. /\ s[a] = ItemsOf(h[a]) /\ Len(s[a]) = h[a].calls
        /\ s[a][k] = [role |-> "call", of |-> h[p].of]
    <3>1. s[a] = ItemsOf(h[a]) /\ h[a] \in Msgs /\ h[a].role = "assistant"
      BY <1>1, <1>2, <2>7 DEF Calls
    <3>2. Len(s[a]) = h[a].calls
      BY <3>1, ItemsShape
    <3>3. s[a][k] = [role |-> "call", of |-> <<h[a].run, h[a].iter, k>>]
      BY <3>1, CallItem
    <3> QED
      BY <2>8, <3>1, <3>2, <3>3
  <2>10. g[a] + k \in DOMAIN t /\ t[g[a] + k] = [role |-> "call", of |-> t[i].of]
    BY <1>6, <2>6, <2>7, <2>8, <2>9
  <2>11. g[a] + Len(s[a]) <= g[p]
    <3>1. a < p /\ a \in 1 .. Len(h)
      BY <2>7
    <3> QED
      BY <1>5, <3>1 DEF Placed
  <2>12. g[a] + k < i
    <3>1. PICK x \in Nat, y \in Nat, c \in Nat : x = g[a] /\ y = g[p] /\ c = Len(s[a])
      BY <1>6, <2>7
    <3>2. x + c <= y /\ i = y + 1 /\ k \in 1 .. c
      BY <2>2, <2>6, <2>8, <2>9, <2>11, <3>1
    <3>3. x + k < i
      BY <3>2
    <3> QED
      BY <3>1, <3>3
  <2> QED
    BY <2>10, <2>12
<1>9. ItemsPairUp(t)
  BY <1>7, <1>8 DEF ItemsPairUp
<1> QED
  BY <1>3, <1>4, <1>9
==============================================================================
