--------------------------- MODULE ConnectorsProofs ---------------------------
(***************************************************************************)
(* Safety of the two interactive connectors for any number of chats,       *)
(* messages, questions, approvals and button presses, and of requests and  *)
(* waits in the terminal.  Three independent arguments:                    *)
(*   ChatInv      the queues hold messages that wait, each once, and a     *)
(*                question without a reply is at one place;                *)
(*   ApprovalInv  one press at most removes the entry of an approval, and  *)
(*                the verdict and any rejection on the screen are its;     *)
(*   ScreenInv    a wait of the terminal is in the channel or on the       *)
(*                screen, in its own dialog.                               *)
(***************************************************************************)
EXTENDS TelegramChat, Cli, FiniteSetTheorems, TLAPS

(* Sequences without repetition: what they hold, and each of it once.      *)
Elements(s) == {s[i] : i \in DOMAIN s}
Once(s) == \A i, j \in DOMAIN s : s[i] = s[j] => i = j

-----------------------------------------------------------------------------
(* The forwarder has a question, the chat it read and whether it was sent. *)
ForwardOK == forward \in {None} \cup (Questions \X Chats \X BOOLEAN)

(* A chat's queue holds messages of the chat that wait for it, each once.  *)
QueuesOK ==
  \A c \in Chats : /\ Once(queue[c])
                   /\ \A m \in Elements(queue[c]) : Chat[m] = c /\ handler[m] = "queued"

(* Only texts go past the queue; of the others a chat has one at work.     *)
BypassOK == bypass \subseteq {m \in Messages : IsText(m)}
TurnsOK ==
  \A m, n \in Messages \ bypass :
    Chat[m] = Chat[n] /\ AtWork(m) /\ AtWork(n) => m = n

(* The three places a responder can be at exclude each other, and hold the *)
(* questions without a reply.                                              *)
Forwarded == IF forward = None THEN {} ELSE {forward[1]}
Kept == {pending[c] : c \in Chats} \ {None}

PlacesOK ==
  /\ Once(channel)
  /\ \A c, d \in Chats : pending[c] = pending[d] => c = d \/ pending[c] = None
  /\ Elements(channel) \cap Forwarded = {}
  /\ Elements(channel) \cap Kept = {}
  /\ Forwarded \cap Kept = {}
  /\ \A q \in Questions :
       reply[q] = "waiting" <=> q \in Elements(channel) \cup Forwarded \cup Kept

ActiveServed ==
  active # None => \E m \in Messages : Chat[m] = active /\ handler[m] = "waiting"

ChatInv ==
  TypeOK /\ ForwardOK /\ QueuesOK /\ BypassOK /\ TurnsOK /\ PlacesOK /\ ActiveServed

-----------------------------------------------------------------------------
(* An entry that is still there was taken by nobody, and one press takes.  *)
OneDecider ==
  /\ \A p, o \in Presses : Took(p) /\ Took(o) /\ Button[p][1] = Button[o][1] => p = o
  /\ \A p \in Presses : Took(p) => /\ Button[p][1] \notin entries
                                   /\ approval[Button[p][1]] # "idle"

(* A verdict of "yes", a granted approval and a status on the screen come  *)
(* from a press that took the entry.                                       *)
Pressed(a, yes) == \E p \in Presses : Button[p][1] = a /\ Button[p][2] = yes /\ Took(p)
VerdictPressed ==
  \A a \in Approvals : /\ verdict[a] # None /\ verdict[a] = TRUE => Pressed(a, TRUE)
                       /\ approval[a] = "granted" => Pressed(a, TRUE)
                       /\ label[a] = "rejected" => Pressed(a, FALSE)

ApprovalTypes ==
  /\ approval \in [Approvals -> {"idle", "sending", "asking", "granted", "refused"}]
  /\ entries \subseteq Approvals
  /\ press \in [Presses -> {"idle", "taken", "sent", "decided", "missing", "expired"}]
  /\ verdict \in [Approvals -> BOOLEAN \cup {None}]
  /\ label \in [Approvals -> {"none", "approved", "rejected", "expired"}]

ApprovalInv == ApprovalTypes /\ OneDecider /\ VerdictPressed

-----------------------------------------------------------------------------
ScreenSpec == InitScreen /\ [][NextScreen]_screenVars

WaitTypes ==
  /\ asked \in Seq(Waits)
  /\ shown \in [BOOLEAN -> Waits \cup {Nobody}]
  /\ outcome \in [Waits -> {"none", "waiting", "yes", "no", "closed"}]

(* The channel and the dialogs hold waits, each at one place, and the      *)
(* dialog of approvals holds approvals, that of questions questions.       *)
AskedOK == Once(asked) /\ \A w \in Elements(asked) : outcome[w] = "waiting"
ShownOK ==
  \A b \in BOOLEAN : shown[b] # Nobody =>
    /\ IsApproval[shown[b]] = b /\ outcome[shown[b]] = "waiting"
    /\ shown[b] \notin Elements(asked)
NoneLost ==
  \A w \in Waits : outcome[w] = "waiting" =>
    w \in Elements(asked) \/ \E b \in BOOLEAN : shown[b] = w

ScreenInv == WaitTypes /\ AskedOK /\ ShownOK /\ NoneLost

-----------------------------------------------------------------------------
(* Something new is put at the end of a queue.                             *)
LEMMA Joined ==
  ASSUME NEW S, NEW s \in Seq(S), NEW w \in S
  PROVE  /\ Append(s, w) \in Seq(S) /\ Elements(Append(s, w)) = Elements(s) \cup {w}
         /\ Once(s) /\ w \notin Elements(s) => Once(Append(s, w))
<1>1. /\ Append(s, w) \in Seq(S) /\ DOMAIN Append(s, w) = 1 .. Len(s) + 1
      /\ DOMAIN s = 1 .. Len(s) /\ Len(s) \in Nat
      /\ \A i \in 1 .. Len(s) : Append(s, w)[i] = s[i]
      /\ Append(s, w)[Len(s) + 1] = w
  OBVIOUS
<1>2. 1 .. Len(s) + 1 = 1 .. Len(s) \cup {Len(s) + 1} /\ Len(s) + 1 \notin 1 .. Len(s)
  BY <1>1
<1>3. Elements(Append(s, w)) = Elements(s) \cup {w}
  BY <1>1, <1>2 DEF Elements
<1>4. ASSUME Once(s), w \notin Elements(s) PROVE Once(Append(s, w))
  BY <1>1, <1>2, <1>4 DEF Once, Elements
<1> QED
  BY <1>1, <1>3, <1>4

(* The head of a queue is taken.                                           *)
LEMMA Taken ==
  ASSUME NEW S, NEW s \in Seq(S), s # <<>>
  PROVE  /\ Head(s) \in S /\ Tail(s) \in Seq(S)
         /\ Elements(s) = Elements(Tail(s)) \cup {Head(s)}
         /\ Once(s) => Once(Tail(s)) /\ Head(s) \notin Elements(Tail(s))
<1>1. /\ Head(s) \in S /\ Tail(s) \in Seq(S) /\ Head(s) = s[1]
      /\ Len(s) \in Nat \ {0} /\ DOMAIN s = 1 .. Len(s)
      /\ DOMAIN Tail(s) = 1 .. Len(s) - 1
      /\ \A i \in 1 .. Len(s) - 1 : Tail(s)[i] = s[i + 1]
  OBVIOUS
<1>2. /\ \A i \in 1 .. Len(s) - 1 : i + 1 \in 1 .. Len(s) /\ i + 1 # 1 /\ i \in Int
      /\ \A i \in 1 .. Len(s) : i # 1 => i - 1 \in 1 .. Len(s) - 1 /\ (i - 1) + 1 = i
      /\ \A i, j \in 1 .. Len(s) - 1 : i + 1 = j + 1 => i = j
      /\ 1 \in 1 .. Len(s)
  BY <1>1
<1>3. Elements(Tail(s)) \cup {Head(s)} \subseteq Elements(s)
  BY <1>1, <1>2 DEF Elements
<1>4. ASSUME NEW i \in 1 .. Len(s), i # 1 PROVE s[i] \in Elements(Tail(s))
  <2>1. i - 1 \in DOMAIN Tail(s) /\ Tail(s)[i - 1] = s[i]
    BY <1>1, <1>2, <1>4
  <2> QED
    BY <2>1 DEF Elements
<1>5. Elements(s) \subseteq Elements(Tail(s)) \cup {Head(s)}
  BY <1>1, <1>4 DEF Elements
<1>6. ASSUME Once(s) PROVE Once(Tail(s)) /\ Head(s) \notin Elements(Tail(s))
  <2>1. ASSUME NEW i \in DOMAIN Tail(s), NEW j \in DOMAIN Tail(s), Tail(s)[i] = Tail(s)[j]
        PROVE  i = j
    <3>1. i + 1 \in DOMAIN s /\ j + 1 \in DOMAIN s /\ s[i + 1] = s[j + 1]
      BY <1>1, <1>2, <2>1
    <3>2. i + 1 = j + 1
      BY <1>6, <3>1 DEF Once
    <3> QED
      BY <1>1, <1>2, <3>2
  <2>2. ASSUME NEW i \in DOMAIN Tail(s), Tail(s)[i] = s[1] PROVE FALSE
    <3>1. i + 1 \in DOMAIN s /\ 1 \in DOMAIN s /\ s[i + 1] = s[1] /\ i + 1 # 1
      BY <1>1, <1>2, <2>2
    <3> QED
      BY <1>6, <3>1 DEF Once
  <2> QED
    BY <1>1, <2>1, <2>2 DEF Once, Elements
<1> QED
  BY <1>1, <1>3, <1>5, <1>6

-----------------------------------------------------------------------------
LEMMA ApprovalInit == Init => ApprovalInv
BY TelegramAssumption
DEF Init, ApprovalInv, ApprovalTypes, OneDecider, Took, VerdictPressed, Pressed

(* What the handlers and the questions do leaves the approvals alone.      *)
LEMMA ApprovalRests == ApprovalInv /\ UNCHANGED approvalVars => ApprovalInv'
BY DEF ApprovalInv, ApprovalTypes, OneDecider, Took, VerdictPressed, Pressed, approvalVars

(* Presses and what they show rest while a request moves on, and its entry *)
(* is new or as it was: it may be granted only on the verdict.             *)
LEMMA RequestMoves ==
  ASSUME ApprovalInv, NEW a \in Approvals,
         NEW v \in {"sending", "asking", "granted", "refused"},
         approval' = [approval EXCEPT ![a] = v],
         v = "granted" => Pressed(a, TRUE),
         entries' \in {entries, entries \ {a}} \/ (entries' = entries \cup {a} /\ approval[a] = "idle"),
         UNCHANGED <<press, verdict, label>>
  PROVE  ApprovalInv'
<1>1. ApprovalTypes'
  BY DEF ApprovalInv, ApprovalTypes
<1>2. ASSUME NEW b \in Approvals
      PROVE  /\ approval'[b] = IF b = a THEN v ELSE approval[b]
             /\ b \in entries' => b \in entries \/ approval[b] = "idle"
  BY DEF ApprovalInv, ApprovalTypes
<1>3. OneDecider'
  BY <1>2, TelegramAssumption DEF ApprovalInv, OneDecider, Took
<1>4. \A b \in Approvals, yes \in BOOLEAN : Pressed(b, yes)' <=> Pressed(b, yes)
  BY DEF Pressed, Took
<1>5. VerdictPressed'
  BY <1>2, <1>4 DEF ApprovalInv, VerdictPressed
<1> QED
  BY <1>1, <1>3, <1>5 DEF ApprovalInv

(* A press whose handler goes on stays one that took the entry, or not.    *)
LEMMA PressGoesOn ==
  ASSUME ApprovalInv, NEW p \in Presses,
         NEW v \in {"sent", "decided", "expired"},
         press' = [press EXCEPT ![p] = v], Took(p) <=> v # "expired",
         UNCHANGED <<approval, entries>>
  PROVE  /\ press' \in [Presses -> {"idle", "taken", "sent", "decided", "missing", "expired"}]
         /\ OneDecider'
         /\ \A b \in Approvals, yes \in BOOLEAN : Pressed(b, yes)' <=> Pressed(b, yes)
<1>1. \A o \in Presses : Took(o)' <=> Took(o)
  BY DEF ApprovalInv, ApprovalTypes, Took
<1> QED
  BY <1>1 DEF ApprovalInv, ApprovalTypes, OneDecider, Pressed

LEMMA KeepsApprovals == ApprovalInv /\ [Next]_vars => ApprovalInv'
<1> SUFFICES ASSUME ApprovalInv, [Next]_vars PROVE ApprovalInv'
  OBVIOUS
<1>1. ASSUME NEW a \in Approvals, Request(a) PROVE ApprovalInv'
  BY <1>1, RequestMoves DEF Request
<1>2. ASSUME NEW a \in Approvals, SendButtons(a) PROVE ApprovalInv'
  BY <1>2, RequestMoves DEF SendButtons, DropEntry
<1>3. ASSUME NEW a \in Approvals, Expires(a) PROVE ApprovalInv'
  BY <1>3, RequestMoves DEF Expires, DropEntry
<1>4. ASSUME NEW a \in Approvals, Decides(a) PROVE ApprovalInv'
  <2>1. verdict[a] => Pressed(a, TRUE)
    BY <1>4 DEF Decides, ApprovalInv, ApprovalTypes, VerdictPressed
  <2> QED
    BY <1>4, <2>1, RequestMoves DEF Decides
<1>5. ASSUME NEW p \in Presses, Press(p) PROVE ApprovalInv'
  <2> DEFINE a == Button[p][1]
  <2>1. a \in Approvals /\ press[p] = "idle" /\ approval[a] # "idle"
    BY <1>5, TelegramAssumption DEF Press
  <2>2. /\ press' = [press EXCEPT ![p] = IF a \in entries THEN "taken" ELSE "missing"]
        /\ entries' = entries \ {a} /\ UNCHANGED <<approval, verdict, label>>
    BY <1>5 DEF Press
  <2>3. ApprovalTypes'
    BY <2>2 DEF ApprovalInv, ApprovalTypes
  <2>4. ASSUME NEW o \in Presses
        PROVE  press'[o] = IF o = p THEN (IF a \in entries THEN "taken" ELSE "missing")
                                   ELSE press[o]
    BY <2>2 DEF ApprovalInv, ApprovalTypes
  <2>5. OneDecider'
    BY <2>1, <2>2, <2>4 DEF ApprovalInv, OneDecider, Took
  <2>6. \A b \in Approvals, yes \in BOOLEAN : Pressed(b, yes) => Pressed(b, yes)'
    BY <2>1, <2>4 DEF Pressed, Took
  <2>7. VerdictPressed'
    BY <2>2, <2>6 DEF ApprovalInv, VerdictPressed
  <2> QED
    BY <2>3, <2>5, <2>7 DEF ApprovalInv
<1>6. ASSUME NEW p \in Presses, SendVerdict(p) PROVE ApprovalInv'
  <2> DEFINE a == Button[p][1]
             yes == Button[p][2]
  <2>1. a \in Approvals /\ yes \in BOOLEAN /\ Took(p)
    BY <1>6, TelegramAssumption DEF SendVerdict, Took
  <2>2. /\ verdict' = [verdict EXCEPT ![a] = yes]
        /\ press' = [press EXCEPT ![p] = "sent"]
        /\ UNCHANGED <<approval, entries, label>>
    BY <1>6 DEF SendVerdict
  <2>3. ApprovalTypes' /\ OneDecider'
    BY <2>1, <2>2, PressGoesOn DEF ApprovalInv, ApprovalTypes
  <2>4. \A b \in Approvals, v \in BOOLEAN : Pressed(b, v)' <=> Pressed(b, v)
    BY <2>1, <2>2, PressGoesOn
  <2>5. Pressed(a, yes)
    BY <2>1 DEF Pressed
  <2>6. \A b \in Approvals : verdict'[b] = IF b = a THEN yes ELSE verdict[b]
    BY <2>2 DEF ApprovalInv, ApprovalTypes
  <2>7. VerdictPressed'
    BY <2>1, <2>2, <2>4, <2>5, <2>6 DEF ApprovalInv, VerdictPressed
  <2> QED
    BY <2>3, <2>7 DEF ApprovalInv
<1>8. ASSUME NEW p \in Presses, Edit(p) PROVE ApprovalInv'
  <2> DEFINE a == Button[p][1]
  <2>1. PICK status \in {"approved", "rejected", "expired"} :
          /\ label' \in {label, [label EXCEPT ![a] = status]}
          /\ status = "rejected" => Took(p) /\ Button[p][2] = FALSE
    BY <1>8, TelegramAssumption DEF Edit, Took
  <2>2. PICK v \in {"decided", "expired"} :
          press' = [press EXCEPT ![p] = v] /\ (Took(p) <=> v # "expired")
    BY <1>8 DEF Edit, Took
  <2>3. UNCHANGED <<approval, entries, verdict>> /\ a \in Approvals
    BY <1>8, TelegramAssumption DEF Edit
  <2>4. OneDecider' /\ ApprovalTypes'
    BY <2>1, <2>2, <2>3, PressGoesOn DEF ApprovalInv, ApprovalTypes
  <2>5. \A b \in Approvals, yes \in BOOLEAN : Pressed(b, yes)' <=> Pressed(b, yes)
    BY <2>2, <2>3, PressGoesOn
  <2>6. ASSUME NEW b \in Approvals, label'[b] = "rejected" PROVE Pressed(b, FALSE)
    <3>1. CASE label'[b] = label[b]
      BY <2>6, <3>1 DEF ApprovalInv, VerdictPressed
    <3>2. CASE label'[b] # label[b]
      <4>1. b = a /\ status = "rejected"
        BY <2>1, <2>6, <3>2 DEF ApprovalInv, ApprovalTypes
      <4> QED
        BY <2>1, <4>1 DEF Pressed
    <3> QED
      BY <3>1, <3>2
  <2>7. VerdictPressed'
    BY <2>3, <2>5, <2>6 DEF ApprovalInv, VerdictPressed
  <2> QED
    BY <2>4, <2>7 DEF ApprovalInv
<1>7. ASSUME UNCHANGED approvalVars PROVE ApprovalInv'
  BY <1>7, ApprovalRests
<1> QED
  BY <1>1, <1>2, <1>3, <1>4, <1>5, <1>6, <1>7, <1>8
  DEF Next, vars, approvalVars, Distribute, TakeQuestion, ReturnEarly, Submit, HandlerReturns,
      RunEnds, Dequeue, Ask, PickUp, SendQuestion, KeepResponder

(* One press decides (telegram.rs: the callback removes the entry it       *)
(* answers): only a press of "Approve" that found the entry grants, no     *)
(* other found it, and the message does not show a rejection.              *)
THEOREM TelegramOnePressDecides == Spec => []OnePressDecides
<1>1. ApprovalInv => OnePressDecides
  <2> SUFFICES ASSUME ApprovalInv, NEW a \in Approvals, approval[a] = "granted"
               PROVE  (\E p \in Presses : Button[p][1] = a /\ Took(p) /\ Button[p][2])
                      /\ label[a] # "rejected"
    BY DEF ApprovalInv, OneDecider, OnePressDecides
  <2>1. Pressed(a, TRUE)
    BY DEF ApprovalInv, VerdictPressed
  <2>2. ~ Pressed(a, FALSE)
    BY <2>1 DEF ApprovalInv, OneDecider, Pressed
  <2> QED
    BY <2>1, <2>2 DEF ApprovalInv, VerdictPressed, Pressed
<1> QED
  BY <1>1, ApprovalInit, KeepsApprovals, PTL DEF Spec

-----------------------------------------------------------------------------
LEMMA ScreenStarts == InitScreen => ScreenInv
<1> SUFFICES ASSUME InitScreen PROVE ScreenInv
  OBVIOUS
<1>1. /\ asked = <<>> /\ shown = [b \in BOOLEAN |-> Nobody]
      /\ outcome = [w \in Waits |-> "none"]
  BY DEF InitScreen
<1>2. asked \in Seq(Waits) /\ DOMAIN asked = {}
  BY <1>1
<1> QED
  BY <1>1, <1>2 DEF ScreenInv, WaitTypes, AskedOK, ShownOK, NoneLost, Once, Elements

LEMMA ScreenRests == ScreenInv /\ UNCHANGED <<asked, shown, outcome>> => ScreenInv'
BY DEF ScreenInv, WaitTypes, AskedOK, ShownOK, NoneLost, Once, Elements

(* A dialog closes: its wait is over, the others are untouched.            *)
LEMMA Closes ==
  ASSUME ScreenInv, NEW b \in BOOLEAN, NEW v \in {"yes", "no", "closed"},
         shown' = [shown EXCEPT ![b] = Nobody], UNCHANGED asked,
         outcome' = (IF shown[b] = Nobody THEN outcome ELSE [outcome EXCEPT ![shown[b]] = v])
  PROVE  ScreenInv'
<1>1. /\ asked \in Seq(Waits) /\ Elements(asked) \subseteq Waits /\ Nobody \notin Waits
      /\ \A c \in BOOLEAN : shown[c] # Nobody => shown[c] \in Waits
  BY CliAssumption DEF ScreenInv, WaitTypes, Elements
<1>2. \A w \in Waits : outcome'[w] = IF w = shown[b] THEN v ELSE outcome[w]
  BY <1>1 DEF ScreenInv, WaitTypes
<1>3. \A c \in BOOLEAN : shown'[c] = IF c = b THEN Nobody ELSE shown[c]
  BY DEF ScreenInv, WaitTypes
<1>4. WaitTypes'
  BY <1>1 DEF ScreenInv, WaitTypes
<1>5. AskedOK'
  BY <1>1, <1>2 DEF ScreenInv, AskedOK, ShownOK, Elements, Once
<1>6. ShownOK'
  <2> SUFFICES ASSUME NEW c \in BOOLEAN, shown'[c] # Nobody
               PROVE  /\ IsApproval[shown'[c]] = c /\ outcome'[shown'[c]] = "waiting"
                      /\ shown'[c] \notin Elements(asked)'
    BY DEF ShownOK
  <2>1. c # b /\ shown'[c] = shown[c] /\ shown[c] \in Waits
    BY <1>1, <1>3
  <2>2. shown[c] # shown[b]
    BY <1>1, <2>1 DEF ScreenInv, ShownOK
  <2> QED
    BY <1>2, <2>1, <2>2 DEF ScreenInv, ShownOK, Elements
<1>7. NoneLost'
  BY <1>1, <1>2, <1>3 DEF ScreenInv, NoneLost, Elements
<1> QED
  BY <1>4, <1>5, <1>6, <1>7 DEF ScreenInv

(* The loop shows the oldest request in the place of what was there.       *)
LEMMA Shown == ScreenInv /\ Show => ScreenInv'
<1> SUFFICES ASSUME ScreenInv, Show PROVE ScreenInv'
  OBVIOUS
<1>1. PICK w : w = Head(asked)
  OBVIOUS
<1>2. PICK k : k = IsApproval[w]
  OBVIOUS
<1>3. /\ asked \in Seq(Waits) /\ asked # <<>> /\ asked' = Tail(asked)
      /\ shown' = [shown EXCEPT ![k] = w]
      /\ outcome' = (IF shown[k] = Nobody THEN outcome
                                          ELSE [outcome EXCEPT ![shown[k]] = "closed"])
  BY <1>1, <1>2 DEF Show, Drop, ScreenInv, WaitTypes
<1>4. /\ w \in Waits /\ asked' \in Seq(Waits) /\ Elements(asked) = Elements(asked') \cup {w}
      /\ Once(asked') /\ w \notin Elements(asked')
  BY <1>1, <1>3, Taken DEF ScreenInv, AskedOK
<1>5. k \in BOOLEAN /\ Nobody \notin Waits /\ Elements(asked) \subseteq Waits
  BY <1>2, <1>3, <1>4, CliAssumption DEF Elements
<1>6. \A c \in BOOLEAN : shown[c] # Nobody => shown[c] \in Waits
  BY DEF ScreenInv, WaitTypes
<1>7. \A x \in Waits : outcome'[x] = IF x = shown[k] THEN "closed" ELSE outcome[x]
  BY <1>3, <1>5, <1>6 DEF ScreenInv, WaitTypes
<1>8. \A c \in BOOLEAN : shown'[c] = IF c = k THEN w ELSE shown[c]
  BY <1>3 DEF ScreenInv, WaitTypes
<1>9. WaitTypes'
  BY <1>3, <1>4, <1>5, <1>6 DEF ScreenInv, WaitTypes
<1>10. ASSUME NEW x \in Elements(asked) PROVE x # shown[k] /\ outcome[x] = "waiting"
  BY <1>5, <1>10 DEF ScreenInv, ShownOK, AskedOK
<1>11. AskedOK'
  <2>1. \A x \in Elements(asked') : outcome'[x] = "waiting"
    BY <1>4, <1>5, <1>7, <1>10
  <2> QED
    BY <1>4, <2>1 DEF AskedOK, Elements
<1>12. ASSUME NEW c \in BOOLEAN, shown'[c] # Nobody
       PROVE  /\ IsApproval[shown'[c]] = c /\ outcome'[shown'[c]] = "waiting"
              /\ shown'[c] \notin Elements(asked')
  <2>1. CASE c = k
    BY <1>2, <1>4, <1>7, <1>8, <1>10, <2>1
  <2>2. CASE c # k
    <3>1. shown'[c] = shown[c] /\ shown[c] \in Waits /\ IsApproval[shown[c]] = c
      BY <1>6, <1>8, <1>12, <2>2 DEF ScreenInv, ShownOK
    <3>2. shown[c] # shown[k]
      BY <1>5, <1>12, <2>2, <3>1 DEF ScreenInv, ShownOK
    <3> QED
      BY <1>4, <1>7, <1>12, <3>1, <3>2 DEF ScreenInv, ShownOK
  <2> QED
    BY <2>1, <2>2
<1>13. ShownOK'
  BY <1>12 DEF ShownOK, Elements
<1>14. ASSUME NEW x \in Waits, outcome'[x] = "waiting"
       PROVE  x \in Elements(asked') \/ \E c \in BOOLEAN : shown'[c] = x
  <2>1. x # shown[k] /\ outcome[x] = "waiting"
    BY <1>7, <1>14
  <2>2. CASE x \in Elements(asked)
    BY <1>4, <1>5, <1>8, <2>2
  <2>3. CASE \E c \in BOOLEAN : shown[c] = x
    BY <1>8, <2>1, <2>3
  <2> QED
    BY <2>1, <2>2, <2>3 DEF ScreenInv, NoneLost
<1>15. NoneLost'
  BY <1>14 DEF NoneLost, Elements
<1> QED
  BY <1>9, <1>11, <1>13, <1>15 DEF ScreenInv

(* An agent asks: the request goes to the end of the channel.              *)
LEMMA Asks ==
  ASSUME ScreenInv, NEW w \in Waits, AgentAsks(w)
  PROVE  ScreenInv'
<1>1. /\ asked \in Seq(Waits) /\ asked' = Append(asked, w) /\ shown' = shown
      /\ outcome[w] = "none" /\ outcome' = [outcome EXCEPT ![w] = "waiting"]
  BY DEF AgentAsks, ScreenInv, WaitTypes
<1>2. w \notin Elements(asked) /\ \A b \in BOOLEAN : shown[b] # w
  BY <1>1, CliAssumption DEF ScreenInv, AskedOK, ShownOK
<1>3. /\ asked' \in Seq(Waits) /\ Elements(asked') = Elements(asked) \cup {w}
      /\ Once(asked') /\ Elements(asked) \subseteq Waits
  BY <1>1, <1>2, Joined DEF ScreenInv, AskedOK, Elements
<1>4. \A x \in Waits : outcome'[x] = IF x = w THEN "waiting" ELSE outcome[x]
  BY <1>1 DEF ScreenInv, WaitTypes
<1>5. WaitTypes'
  BY <1>1, <1>3 DEF ScreenInv, WaitTypes
<1>6. \A x \in Elements(asked') : outcome'[x] = "waiting"
  BY <1>3, <1>4 DEF ScreenInv, AskedOK
<1>7. AskedOK'
  BY <1>3, <1>6 DEF AskedOK, Elements
<1>8. ASSUME NEW b \in BOOLEAN, shown'[b] # Nobody
      PROVE  /\ IsApproval[shown'[b]] = b /\ outcome'[shown'[b]] = "waiting"
             /\ shown'[b] \notin Elements(asked')
  BY <1>1, <1>2, <1>3, <1>4, <1>8 DEF ScreenInv, ShownOK, WaitTypes
<1>9. ShownOK'
  BY <1>8 DEF ShownOK, Elements
<1>10. \A x \in Waits : outcome'[x] = "waiting" =>
         x \in Elements(asked') \/ \E b \in BOOLEAN : shown'[b] = x
  BY <1>1, <1>3, <1>4 DEF ScreenInv, NoneLost
<1>11. NoneLost'
  BY <1>10 DEF NoneLost, Elements
<1> QED
  BY <1>5, <1>7, <1>9, <1>11 DEF ScreenInv

LEMMA KeepsScreen == ScreenInv /\ [NextScreen]_screenVars => ScreenInv'
<1> SUFFICES ASSUME ScreenInv, [NextScreen]_screenVars PROVE ScreenInv'
  OBVIOUS
<1>1. /\ \A b \in BOOLEAN : shown[b] \in Waits \cup {Nobody} /\ Nobody \notin Waits
      /\ TRUE \in BOOLEAN /\ FALSE \in BOOLEAN
  BY CliAssumption DEF ScreenInv, WaitTypes
<1>2. ASSUME NEW k \in Keys, ApprovalKey(k) PROVE ScreenInv'
  <2>1. shown[TRUE] # Nobody
    BY <1>2 DEF ApprovalKey, Layer
  <2>2. CASE UNCHANGED <<shown, outcome>>
    BY <1>2, <2>2, ScreenRests DEF ApprovalKey
  <2>3. ASSUME NEW yes, Decide(shown[TRUE], yes) PROVE ScreenInv'
    <3>1. PICK v \in {"yes", "no", "closed"} : v = IF yes THEN "yes" ELSE "no"
      OBVIOUS
    <3>2. /\ shown' = [shown EXCEPT ![TRUE] = Nobody] /\ UNCHANGED asked
          /\ outcome' = [outcome EXCEPT ![shown[TRUE]] = v]
      BY <1>2, <2>3, <3>1 DEF ApprovalKey, Decide
    <3> QED
      BY <1>1, <2>1, <3>2, Closes
  <2> QED
    BY <1>2, <2>2, <2>3 DEF ApprovalKey
<1>3. ASSUME NEW k \in Keys, QuestionKey(k) PROVE ScreenInv'
  <2>1. shown[FALSE] # Nobody
    BY <1>3 DEF QuestionKey, Layer
  <2>2. PICK v \in {"yes", "no", "closed"} :
          /\ shown' = [shown EXCEPT ![FALSE] = Nobody] /\ UNCHANGED asked
          /\ outcome' = [outcome EXCEPT ![shown[FALSE]] = v]
    BY <1>3 DEF QuestionKey
  <2> QED
    BY <1>1, <2>1, <2>2, Closes
<1>4. ASSUME Interrupt PROVE ScreenInv'
  <2>1. /\ shown' = [shown EXCEPT ![TRUE] = Nobody] /\ UNCHANGED asked
        /\ outcome' = (IF shown[TRUE] = Nobody THEN outcome
                                               ELSE [outcome EXCEPT ![shown[TRUE]] = "closed"])
    BY <1>4 DEF Interrupt, Drop
  <2> QED
    BY <1>1, <2>1, Closes
<1>5. ASSUME Show PROVE ScreenInv'
  BY <1>5, Shown
<1>6. ASSUME NEW w \in Waits, AgentAsks(w) PROVE ScreenInv'
  BY <1>6, Asks
<1>7. ASSUME UNCHANGED waitVars PROVE ScreenInv'
  BY <1>7, ScreenRests DEF waitVars
<1>8. ASSUME NEW k \in Keys, Key(k) PROVE ScreenInv'
  <2>1. ApprovalKey(k) \/ QuestionKey(k) \/ UNCHANGED waitVars
    BY <1>8 DEF Key, FormKey, SelectorKey, LeftPanelKey, RightPanelKey, PanelKey
  <2> QED
    BY <1>2, <1>3, <1>7, <2>1
<1>9. ASSUME Loop PROVE ScreenInv'
  <2>1. \/ \E k \in Keys : Key(k)
        \/ Interrupt \/ Show \/ UNCHANGED waitVars
    BY <1>9 DEF Loop, Type, EnterKey, OpenSelector, DomainEvent, StreamEvent
  <2> QED
    BY <1>4, <1>5, <1>7, <1>8, <2>1
<1>10. \/ Loop \/ UNCHANGED waitVars \/ \E w \in Waits : AgentAsks(w)
  BY DEF NextScreen, LoginEnds, SubmitMessage, TaskEnds, TaskFails, RunFails, RunSends, screenVars
<1> QED
  BY <1>6, <1>7, <1>9, <1>10

(* A wait is in one of the channel and the two dialogs, and once.          *)
LEMMA InOnePlace == ScreenInv => WaitersOnScreen
<1> SUFFICES ASSUME ScreenInv, NEW w \in Waits, outcome[w] = "waiting"
             PROVE  Cardinality({i \in DOMAIN asked : asked[i] = w})
                  + Cardinality({b \in BOOLEAN : shown[b] = w}) = 1
  BY DEF WaitersOnScreen
<1> DEFINE A == {i \in DOMAIN asked : asked[i] = w}
           B == {b \in BOOLEAN : shown[b] = w}
<1>1. Cardinality({}) = 0
  BY FS_EmptySet
<1>2. CASE w \in Elements(asked)
  <2>1. PICK i \in DOMAIN asked : asked[i] = w
    BY <1>2 DEF Elements
  <2>2. A = {i}
    BY <2>1 DEF ScreenInv, AskedOK, Once
  <2>3. B = {}
    BY <1>2, CliAssumption DEF ScreenInv, ShownOK
  <2>4. Cardinality(A) = 1 /\ Cardinality(B) = 0
    BY <1>1, <2>2, <2>3, FS_Singleton
  <2> QED
    BY <2>4
<1>3. CASE w \notin Elements(asked)
  <2>1. PICK b \in BOOLEAN : shown[b] = w
    BY <1>3 DEF ScreenInv, NoneLost
  <2>2. B = {b}
    BY <2>1, CliAssumption DEF ScreenInv, ShownOK
  <2>3. A = {}
    BY <1>3 DEF Elements
  <2>4. Cardinality(B) = 1 /\ Cardinality(A) = 0
    BY <1>1, <2>2, <2>3, FS_Singleton
  <2> QED
    BY <2>4
<1> QED
  BY <1>2, <1>3

(* request_approval and ask_user wait without a timeout (app.rs: what is   *)
(* shown in the place of another drops its responder): a wait is always    *)
(* where the loop can still answer it, and at one place only.              *)
THEOREM ScreenWaiters == ScreenSpec => []WaitersOnScreen
BY ScreenStarts, KeepsScreen, InOnePlace, PTL DEF ScreenSpec

-----------------------------------------------------------------------------
LEMMA ChatInit == Init => ChatInv
<1> SUFFICES ASSUME Init PROVE ChatInv
  OBVIOUS
<1>1. TypeOK /\ ForwardOK
  BY DEF Init, TypeOK, ForwardOK
<1>2. DOMAIN channel = {} /\ \A c \in Chats : DOMAIN queue[c] = {}
  BY DEF Init
<1>3. QueuesOK /\ BypassOK /\ TurnsOK /\ ActiveServed
  BY <1>2 DEF Init, QueuesOK, BypassOK, TurnsOK, AtWork, ActiveServed, Once, Elements
<1>4. Kept = {} /\ Forwarded = {} /\ Elements(channel) = {}
  BY <1>2 DEF Init, Kept, Forwarded, Elements
<1>5. PlacesOK
  BY <1>2, <1>4 DEF Init, PlacesOK, Once
<1> QED
  BY <1>1, <1>3, <1>5 DEF ChatInv

(* What a step of the connector does to the queues and the handlers: it    *)
(* moves one message's handler, or none.                                   *)
QueuesRest == UNCHANGED <<queue, handler, bypass>>

Replies == {"none", "waiting", "error", "cancelled", "media", "answered"}

(* The question of a chat is taken, or there is none.                      *)
LEMMA Cancels ==
  ASSUME TypeOK, NEW c \in Chats, NEW why \in Replies, Cancel(c, why)
  PROVE  /\ reply' \in [Questions -> Replies] /\ pending' \in [Chats -> Questions \cup {None}]
         /\ \A d \in Chats : pending'[d] = IF d = c THEN None ELSE pending[d]
         /\ \A q \in Questions : reply'[q] = IF q = pending[c] THEN why ELSE reply[q]
<1>1. /\ pending \in [Chats -> Questions \cup {None}] /\ reply \in [Questions -> Replies]
      /\ pending[c] \in Questions \cup {None} /\ None \notin Questions
      /\ pending' = [pending EXCEPT ![c] = None]
      /\ reply' = (IF pending[c] = None THEN reply ELSE [reply EXCEPT ![pending[c]] = why])
  BY TelegramAssumption DEF TypeOK, Cancel, Replies
<1>2. CASE pending[c] = None
  BY <1>1, <1>2
<1>3. CASE pending[c] # None
  BY <1>1, <1>3
<1> QED
  BY <1>2, <1>3

LEMMA KeepsChatTypes == TypeOK /\ ForwardOK /\ [Next]_vars => TypeOK' /\ ForwardOK'
<1> SUFFICES ASSUME TypeOK, ForwardOK, [Next]_vars PROVE TypeOK' /\ ForwardOK'
  OBVIOUS
<1> USE TelegramAssumption
<1>1. ASSUME NEW m \in Messages, Distribute(m) PROVE TypeOK' /\ ForwardOK'
  <2>1. Chat[m] \in Chats /\ Append(queue[Chat[m]], m) \in Seq(Messages)
    BY DEF TypeOK
  <2>2. CASE LetsPast(m)
    BY ZenonT(30), <1>1, <2>2 DEF Distribute, TypeOK, ForwardOK, approvalVars
  <2>3. CASE ~LetsPast(m)
    <3>1. queue' = [queue EXCEPT ![Chat[m]] = Append(queue[Chat[m]], m)]
      BY <1>1, <2>3 DEF Distribute
    <3>2. queue' \in [Chats -> Seq(Messages)]
      BY <2>1, <3>1 DEF TypeOK
    <3>3. /\ handler' = [handler EXCEPT ![m] = "queued"]
          /\ UNCHANGED <<run, active, channel, forward, approvalVars>>
      BY <1>1, <2>3 DEF Distribute
    <3>4. reply' \in [Questions -> Replies] /\ pending' \in [Chats -> Questions \cup {None}]
      <4>1. CASE IsText(m)
        BY <1>1, <2>3, <4>1 DEF Distribute, TypeOK, Replies
      <4>2. CASE ~IsText(m)
        BY <1>1, <2>1, <2>3, <4>2, Cancels DEF Distribute, Replies
      <4> QED
        BY <4>1, <4>2
    <3> QED
      BY <3>2, <3>3, <3>4 DEF TypeOK, ForwardOK, approvalVars, Replies
  <2> QED
    BY <2>2, <2>3
<1>2. ASSUME NEW c \in Chats, Dequeue(c) PROVE TypeOK' /\ ForwardOK'
  <2>1. /\ queue[c] \in Seq(Messages) /\ queue[c] # <<>>
        /\ Head(queue[c]) \in Messages /\ Tail(queue[c]) \in Seq(Messages)
    BY <1>2, Taken DEF TypeOK, Dequeue
  <2> QED
    BY <1>2, <2>1 DEF Dequeue, TypeOK, ForwardOK, approvalVars
<1>3. ASSUME NEW m \in Messages, TakeQuestion(m) PROVE TypeOK' /\ ForwardOK'
  <2>1. Chat[m] \in Chats
    OBVIOUS
  <2>2. reply' \in [Questions -> Replies] /\ pending' \in [Chats -> Questions \cup {None}]
    BY <1>3, <2>1, Cancels DEF TakeQuestion, Replies
  <2>3. handler' \in [Messages -> {"unsent", "queued", "started", "building", "waiting", "done"}]
    BY <1>3 DEF TakeQuestion, TypeOK
  <2> QED
    BY <1>3, <2>2, <2>3 DEF TakeQuestion, TypeOK, ForwardOK, approvalVars, Replies
<1>4. ASSUME NEW m \in Messages, ReturnEarly(m) \/ Submit(m) \/ HandlerReturns(m) \/ RunEnds(m)
      PROVE  TypeOK' /\ ForwardOK'
  <2>1. CASE ReturnEarly(m)
    BY <2>1 DEF ReturnEarly, TypeOK, ForwardOK, approvalVars
  <2>2. CASE Submit(m)
    BY <2>2 DEF Submit, TypeOK, ForwardOK, approvalVars
  <2>3. CASE HandlerReturns(m)
    BY <2>3 DEF HandlerReturns, TypeOK, ForwardOK, approvalVars
  <2>4. CASE RunEnds(m)
    BY <2>4 DEF RunEnds, TypeOK, ForwardOK, approvalVars
  <2> QED
    BY <1>4, <2>1, <2>2, <2>3, <2>4
<1>5. ASSUME NEW q \in Questions, Ask(q) PROVE TypeOK' /\ ForwardOK'
  BY <1>5 DEF Ask, TypeOK, ForwardOK, approvalVars
<1>6. ASSUME PickUp PROVE TypeOK' /\ ForwardOK'
  <2>1. /\ channel \in Seq(Questions) /\ channel # <<>>
        /\ Head(channel) \in Questions /\ Tail(channel) \in Seq(Questions)
    BY <1>6, Taken DEF TypeOK, PickUp
  <2>2. CASE active = None
    <3>1. /\ reply' = [reply EXCEPT ![Head(channel)] = "error"] /\ channel' = Tail(channel)
          /\ UNCHANGED <<queue, handler, run, active, forward, pending, approvalVars>>
      BY <1>6, <2>2 DEF PickUp
    <3>2. reply' \in [Questions -> Replies]
      BY <2>1, <3>1 DEF TypeOK, Replies
    <3>3. ForwardOK'
      BY <3>1 DEF ForwardOK
    <3>4. channel' \in Seq(Questions)
      BY <2>1, <3>1
    <3>5. UNCHANGED <<queue, handler, run, active, pending, approval, entries, press>>
      BY <3>1 DEF approvalVars
    <3>6. TypeOK'
      BY <3>2, <3>4, <3>5 DEF TypeOK, Replies
    <3> QED
      BY <3>3, <3>6
  <2>3. CASE active # None
    <3>1. /\ forward' = <<Head(channel), active, FALSE>> /\ channel' = Tail(channel)
          /\ UNCHANGED <<queue, handler, run, active, reply, pending, approval, entries, press>>
      BY <1>6, <2>3 DEF PickUp, approvalVars
    <3>2. active \in Chats
      BY <2>3 DEF TypeOK
    <3>3. ForwardOK'
      BY <2>1, <3>1, <3>2 DEF ForwardOK
    <3>4. channel' \in Seq(Questions)
      BY <2>1, <3>1
    <3>5. TypeOK'
      BY <3>1, <3>4 DEF TypeOK
    <3> QED
      BY <3>3, <3>5
  <2> QED
    BY <2>2, <2>3
<1>7. ASSUME SendQuestion \/ KeepResponder PROVE TypeOK' /\ ForwardOK'
  <2>1. /\ forward \in Questions \X Chats \X BOOLEAN
        /\ forward[1] \in Questions /\ forward[2] \in Chats
        /\ pending[forward[2]] \in Questions \cup {None}
    BY <1>7 DEF SendQuestion, KeepResponder, ForwardOK, TypeOK
  <2>2. ForwardOK'
    <3>1. forward' = None \/ forward' = <<forward[1], forward[2], TRUE>>
      BY <1>7 DEF SendQuestion, KeepResponder
    <3>2. <<forward[1], forward[2], TRUE>> \in Questions \X Chats \X BOOLEAN
      BY <2>1
    <3> QED
      BY <3>1, <3>2 DEF ForwardOK
  <2>3. reply' \in [Questions -> {"none", "waiting", "error", "cancelled", "media", "answered"}]
    BY ZenonT(30), <1>7, <2>1 DEF SendQuestion, KeepResponder, TypeOK
  <2>4. pending' \in [Chats -> Questions \cup {None}]
    BY ZenonT(30), <1>7, <2>1 DEF SendQuestion, KeepResponder, TypeOK
  <2>5. UNCHANGED <<queue, handler, run, active, channel, approval, entries, press>>
    BY <1>7 DEF SendQuestion, KeepResponder, approvalVars
  <2>6. TypeOK'
    BY <2>3, <2>4, <2>5 DEF TypeOK
  <2> QED
    BY <2>2, <2>6
<1>8. ASSUME NEW a \in Approvals, Request(a) \/ SendButtons(a) \/ Expires(a) \/ Decides(a)
      PROVE  TypeOK' /\ ForwardOK'
  <2>1. UNCHANGED <<questionVars, press>>
    BY <1>8 DEF Request, SendButtons, Expires, Decides, questionVars
  <2>2. /\ approval' \in [Approvals -> {"idle", "sending", "asking", "granted", "refused"}]
        /\ entries' \subseteq Approvals
    <3>1. PICK v \in {"sending", "asking", "granted", "refused"} :
            approval' = [approval EXCEPT ![a] = v]
      BY <1>8 DEF Request, SendButtons, Expires, Decides
    <3>2. entries' \subseteq entries \cup {a}
      BY <1>8 DEF Request, SendButtons, Expires, Decides, DropEntry
    <3> QED
      BY <3>1, <3>2 DEF TypeOK
  <2> QED
    BY <2>1, <2>2 DEF TypeOK, ForwardOK, questionVars
<1>9. ASSUME NEW p \in Presses, Press(p) \/ SendVerdict(p) \/ Edit(p) PROVE TypeOK' /\ ForwardOK'
  <2>1. UNCHANGED <<questionVars, approval>>
    BY <1>9 DEF Press, SendVerdict, Edit
  <2>2. /\ press' \in [Presses -> {"idle", "taken", "sent", "decided", "missing", "expired"}]
        /\ entries' \subseteq Approvals
    BY ZenonT(30), <1>9 DEF Press, SendVerdict, Edit, TypeOK
  <2> QED
    BY <2>1, <2>2 DEF TypeOK, ForwardOK, questionVars
<1>10. ASSUME UNCHANGED vars PROVE TypeOK' /\ ForwardOK'
  BY <1>10 DEF vars, TypeOK, ForwardOK
<1> QED
  BY <1>1, <1>2, <1>3, <1>4, <1>5, <1>6, <1>7, <1>8, <1>9, <1>10 DEF Next

-----------------------------------------------------------------------------
QueuesInv == QueuesOK /\ BypassOK /\ TurnsOK

(* A message that is at work, or has been, moves on: the queues are as     *)
(* they were, and no handler comes to work.                                *)
LEMMA HandlerMoves ==
  ASSUME TypeOK, QueuesInv, NEW m \in Messages, AtWork(m),
         NEW v \in {"building", "waiting", "done"},
         handler' = [handler EXCEPT ![m] = v], UNCHANGED <<queue, bypass>>
  PROVE  QueuesInv'
<1>1. \A n \in Messages : handler'[n] = IF n = m THEN v ELSE handler[n]
  BY DEF TypeOK
<1>2. \A n \in Messages : AtWork(n)' => AtWork(n)
  BY <1>1 DEF AtWork
<1>3. TurnsOK' /\ BypassOK'
  BY <1>2 DEF QueuesInv, TurnsOK, BypassOK
<1>4. ASSUME NEW c \in Chats, NEW n \in Elements(queue[c])
      PROVE  n \in Messages /\ n # m
  <2>1. queue[c] \in Seq(Messages)
    BY DEF TypeOK
  <2>2. n \in Messages
    BY <2>1 DEF Elements
  <2>3. handler[n] = "queued"
    BY DEF QueuesInv, QueuesOK
  <2> QED
    BY <2>2, <2>3 DEF AtWork
<1>5. QueuesOK'
  BY <1>1, <1>4 DEF QueuesInv, QueuesOK, Elements, Once
<1> QED
  BY <1>3, <1>5 DEF QueuesInv

LEMMA Distributes ==
  ASSUME TypeOK, QueuesInv, NEW m \in Messages, Distribute(m)
  PROVE  QueuesInv'
<1> USE TelegramAssumption
<1>1. handler[m] = "unsent" /\ Chat[m] \in Chats
  BY DEF Distribute
<1>2. ASSUME NEW c \in Chats, NEW n \in Elements(queue[c])
      PROVE  n \in Messages /\ n # m /\ handler[n] = "queued" /\ Chat[n] = c
  <2>1. queue[c] \in Seq(Messages)
    BY DEF TypeOK
  <2> QED
    BY <1>1, <2>1 DEF Elements, QueuesInv, QueuesOK
<1>3. CASE LetsPast(m)
  <2>1. /\ bypass' = bypass \cup {m} /\ queue' = queue /\ IsText(m)
        /\ \A n \in Messages : handler'[n] = IF n = m THEN "started" ELSE handler[n]
    BY <1>3 DEF Distribute, LetsPast, TypeOK
  <2>2. QueuesOK'
    BY <1>2, <2>1 DEF QueuesInv, QueuesOK, Elements, Once
  <2>3. BypassOK' /\ TurnsOK'
    BY <2>1 DEF QueuesInv, BypassOK, TurnsOK, AtWork
  <2> QED
    BY <2>2, <2>3 DEF QueuesInv
<1>4. CASE ~LetsPast(m)
  <2>1. /\ bypass' = bypass /\ queue' = [queue EXCEPT ![Chat[m]] = Append(@, m)]
        /\ \A n \in Messages : handler'[n] = IF n = m THEN "queued" ELSE handler[n]
    BY <1>4 DEF Distribute, TypeOK
  <2>2. BypassOK' /\ TurnsOK'
    BY <2>1 DEF QueuesInv, BypassOK, TurnsOK, AtWork
  <2>3. ASSUME NEW c \in Chats
        PROVE  /\ Once(queue'[c])
               /\ \A n \in Elements(queue'[c]) : Chat[n] = c /\ handler'[n] = "queued"
    <3>1. CASE c = Chat[m]
      <4>1. queue[c] \in Seq(Messages) /\ queue'[c] = Append(queue[c], m)
        BY <2>1, <3>1 DEF TypeOK
      <4>2. m \notin Elements(queue[c]) /\ Once(queue[c])
        BY <1>2 DEF QueuesInv, QueuesOK
      <4>3. Once(queue'[c]) /\ Elements(queue'[c]) = Elements(queue[c]) \cup {m}
        BY <4>1, <4>2, Joined
      <4> QED
        BY <1>2, <2>1, <3>1, <4>3
    <3>2. CASE c # Chat[m]
      <4>1. queue'[c] = queue[c]
        BY <2>1, <3>2 DEF TypeOK
      <4> QED
        BY <1>2, <2>1, <4>1 DEF QueuesInv, QueuesOK
    <3> QED
      BY <3>1, <3>2
  <2>4. QueuesOK'
    BY <2>3 DEF QueuesOK, Once, Elements
  <2> QED
    BY <2>2, <2>4 DEF QueuesInv
<1> QED
  BY <1>3, <1>4

(* The worker of a chat takes its next message when no other that came     *)
(* through the queue is at work.                                           *)
LEMMA Dequeues ==
  ASSUME TypeOK, QueuesInv, NEW c \in Chats, Dequeue(c)
  PROVE  QueuesInv'
<1> USE TelegramAssumption
<1>1. PICK m : m = Head(queue[c])
  OBVIOUS
<1>2. /\ ~Busy(c) /\ queue[c] # <<>> /\ queue[c] \in Seq(Messages)
      /\ handler' = [handler EXCEPT ![m] = "started"]
      /\ queue' = [queue EXCEPT ![c] = Tail(@)] /\ bypass' = bypass
  BY <1>1 DEF Dequeue, TypeOK
<1>3. /\ m \in Messages /\ Elements(queue[c]) = Elements(Tail(queue[c])) \cup {m}
      /\ Once(Tail(queue[c])) /\ m \notin Elements(Tail(queue[c]))
  BY <1>1, <1>2, Taken DEF QueuesInv, QueuesOK
<1>4. Chat[m] = c /\ handler[m] = "queued"
  BY <1>3 DEF QueuesInv, QueuesOK
<1>5. \A n \in Messages : handler'[n] = IF n = m THEN "started" ELSE handler[n]
  BY <1>2 DEF TypeOK
<1>6. BypassOK'
  BY <1>2 DEF QueuesInv, BypassOK
<1>7. \A n \in Messages \ bypass : Chat[n] = c => ~AtWork(n)
  BY <1>2 DEF Busy, AtWork
<1>8. ASSUME NEW n \in Messages \ bypass, NEW o \in Messages \ bypass,
             Chat[n] = Chat[o], AtWork(n)', AtWork(o)'
      PROVE  n = o
  <2>1. (AtWork(n) \/ n = m) /\ (AtWork(o) \/ o = m)
    BY <1>5, <1>8 DEF AtWork
  <2>2. CASE n = m \/ o = m
    BY <1>4, <1>7, <1>8, <2>1, <2>2
  <2>3. CASE n # m /\ o # m
    BY <1>8, <2>1, <2>3 DEF QueuesInv, TurnsOK
  <2> QED
    BY <2>2, <2>3
<1>9. TurnsOK'
  BY <1>2, <1>8 DEF TurnsOK, AtWork
<1>10. ASSUME NEW d \in Chats
       PROVE  /\ Once(queue'[d])
              /\ \A n \in Elements(queue'[d]) : Chat[n] = d /\ handler'[n] = "queued"
  <2>1. queue[d] \in Seq(Messages)
    BY DEF TypeOK
  <2>2. \A n \in Elements(queue[d]) : n \in Messages /\ Chat[n] = d /\ handler[n] = "queued"
    BY <2>1 DEF QueuesInv, QueuesOK, Elements
  <2>3. CASE d = c
    <3>1. queue'[d] = Tail(queue[c])
      BY <1>2, <2>3 DEF TypeOK
    <3> QED
      BY <1>3, <1>5, <2>2, <2>3, <3>1
  <2>4. CASE d # c
    <3>1. queue'[d] = queue[d] /\ Once(queue[d])
      BY <1>2, <2>4 DEF TypeOK, QueuesInv, QueuesOK
    <3> QED
      BY <1>4, <1>5, <2>2, <2>4, <3>1
  <2> QED
    BY <2>3, <2>4
<1>11. QueuesOK'
  BY <1>10 DEF QueuesOK, Once, Elements
<1> QED
  BY <1>6, <1>9, <1>11 DEF QueuesInv

LEMMA KeepsQueues == TypeOK /\ QueuesInv /\ [Next]_vars => QueuesInv'
<1> SUFFICES ASSUME TypeOK, QueuesInv, [Next]_vars PROVE QueuesInv'
  OBVIOUS
<1>1. ASSUME NEW m \in Messages,
             TakeQuestion(m) \/ ReturnEarly(m) \/ Submit(m) \/ HandlerReturns(m)
      PROVE  QueuesInv'
  <2>1. AtWork(m) /\ UNCHANGED <<queue, bypass>>
    BY <1>1 DEF TakeQuestion, ReturnEarly, Submit, HandlerReturns, AtWork
  <2>2. PICK v \in {"building", "waiting", "done"} : handler' = [handler EXCEPT ![m] = v]
    BY <1>1 DEF TakeQuestion, ReturnEarly, Submit, HandlerReturns
  <2> QED
    BY <2>1, <2>2, HandlerMoves
<1>2. ASSUME UNCHANGED <<queue, handler, bypass>> PROVE QueuesInv'
  BY <1>2 DEF QueuesInv, QueuesOK, BypassOK, TurnsOK, AtWork, Once, Elements
<1>3. \/ \E m \in Messages :
           \/ Distribute(m)
           \/ TakeQuestion(m) \/ ReturnEarly(m) \/ Submit(m) \/ HandlerReturns(m)
      \/ \E c \in Chats : Dequeue(c)
      \/ UNCHANGED <<queue, handler, bypass>>
  BY DEF Next, vars, questionVars, RunEnds, Ask, PickUp, SendQuestion, KeepResponder, Request,
         SendButtons, Expires, Decides, Press, SendVerdict, Edit
<1> QED
  BY <1>1, <1>2, <1>3, Distributes, Dequeues

-----------------------------------------------------------------------------
(* What the forwarder holds is something.                                  *)
LEMMA Carried ==
  ASSUME NEW q \in Questions, NEW c \in Chats, NEW sent \in BOOLEAN
  PROVE  <<q, c, sent>> # None
<1>1. <<q, c, sent>> \in Questions \X Chats \X BOOLEAN
  OBVIOUS
<1>2. None \notin Questions \X Chats \X BOOLEAN
  BY TelegramAssumption
<1> QED
  BY <1>1, <1>2

(* The three places hold questions.                                        *)
LEMMA PlacesHold ==
  ASSUME TypeOK, ForwardOK
  PROVE  /\ None \notin Questions
         /\ channel \in Seq(Questions) /\ Elements(channel) \subseteq Questions
         /\ Forwarded \subseteq Questions /\ Kept \subseteq Questions
         /\ forward # None => forward[1] \in Questions /\ forward[2] \in Chats
         /\ \A c \in Chats : pending[c] # None => pending[c] \in Kept
BY TelegramAssumption DEF TypeOK, ForwardOK, Elements, Forwarded, Kept

LEMMA PlacesRest ==
  PlacesOK /\ UNCHANGED <<channel, forward, pending, reply>> => PlacesOK'
BY DEF PlacesOK, Once, Elements, Forwarded, Kept

(* The question of a chat is answered or cancelled.                        *)
LEMMA CancelPlaces ==
  ASSUME TypeOK, ForwardOK, PlacesOK, NEW c \in Chats, NEW why \in Replies \ {"waiting"},
         Cancel(c, why), UNCHANGED <<channel, forward>>
  PROVE  PlacesOK'
<1>1. /\ \A d \in Chats : pending'[d] = IF d = c THEN None ELSE pending[d]
      /\ \A q \in Questions : reply'[q] = IF q = pending[c] THEN why ELSE reply[q]
  BY Cancels
<1>2. /\ \A d \in Chats : pending[d] \in Questions \cup {None}
      /\ None \notin Questions
  BY PlacesHold DEF TypeOK
<1>3. Kept' = Kept \ {pending[c]}
  BY <1>1, <1>2 DEF Kept, PlacesOK
<1>4. Elements(channel)' = Elements(channel) /\ Forwarded' = Forwarded /\ Once(channel)'
  BY DEF Elements, Forwarded, PlacesOK, Once
<1>5. ASSUME NEW q \in Questions
      PROVE  reply'[q] = "waiting" <=> q \in Elements(channel) \cup Forwarded \cup Kept'
  <2>1. CASE q = pending[c]
    <3>1. q \in Kept /\ q \notin Elements(channel) /\ q \notin Forwarded
      BY <1>2, <2>1 DEF Kept, PlacesOK
    <3> QED
      BY <1>1, <1>3, <2>1, <3>1
  <2>2. CASE q # pending[c]
    BY <1>1, <1>3, <2>2 DEF PlacesOK
  <2> QED
    BY <2>1, <2>2
<1>6. \A d, e \in Chats : pending'[d] = pending'[e] => d = e \/ pending'[d] = None
  BY <1>1 DEF PlacesOK
<1> QED
  BY <1>3, <1>4, <1>5, <1>6 DEF PlacesOK

LEMMA AskPlaces ==
  ASSUME TypeOK, ForwardOK, PlacesOK, NEW q \in Questions, Ask(q)
  PROVE  PlacesOK'
<1>1. /\ channel' = Append(channel, q) /\ reply[q] = "none"
      /\ \A x \in Questions : reply'[x] = IF x = q THEN "waiting" ELSE reply[x]
      /\ UNCHANGED <<forward, pending>>
  BY DEF Ask, TypeOK
<1>2. q \notin Elements(channel) \cup Forwarded \cup Kept
  BY <1>1 DEF PlacesOK
<1>3. Elements(channel') = Elements(channel) \cup {q} /\ Once(channel')
  BY <1>1, <1>2, PlacesHold, Joined DEF PlacesOK
<1>4. Forwarded' = Forwarded /\ Kept' = Kept
  BY <1>1 DEF Forwarded, Kept
<1>5. Elements(channel)' = Elements(channel) \cup {q} /\ Once(channel)'
  BY <1>3 DEF Elements, Once
<1>6. \A d, e \in Chats : pending'[d] = pending'[e] => d = e \/ pending'[d] = None
  BY <1>1 DEF PlacesOK
<1> QED
  BY <1>1, <1>2, <1>4, <1>5, <1>6 DEF PlacesOK

(* The forwarder takes the oldest question, or answers it with an error.   *)
LEMMA PickUpPlaces ==
  ASSUME TypeOK, ForwardOK, PlacesOK, PickUp
  PROVE  PlacesOK'
<1>1. PICK q : q = Head(channel)
  OBVIOUS
<1>2. channel # <<>> /\ channel' = Tail(channel) /\ forward = None /\ UNCHANGED pending
  BY DEF PickUp
<1>3. /\ q \in Questions /\ Elements(channel) = Elements(channel') \cup {q}
      /\ Once(channel') /\ q \notin Elements(channel')
  BY <1>1, <1>2, PlacesHold, Taken DEF PlacesOK
<1>4. Elements(channel)' = Elements(channel) \ {q} /\ Once(channel)'
  BY <1>3 DEF Elements, Once
<1>5. Kept' = Kept /\ Forwarded = {}
  BY <1>2 DEF Kept, Forwarded
<1>6. \A d, e \in Chats : pending'[d] = pending'[e] => d = e \/ pending'[d] = None
  BY <1>2 DEF PlacesOK
<1>7. CASE active = None
  <2>1. /\ \A x \in Questions : reply'[x] = IF x = q THEN "error" ELSE reply[x]
        /\ forward' = forward
    BY <1>1, <1>7 DEF PickUp, TypeOK
  <2>2. Forwarded' = {}
    BY <1>2, <2>1 DEF Forwarded
  <2> QED
    BY <1>3, <1>4, <1>5, <1>6, <2>1, <2>2 DEF PlacesOK
<1>8. CASE active # None
  <2>1. forward' = <<q, active, FALSE>> /\ reply' = reply /\ active \in Chats
    BY <1>1, <1>8 DEF PickUp, TypeOK
  <2>2. forward' # None
    BY <1>3, <2>1, Carried
  <2>3. Forwarded' = {q}
    BY <2>1, <2>2 DEF Forwarded
  <2> QED
    BY <1>3, <1>4, <1>5, <1>6, <2>1, <2>3 DEF PlacesOK
<1> QED
  BY <1>7, <1>8

LEMMA SendPlaces ==
  ASSUME TypeOK, ForwardOK, PlacesOK, SendQuestion
  PROVE  PlacesOK'
<1>1. PICK q \in Questions : q = forward[1] /\ forward # None /\ Forwarded = {q}
  BY PlacesHold DEF SendQuestion, Forwarded
<1>2. Elements(channel)' = Elements(channel) /\ Once(channel)' /\ Kept' = Kept
  BY DEF SendQuestion, Elements, Once, Kept, PlacesOK
<1>3. \A d, e \in Chats : pending'[d] = pending'[e] => d = e \/ pending'[d] = None
  BY DEF SendQuestion, PlacesOK
<1>4. CASE forward' = <<q, forward[2], TRUE>> /\ reply' = reply
  <2>1. forward' # None /\ forward'[1] = q
    BY <1>1, <1>4, PlacesHold, Carried
  <2>2. Forwarded' = {q}
    BY <2>1 DEF Forwarded
  <2> QED
    BY <1>1, <1>2, <1>3, <1>4, <2>2 DEF PlacesOK
<1>5. CASE forward' = None /\ reply' = [reply EXCEPT ![q] = "error"]
  <2>1. \A x \in Questions : reply'[x] = IF x = q THEN "error" ELSE reply[x]
    BY <1>5 DEF TypeOK
  <2>2. Forwarded' = {}
    BY <1>5 DEF Forwarded
  <2> QED
    BY <1>1, <1>2, <1>3, <2>1, <2>2 DEF PlacesOK
<1> QED
  BY <1>1, <1>4, <1>5 DEF SendQuestion

(* The responder is kept, in the place of an earlier one of the chat.      *)
LEMMA KeepPlaces ==
  ASSUME TypeOK, ForwardOK, PlacesOK, KeepResponder
  PROVE  PlacesOK'
<1>1. PICK q \in Questions, c \in Chats :
        q = forward[1] /\ c = forward[2] /\ forward # None /\ Forwarded = {q}
  BY PlacesHold DEF KeepResponder, Forwarded
<1>2. /\ pending' = [pending EXCEPT ![c] = q] /\ forward' = None /\ UNCHANGED channel
      /\ reply' = (IF pending[c] = None THEN reply
                                        ELSE [reply EXCEPT ![pending[c]] = "cancelled"])
  BY <1>1 DEF KeepResponder
<1>3. /\ \A d \in Chats : pending[d] \in Questions \cup {None}
      /\ None \notin Questions
  BY PlacesHold DEF TypeOK
<1>4. \A d \in Chats : pending'[d] = IF d = c THEN q ELSE pending[d]
  BY <1>2 DEF TypeOK
<1>5. \A x \in Questions : reply'[x] = IF x = pending[c] THEN "cancelled" ELSE reply[x]
  BY <1>2, <1>3 DEF TypeOK
<1>6. q \notin Kept /\ q \notin Elements(channel)
  BY <1>1 DEF PlacesOK
<1>7. Elements(channel)' = Elements(channel) /\ Forwarded' = {} /\ Once(channel)'
  BY <1>2 DEF Elements, Forwarded, PlacesOK, Once
<1>8. Kept' = (Kept \ {pending[c]}) \cup {q}
  BY <1>1, <1>3, <1>4 DEF Kept, PlacesOK
<1>9. ASSUME NEW d \in Chats, NEW e \in Chats, pending'[d] = pending'[e], d # e
      PROVE  pending'[d] = None
  <2>1. \A b \in Chats : pending[b] # q
    BY <1>1, <1>3, <1>6 DEF Kept
  <2> QED
    BY <1>4, <1>9, <2>1 DEF PlacesOK
<1>10. ASSUME NEW x \in Questions
       PROVE  reply'[x] = "waiting" <=> x \in Elements(channel) \cup Kept'
  <2>1. CASE x = pending[c]
    <3>1. x \in Kept /\ x \notin Elements(channel) /\ x # q
      BY <1>3, <1>6, <2>1 DEF Kept, PlacesOK
    <3> QED
      BY <1>5, <1>8, <2>1, <3>1
  <2>2. CASE x # pending[c]
    BY <1>1, <1>5, <1>8, <2>2 DEF PlacesOK
  <2> QED
    BY <2>1, <2>2
<1>11. Elements(channel) \cap Kept' = {}
  BY <1>6, <1>8 DEF PlacesOK
<1> QED
  BY <1>7, <1>9, <1>10, <1>11 DEF PlacesOK

LEMMA KeepsPlaces ==
  TypeOK /\ ForwardOK /\ PlacesOK /\ [Next]_vars => PlacesOK'
<1> SUFFICES ASSUME TypeOK, ForwardOK, PlacesOK, [Next]_vars PROVE PlacesOK'
  OBVIOUS
<1>1. ASSUME NEW m \in Messages, Distribute(m) PROVE PlacesOK'
  <2>1. Chat[m] \in Chats /\ UNCHANGED <<channel, forward>>
    BY <1>1, TelegramAssumption DEF Distribute
  <2>2. UNCHANGED <<pending, reply>> \/ Cancel(Chat[m], "media")
    BY <1>1 DEF Distribute
  <2> QED
    BY <2>1, <2>2, PlacesRest, CancelPlaces DEF Replies
<1>2. ASSUME NEW m \in Messages, TakeQuestion(m) PROVE PlacesOK'
  <2>1. Chat[m] \in Chats /\ UNCHANGED <<channel, forward>>
    BY <1>2, TelegramAssumption DEF TakeQuestion
  <2>2. PICK why \in {"answered", "media"} : Cancel(Chat[m], why)
    BY <1>2 DEF TakeQuestion
  <2> QED
    BY <2>1, <2>2, CancelPlaces DEF Replies
<1>3. \/ \E m \in Messages : Distribute(m) \/ TakeQuestion(m)
      \/ \E q \in Questions : Ask(q)
      \/ PickUp \/ SendQuestion \/ KeepResponder
      \/ UNCHANGED <<channel, forward, pending, reply>>
  BY DEF Next, vars, questionVars, ReturnEarly, Submit, HandlerReturns, RunEnds, Dequeue,
         Request, SendButtons, Expires, Decides, Press, SendVerdict, Edit
<1> QED
  BY <1>1, <1>2, <1>3, PlacesRest, AskPlaces, PickUpPlaces, SendPlaces, KeepPlaces

-----------------------------------------------------------------------------
(* The active chat keeps a handler that waits: whoever ends waiting clears *)
(* its own chat.                                                           *)
LEMMA KeepsActive ==
  TypeOK /\ QueuesOK /\ ActiveServed /\ [Next]_vars => ActiveServed'
<1> SUFFICES ASSUME TypeOK, QueuesOK, ActiveServed, [Next]_vars PROVE ActiveServed'
  OBVIOUS
<1>1. ASSUME NEW m \in Messages, NEW v, handler' = [handler EXCEPT ![m] = v],
             handler[m] # "waiting", UNCHANGED active
      PROVE  ActiveServed'
  BY <1>1 DEF TypeOK, ActiveServed
<1>2. ASSUME NEW m \in Messages, Distribute(m) \/ TakeQuestion(m) \/ ReturnEarly(m)
      PROVE  ActiveServed'
  <2>1. /\ UNCHANGED active /\ handler[m] # "waiting"
        /\ \E v : handler' = [handler EXCEPT ![m] = v]
    BY <1>2 DEF Distribute, TakeQuestion, ReturnEarly
  <2> QED
    BY <1>1, <2>1
<1>3. ASSUME NEW c \in Chats, Dequeue(c) PROVE ActiveServed'
  <2>1. PICK m : m = Head(queue[c])
    OBVIOUS
  <2>2. queue[c] \in Seq(Messages) /\ queue[c] # <<>>
    BY <1>3 DEF TypeOK, Dequeue
  <2>3. m \in Messages /\ m \in Elements(queue[c])
    BY <2>1, <2>2, Taken
  <2>4. handler[m] # "waiting"
    BY <2>3 DEF QueuesOK
  <2> QED
    BY <1>1, <1>3, <2>1, <2>3, <2>4 DEF Dequeue
<1>4. ASSUME NEW m \in Messages, Submit(m) PROVE ActiveServed'
  BY <1>4 DEF Submit, TypeOK, ActiveServed
<1>5. ASSUME NEW m \in Messages, HandlerReturns(m) PROVE ActiveServed'
  BY <1>5 DEF HandlerReturns, TypeOK, ActiveServed
<1>6. ASSUME UNCHANGED <<handler, active>> PROVE ActiveServed'
  BY <1>6 DEF ActiveServed
<1>7. \/ \E m \in Messages : \/ Distribute(m) \/ TakeQuestion(m) \/ ReturnEarly(m)
                             \/ Submit(m) \/ HandlerReturns(m)
      \/ \E c \in Chats : Dequeue(c)
      \/ UNCHANGED <<handler, active>>
  BY DEF Next, vars, questionVars, RunEnds, Ask, PickUp, SendQuestion, KeepResponder,
         Request, SendButtons, Expires, Decides, Press, SendVerdict, Edit
<1> QED
  BY <1>2, <1>3, <1>4, <1>5, <1>6, <1>7

-----------------------------------------------------------------------------
(* The inductive invariant of the conversations.                           *)
THEOREM ChatInvariant == Spec => []ChatInv
<1>1. ChatInv /\ [Next]_vars => ChatInv'
  BY KeepsChatTypes, KeepsQueues, KeepsPlaces, KeepsActive DEF ChatInv, QueuesInv
<1> QED
  BY <1>1, ChatInit, PTL DEF Spec

(* A question without a reply has one place, the others none.              *)
LEMMA OnePlace ==
  ASSUME ChatInv, NEW q \in Questions
  PROVE  IF reply[q] = "waiting" THEN Cardinality(Places(q)) = 1 ELSE Places(q) = {}
<1> DEFINE C == {<<"channel", i>> : i \in {i \in DOMAIN channel : channel[i] = q}}
           P == {<<"chat", c>> : c \in {c \in Chats : pending[c] = q}}
           F == IF forward = None THEN {} ELSE {<<"forwarder", x>> : x \in {forward[1]} \cap {q}}
<1>1. Places(q) = C \cup P \cup F
  BY DEF Places
<1>2. q # None /\ PlacesOK
  BY PlacesHold DEF ChatInv
<1>3. q \notin Elements(channel) => C = {}
  BY DEF Elements
<1>4. q \notin Kept => P = {}
  BY <1>2 DEF Kept
<1>5. q \notin Forwarded => F = {}
  BY DEF Forwarded
<1>6. CASE reply[q] # "waiting"
  BY <1>1, <1>2, <1>3, <1>4, <1>5, <1>6 DEF PlacesOK
<1>7. ASSUME reply[q] = "waiting" PROVE \E x : Places(q) = {x}
  <2>1. CASE q \in Elements(channel)
    <3>1. PICK i \in DOMAIN channel : channel[i] = q
      BY <2>1 DEF Elements
    <3>2. {j \in DOMAIN channel : channel[j] = q} = {i}
      BY <1>2, <3>1 DEF PlacesOK, Once
    <3>3. C = {<<"channel", i>>}
      BY <3>2
    <3> QED
      BY <1>1, <1>2, <1>4, <1>5, <2>1, <3>3 DEF PlacesOK
  <2>2. CASE q \in Kept
    <3>1. PICK c \in Chats : pending[c] = q
      BY <2>2 DEF Kept
    <3>2. {d \in Chats : pending[d] = q} = {c}
      BY <1>2, <3>1 DEF PlacesOK
    <3>3. P = {<<"chat", c>>}
      BY <3>2
    <3> QED
      BY <1>1, <1>2, <1>3, <1>5, <2>2, <3>3 DEF PlacesOK
  <2>3. CASE q \in Forwarded
    <3>1. forward # None /\ forward[1] = q
      BY <2>3 DEF Forwarded
    <3>2. F = {<<"forwarder", q>>}
      BY <3>1
    <3> QED
      BY <1>1, <1>2, <1>3, <1>4, <2>3, <3>2 DEF PlacesOK
  <2> QED
    BY <1>2, <1>7, <2>1, <2>2, <2>3 DEF PlacesOK
<1> QED
  BY <1>6, <1>7, FS_Singleton

(* ask_user waits without a timeout (ask_user.rs), and its responder is    *)
(* moved by four tasks: it is never lost and never at two places, and the  *)
(* active chat is one whose handler waits.                                 *)
THEOREM TelegramQuestionsKept == Spec => []QuestionsKept
<1>1. ChatInv => QuestionsKept
  BY OnePlace DEF ChatInv, QuestionsKept, ActiveServed
<1> QED
  BY <1>1, ChatInvariant, PTL

(* "so we don't get two concurrent agent processes corrupting the same     *)
(* conversation history" (telegram.rs:101): but for texts that answer a    *)
(* question, a chat has one handler at work.                               *)
THEOREM TelegramOneAtATime == Spec => []OneAtATime
<1>1. ChatInv => OneAtATime
  BY DEF ChatInv, BypassOK, TurnsOK, OneAtATime
<1> QED
  BY <1>1, ChatInvariant, PTL
=============================================================================
