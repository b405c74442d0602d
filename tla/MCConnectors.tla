---------------------------- MODULE MCConnectors ----------------------------
(* The two interactive connectors, explored one at a time.                  *)
(* Telegram: a chat with a request, a voice message and a text, a second    *)
(* chat with a photo; the first request asks two questions, as two nodes of *)
(* a workflow may; an approval with a press of each button.                 *)
(* CLI: two requests; each asks for an approval, the first also a question. *)
EXTENDS TelegramChat, Cli, TLC

CONSTANTS home, away, m1, m2, m3, n1, q1, q2, s1, yes, no, r1, r2, w1, w2, w3

VARIABLE part  \* the connector that moves

MCChat == (m1 :> home) @@ (m2 :> home) @@ (m3 :> home) @@ (n1 :> away)
MCKind == (m1 :> "text") @@ (m2 :> "voice") @@ (m3 :> "text") @@ (n1 :> "photo")
MCAsker == (q1 :> m1) @@ (q2 :> m1)
MCButton == (yes :> <<s1, TRUE>>) @@ (no :> <<s1, FALSE>>)
MCIsApproval == (w1 :> TRUE) @@ (w2 :> TRUE) @@ (w3 :> FALSE)
MCAskedBy == (w1 :> r1) @@ (w2 :> r2) @@ (w3 :> r1)

(* Questions and approvals of Telegram share no variable.                   *)
ChatApart == \/ \A m \in Messages : handler[m] = "unsent"
             \/ \A s \in Approvals : approval[s] = "idle"

(* The forms and lists are explored beside one request that only expires,   *)
(* and the panel of events beside none: they share no state with the runs.  *)
Plain == left.visible /\ right.visible /\ input \in {"", "text"} /\ ~quit
NoList == /\ form = "closed" /\ selector = -1 /\ login = "none" /\ ~left.focused
          /\ configured = Models /\ current = 0
NoEvents == observed = 0 /\ ~right.focused /\ expanded = {}
NoRuns == \A r \in Requests : agent[r] = "none" /\ (r # r1 => task[r] = "none")
OneAsks == (outcome[w3] = "none" /\ expired = {}) \/ agent[r2] = "none"
ScreenApart == \/ NoList /\ NoEvents /\ Plain /\ OneAsks
               \/ NoRuns /\ NoEvents /\ Plain
               \/ NoRuns /\ NoList /\ task[r1] = "none"

MCInit == Init /\ InitScreen /\ part \in {"telegram", "cli"}
MCNext ==
  /\ \/ part = "telegram" /\ Next /\ ChatApart' /\ UNCHANGED screenVars
     \/ part = "cli" /\ NextScreen /\ ScreenApart' /\ UNCHANGED vars
  /\ UNCHANGED part

MCSpec == MCInit /\ [][MCNext]_<<part, vars, screenVars>> /\ Fairness /\ ScreenFairness
=============================================================================
