---------------------------- MODULE TelegramChat ----------------------------
(***************************************************************************)
(* The Telegram connector (src/connectors/telegram.rs): the distribution   *)
(* of updates to per-chat queues, the message handler, the forwarder of    *)
(* the agent's questions (tools/ask_user.rs) and the approval buttons.     *)
(*                                                                         *)
(* teloxide handles the messages of a chat one after the other, except     *)
(* those that distribute_update lets past the queue, which run at once.    *)
(* The agent behind the connector is a run that asks questions and ends;   *)
(* it goes on when its handler has given up waiting for it.  What /model   *)
(* and /clear do belongs to ProviderManager and AgentLoop; the slot that   *)
(* a handler fills is ApprovalSlot.                                        *)
(***************************************************************************)
EXTENDS Integers, Sequences, FiniteSets

CONSTANTS Chats,      \* conversations of the bot
          Messages,   \* messages of allowed users, each sent at most once
          Chat,       \* Chat[m]: where m was sent
          Kind,       \* Kind[m]: "text", "command", "photo" or "voice"
          Questions,  \* calls of ask_user
          Asker,      \* Asker[q]: the message whose run asks q
          Approvals,  \* calls of request_approval
          Presses,    \* button presses, each of one approval
          Button,     \* Button[p]: <<approval, the answer pressed>>
          None        \* nobody

ASSUME TelegramAssumption ==
  /\ Chat \in [Messages -> Chats]
  /\ Kind \in [Messages -> {"text", "command", "photo", "voice"}]
  /\ Asker \in [Questions -> Messages]
  /\ Button \in [Presses -> Approvals \X BOOLEAN]
  /\ None \notin Chats \cup Messages \cup Questions \cup (Questions \X Chats \X BOOLEAN)

VARIABLES
  queue,     \* queue[c]: messages that wait for the chat's worker
  handler,   \* handler[m]: "unsent", "queued", "started", "building",
             \* "waiting" (in submit_and_wait) or "done"
  bypass,    \* messages that went past the queue
  run,       \* run[m]: "none", "running" or "over"
  active,    \* ActiveChat: where questions go
  channel,   \* the ask_user channel
  forward,   \* <<question, chat, sent>> in the forwarder's hands, or None
  pending,   \* PENDING_QUESTIONS[c]: the question whose responder is kept
  reply,     \* reply[q]: "none", "waiting", "error", "cancelled", "media" or
             \* "answered"
  approval,  \* approval[a]: "idle", "sending", "asking", "granted", "refused"
  entries,   \* PENDING_APPROVALS
  press,     \* press[p]: "idle"; "taken" (entry removed, tx.send not yet
             \* called), "sent" (message not yet edited), "decided"; or
             \* "missing" (no entry, message not yet edited), "expired"
  verdict,   \* verdict[a]: what was sent to the waiting request, or None
  label      \* label[a]: the status the message of a shows: "none" (the
             \* buttons), "approved", "rejected" or "expired"

questionVars == <<queue, handler, bypass, run, active, channel, forward, pending, reply>>
approvalVars == <<approval, entries, press, verdict, label>>
vars == <<queue, handler, bypass, run, active, channel, forward, pending, reply,
          approval, entries, press, verdict, label>>

IsText(m) == Kind[m] \notin {"photo", "voice"}
Busy(c) == \E m \in Messages \ bypass :
             Chat[m] = c /\ handler[m] \in {"started", "building", "waiting"}

Init ==
  /\ queue = [c \in Chats |-> <<>>]
  /\ handler = [m \in Messages |-> "unsent"]
  /\ bypass = {}
  /\ run = [m \in Messages |-> "none"]
  /\ active = None
  /\ channel = <<>>
  /\ forward = None
  /\ pending = [c \in Chats |-> None]
  /\ reply = [q \in Questions |-> "none"]
  /\ approval = [a \in Approvals |-> "idle"]
  /\ entries = {}
  /\ press = [p \in Presses |-> "idle"]
  /\ verdict = [a \in Approvals |-> None]
  /\ label = [a \in Approvals |-> "none"]

-----------------------------------------------------------------------------
\* Mutant: media go past the queue too.
LetsAnyPast(m) == pending[Chat[m]] # None

(* distribute_update: a text goes past the queue while a question is       *)
(* pending; media cancel the question and queue all the same.              *)
LetsPast(m) == pending[Chat[m]] # None /\ IsText(m)

Cancel(c, why) ==
  /\ pending' = [pending EXCEPT ![c] = None]
  /\ reply' = IF pending[c] = None THEN reply
              ELSE [reply EXCEPT ![pending[c]] = why]

Distribute(m) ==
  /\ handler[m] = "unsent"
  /\ IF LetsPast(m)
       THEN /\ bypass' = bypass \cup {m}
            /\ handler' = [handler EXCEPT ![m] = "started"]
            /\ UNCHANGED <<queue, pending, reply>>
       ELSE /\ queue' = [queue EXCEPT ![Chat[m]] = Append(@, m)]
            /\ handler' = [handler EXCEPT ![m] = "queued"]
            /\ IF IsText(m) THEN UNCHANGED <<pending, reply>>
                            ELSE Cancel(Chat[m], "media")
            /\ UNCHANGED bypass
  /\ UNCHANGED <<run, active, channel, forward, approvalVars>>

(* The chat's worker takes its next message.                               *)
Dequeue(c) ==
  /\ ~Busy(c) /\ queue[c] # <<>>
  /\ handler' = [handler EXCEPT ![Head(queue[c])] = "started"]
  /\ queue' = [queue EXCEPT ![c] = Tail(@)]
  /\ UNCHANGED <<bypass, run, active, channel, forward, pending, reply, approvalVars>>

(* gpt_handler first takes the question of its chat: a text is the answer  *)
(* and nothing else; media cancel it and go on.                            *)
TakeQuestion(m) ==
  LET answers == pending[Chat[m]] # None /\ IsText(m) IN
  /\ handler[m] = "started"
  /\ Cancel(Chat[m], IF IsText(m) THEN "answered" ELSE "media")
  /\ handler' = [handler EXCEPT ![m] = IF answers THEN "done" ELSE "building"]
  /\ UNCHANGED <<queue, bypass, run, active, channel, forward, approvalVars>>

(* A command is carried out, a download or a transcription fails, or the   *)
(* message is of an unsupported type: the handler returns.                 *)
ReturnEarly(m) ==
  /\ handler[m] = "building" /\ Kind[m] # "text"
  /\ handler' = [handler EXCEPT ![m] = "done"]
  /\ UNCHANGED <<queue, bypass, run, active, channel, forward, pending, reply, approvalVars>>

(* The chat becomes the active one and the request is submitted.           *)
Submit(m) ==
  /\ handler[m] = "building" /\ Kind[m] # "command"
  /\ active' = Chat[m]
  /\ handler' = [handler EXCEPT ![m] = "waiting"]
  /\ run' = [run EXCEPT ![m] = "running"]
  /\ UNCHANGED <<queue, bypass, channel, forward, pending, reply, approvalVars>>

\* Mutant: the handler waits for the run without a deadline.
ReturnsWhenOver(m) ==
  /\ handler[m] = "waiting" /\ run[m] = "over"
  /\ active' = IF active = Chat[m] THEN None ELSE active
  /\ handler' = [handler EXCEPT ![m] = "done"]
  /\ UNCHANGED <<queue, bypass, run, channel, forward, pending, reply, approvalVars>>

(* submit_and_wait returns with the answer, fails, or times out while the  *)
(* run goes on.  A handler that is not the owner leaves the chat active.   *)
HandlerReturns(m) ==
  /\ handler[m] = "waiting"
  /\ active' = IF active = Chat[m] THEN None ELSE active
  /\ handler' = [handler EXCEPT ![m] = "done"]
  /\ UNCHANGED <<queue, bypass, run, channel, forward, pending, reply, approvalVars>>

RunEnds(m) ==
  /\ run[m] = "running"
  /\ \A q \in Questions : Asker[q] = m => reply[q] # "waiting"
  /\ run' = [run EXCEPT ![m] = "over"]
  /\ UNCHANGED <<queue, handler, bypass, active, channel, forward, pending, reply, approvalVars>>

-----------------------------------------------------------------------------
(* AskUserTool::execute: the question goes into the channel; the tool      *)
(* waits for its responder without a timeout.                              *)
Ask(q) ==
  /\ run[Asker[q]] = "running" /\ reply[q] = "none"
  /\ reply' = [reply EXCEPT ![q] = "waiting"]
  /\ channel' = Append(channel, q)
  /\ UNCHANGED <<queue, handler, bypass, run, active, forward, pending, approvalVars>>

(* ask_user_forwarder reads the active chat once, then sends the question  *)
(* there and keeps its responder, in three steps.                          *)
PickUp ==
  /\ forward = None /\ channel # <<>>
  /\ channel' = Tail(channel)
  /\ IF active = None
       THEN reply' = [reply EXCEPT ![Head(channel)] = "error"] /\ UNCHANGED forward
       ELSE forward' = <<Head(channel), active, FALSE>> /\ UNCHANGED reply
  /\ UNCHANGED <<queue, handler, bypass, run, active, pending, approvalVars>>

SendQuestion ==
  /\ forward # None /\ ~forward[3]
  /\ \/ forward' = <<forward[1], forward[2], TRUE>> /\ UNCHANGED reply
     \/ forward' = None /\ reply' = [reply EXCEPT ![forward[1]] = "error"]
  /\ UNCHANGED <<queue, handler, bypass, run, active, channel, pending, approvalVars>>

\* Mutant: a responder that replaces another leaves it alive elsewhere.
KeepBoth ==
  /\ forward # None /\ forward[3]
  /\ pending' = [pending EXCEPT ![forward[2]] = forward[1]]
  /\ forward' = None
  /\ UNCHANGED <<queue, handler, bypass, run, active, channel, reply, approvalVars>>

(* insert() drops the responder of an earlier question to the same chat.   *)
KeepResponder ==
  /\ forward # None /\ forward[3]
  /\ LET q == forward[1]  c == forward[2] IN
       /\ pending' = [pending EXCEPT ![c] = q]
       /\ reply' = IF pending[c] = None THEN reply
                   ELSE [reply EXCEPT ![pending[c]] = "cancelled"]
  /\ forward' = None
  /\ UNCHANGED <<queue, handler, bypass, run, active, channel, approvalVars>>

-----------------------------------------------------------------------------
(* request_approval registers its entry before the buttons are sent.       *)
Request(a) ==
  /\ approval[a] = "idle"
  /\ approval' = [approval EXCEPT ![a] = "sending"]
  /\ entries' = entries \cup {a}
  /\ UNCHANGED <<press, verdict, label, questionVars>>

(* The guard of a request that ends undecided removes the entry, unless    *)
(* the map is locked at that moment: then the entry stays.                 *)
DropEntry(a) == entries' \in {entries \ {a}, entries}

SendButtons(a) ==
  /\ approval[a] = "sending"
  /\ \/ approval' = [approval EXCEPT ![a] = "asking"] /\ UNCHANGED entries
     \/ approval' = [approval EXCEPT ![a] = "refused"] /\ DropEntry(a)
  /\ UNCHANGED <<press, verdict, label, questionVars>>

Expires(a) ==
  /\ approval[a] = "asking" /\ verdict[a] = None
  /\ approval' = [approval EXCEPT ![a] = "refused"]
  /\ DropEntry(a)
  /\ UNCHANGED <<press, verdict, label, questionVars>>

Decides(a) ==
  /\ approval[a] = "asking" /\ verdict[a] # None
  /\ approval' = [approval EXCEPT ![a] = IF verdict[a] THEN "granted" ELSE "refused"]
  /\ UNCHANGED <<entries, press, verdict, label, questionVars>>

\* Mutant: the entry is only looked up, and left to the request to remove.
PressKeepsEntry(p) ==
  LET a == Button[p][1] IN
  /\ press[p] = "idle" /\ approval[a] # "idle"
  /\ press' = [press EXCEPT ![p] = IF a \in entries THEN "taken" ELSE "missing"]
  /\ UNCHANGED <<entries, approval, verdict, label, questionVars>>

(* callback_handler: whoever removes the entry decides; any other press    *)
(* finds the request expired.  The message may be on the screen before     *)
(* send_message has returned, or although it failed.                       *)
Press(p) ==
  LET a == Button[p][1] IN
  /\ press[p] = "idle" /\ approval[a] # "idle"
  /\ press' = [press EXCEPT ![p] = IF a \in entries THEN "taken" ELSE "missing"]
  /\ entries' = entries \ {a}
  /\ UNCHANGED <<approval, verdict, label, questionVars>>

SendVerdict(p) ==
  /\ press[p] = "taken"
  /\ verdict' = [verdict EXCEPT ![Button[p][1]] = Button[p][2]]
  /\ press' = [press EXCEPT ![p] = "sent"]
  /\ UNCHANGED <<approval, entries, label, questionVars>>

(* Every press then edits the one message, over the status of an earlier   *)
(* one; an edit that fails goes unnoticed.                                 *)
Edit(p) ==
  LET a == Button[p][1]
      status == IF press[p] = "missing" THEN "expired"
                ELSE IF Button[p][2] THEN "approved" ELSE "rejected"
  IN
  /\ press[p] \in {"sent", "missing"}
  /\ label' \in {label, [label EXCEPT ![a] = status]}
  /\ press' = [press EXCEPT ![p] = IF @ = "sent" THEN "decided" ELSE "expired"]
  /\ UNCHANGED <<approval, entries, verdict, questionVars>>

-----------------------------------------------------------------------------
Next ==
  \/ \E m \in Messages : \/ Distribute(m) \/ TakeQuestion(m) \/ ReturnEarly(m)
                         \/ Submit(m) \/ HandlerReturns(m) \/ RunEnds(m)
  \/ \E c \in Chats : Dequeue(c)
  \/ \E q \in Questions : Ask(q)
  \/ PickUp \/ SendQuestion \/ KeepResponder
  \/ \E a \in Approvals : \/ Request(a) \/ SendButtons(a)
                          \/ Expires(a) \/ Decides(a)
  \/ \E p \in Presses : Press(p) \/ SendVerdict(p) \/ Edit(p)

Spec == Init /\ [][Next]_vars

(* A voice message is sent to a transcription service without a timeout.   *)
Transcribes(m) == handler[m] = "building" /\ Kind[m] = "voice"

(* The bot's tasks are scheduled, its calls of Telegram have a timeout     *)
(* (bot_with_timeout), and a handler that submitted gives up after 600 s.  *)
(* Nothing is assumed of the users, the agent's runs and transcriptions.   *)
Fairness ==
  /\ \A m \in Messages : /\ WF_vars(TakeQuestion(m))
                         /\ WF_vars(~Transcribes(m) /\ (ReturnEarly(m) \/ Submit(m)))
                         /\ WF_vars(HandlerReturns(m))
  /\ \A c \in Chats : WF_vars(Dequeue(c))
  /\ WF_vars(PickUp) /\ WF_vars(SendQuestion) /\ WF_vars(KeepResponder)

FairSpec == Spec /\ Fairness

-----------------------------------------------------------------------------
TypeOK ==
  /\ queue \in [Chats -> Seq(Messages)]
  /\ handler \in [Messages -> {"unsent", "queued", "started", "building", "waiting", "done"}]
  /\ run \in [Messages -> {"none", "running", "over"}]
  /\ active \in Chats \cup {None}
  /\ channel \in Seq(Questions)
  /\ pending \in [Chats -> Questions \cup {None}]
  /\ reply \in [Questions -> {"none", "waiting", "error", "cancelled", "media", "answered"}]
  /\ approval \in [Approvals -> {"idle", "sending", "asking", "granted", "refused"}]
  /\ entries \subseteq Approvals
  /\ press \in [Presses -> {"idle", "taken", "sent", "decided", "missing", "expired"}]

(* Where the responder of a question is.                                   *)
Places(q) == {<<"channel", i>> : i \in {i \in DOMAIN channel : channel[i] = q}}
             \cup {<<"chat", c>> : c \in {c \in Chats : pending[c] = q}}
             \cup (IF forward = None THEN {} ELSE
                   {<<"forwarder", x>> : x \in {forward[1]} \cap {q}})

(* ask_user waits without a timeout, so its question may never be lost: a  *)
(* question without a reply is in the channel, in the forwarder's hands or *)
(* kept for a chat, in one of the three and at one place there.  And it    *)
(* goes to a chat somebody works for: the active chat has a handler that   *)
(* waits for its run, however the handlers of several chats end.           *)
QuestionsKept ==
  /\ TypeOK
  /\ \A q \in Questions : IF reply[q] = "waiting" THEN Cardinality(Places(q)) = 1
                                             ELSE Places(q) = {}
  /\ active # None => \E m \in Messages : Chat[m] = active /\ handler[m] = "waiting"

AtWork(m) == handler[m] \in {"started", "building", "waiting"}

(* Two handlers of a chat are never at work together ("so we don't get two *)
(* concurrent agent processes corrupting the same conversation history",   *)
(* telegram.rs:101), unless one of them is a text that arrived while a     *)
(* question was pending.                                                   *)
OneAtATime ==
  \A m, n \in Messages :
    m # n /\ Chat[m] = Chat[n] /\ AtWork(m) /\ AtWork(n) =>
      \E x \in {m, n} : IsText(x) /\ x \in bypass

(* The presses that found the entry.                                       *)
Took(p) == press[p] \in {"taken", "sent", "decided"}

(* One press decides: whatever presses, deadlines and stale entries meet,  *)
(* an approval is granted only by the one press that found its entry, a    *)
(* press of "Approve", and the chat never shows it as rejected             *)
(* (callback_handler).  It may show it as expired: a later press says so.  *)
OnePressDecides ==
  \A a \in Approvals :
    LET takers == {p \in Presses : Button[p][1] = a /\ Took(p)} IN
    /\ \A p, o \in takers : p = o
    /\ approval[a] = "granted" => (\E p \in takers : Button[p][2]) /\ label[a] # "rejected"

(* Every message that the bot received is dealt with, also behind a run of *)
(* its chat that waits for ever for the answer to a question: a question   *)
(* that media cancelled, or a request that was given up, does not keep the *)
(* next message waiting.  Only a transcription that never comes back holds *)
(* its own message and those queued behind it.                             *)
MessagesAreHandled ==
  <>[](\A m \in Messages :
         \/ handler[m] \in {"unsent", "done"} \/ Transcribes(m)
         \/ handler[m] = "queued" /\ \E v \in Messages : Chat[v] = Chat[m] /\ Transcribes(v))
=============================================================================
