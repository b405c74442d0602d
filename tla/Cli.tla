-------------------------------- MODULE Cli --------------------------------
(***************************************************************************)
(* The terminal interface (src/connectors/cli): one event loop that takes  *)
(* key presses, stream events of the agents at work, approval requests and *)
(* questions, one at a time, and the state of the screen (App).            *)
(*                                                                         *)
(* A key goes to the innermost layer that is open: the approval dialog,    *)
(* the question, the form that adds a model, the model selector, the       *)
(* focused panel, the chat.  A request is a task that submits the message  *)
(* and waits for the answer; the agent's run behind it sends its stream    *)
(* events to the loop whether or not the task still waits.                 *)
(***************************************************************************)
EXTENDS Integers, Sequences, FiniteSets

CONSTANTS Requests,    \* messages the user sends
          Waits,       \* calls of request_approval and of ask_user
          IsApproval,  \* IsApproval[w]: w asks for an approval
          AskedBy,     \* AskedBy[w]: the request whose agent asks w
          Models,      \* models configured at the start (a number)
          MaxModels,   \* bound: models at most
          MaxEvents,   \* MAX_OBSERVABILITY_ENTRIES
          MaxStream,   \* bound: stream events not yet handled
          Nobody

ASSUME CliAssumption ==
  /\ IsApproval \in [Waits -> BOOLEAN]
  /\ AskedBy \in [Waits -> Requests]
  /\ Models \in Nat \ {0} /\ MaxModels \in Nat /\ Models <= MaxModels
  /\ MaxEvents \in Nat \ {0} /\ MaxStream \in Nat
  /\ Nobody \notin Requests \cup Waits

VARIABLES
  \* requests and their runs
  task,        \* task[r]: "none", "waiting", "aborted" or "gone"
  agent,       \* agent[r]: "none", "running", "over" or "failed"
  agentTask,   \* the request Esc aborts, or Nobody
  processing,  \* is_processing
  stream,      \* stream_rx: <<request or Nobody (a login), kind>>
  expired,     \* requests whose task gave up
  login,       \* the background login: "none", "open", "over" or "failed"
  \* approvals and questions
  asked,       \* approval_rx and ask_user_rx, oldest first
  shown,       \* shown[b]: pending_approval (b) and pending_question (~b)
  choice,      \* approval_selected
  outcome,     \* outcome[w]: "none", "waiting", "yes", "no", "closed"
  \* the input line
  input,       \* "", "text", "/clear" or "/quit"
  quit,        \* should_quit
  \* layers
  form,        \* "closed" or the step of the form
  provider,    \* provider_index
  selector,    \* model_selector_index, or -1 when closed
  left,        \* the left panel: visible, focused, section, index
  right,       \* the right panel: visible, focused, selected
  observed,    \* number of right_panel_events
  expanded,    \* right_panel_expanded
  available,   \* length of available_models
  configured,  \* length of the provider manager's list
  current      \* index of current_model_id in it

requestVars == <<task, agent, agentTask, processing, stream, expired, login>>
waitVars == <<asked, shown, choice, outcome>>
panelVars == <<left, right, observed, expanded>>
modelVars == <<form, provider, selector, available, configured, current>>
inputVars == <<input, quit>>
screenVars == <<requestVars, waitVars, panelVars, modelVars, inputVars>>

Steps == <<"provider", "model", "name", "url", "key", "env">>
Sections == <<"models", "files", "subagents">>
Keys == {"Enter", "Esc", "Up", "Down", "Left", "Right", "Tab", "BackTab", "F1", "F2",
         "CtrlM", "y", "n", "q"}

InitScreen ==
  /\ task = [r \in Requests |-> "none"] /\ agent = [r \in Requests |-> "none"]
  /\ agentTask = Nobody /\ processing = FALSE /\ stream = <<>>
  /\ expired = {} /\ login = "none"
  /\ asked = <<>> /\ shown = [b \in BOOLEAN |-> Nobody] /\ choice = TRUE
  /\ outcome = [w \in Waits |-> "none"]
  /\ input = "" /\ quit = FALSE
  /\ form = "closed" /\ provider = 0 /\ selector = -1
  /\ left = [visible |-> TRUE, focused |-> FALSE, section |-> 1, index |-> 0]
  /\ right = [visible |-> TRUE, focused |-> FALSE, selected |-> 0]
  /\ observed = 0 /\ expanded = {}
  /\ available = Models /\ configured = Models /\ current = 0

-----------------------------------------------------------------------------
(* handle_event: which layer a key goes to.  F1 and F2 pass the dialogs.   *)
PassesDialogs(k) == k \in {"F1", "F2"}

Layer(k) ==
  IF shown[TRUE] # Nobody /\ ~PassesDialogs(k) THEN "approval"
  ELSE IF shown[FALSE] # Nobody /\ ~PassesDialogs(k) THEN "question"
  ELSE IF form # "closed" THEN "form"
  ELSE IF selector # -1 THEN "selector"
  ELSE IF left.focused /\ left.visible THEN "left"
  ELSE IF right.focused /\ right.visible THEN "right"
  ELSE "chat"

(* A responder that is dropped tells the asker that the channel is closed. *)
Drop(w) == IF w = Nobody THEN outcome ELSE [outcome EXCEPT ![w] = "closed"]

-----------------------------------------------------------------------------
(* The approval dialog: arrows move the choice, Enter takes it; y, n, Esc. *)
Decide(w, yes) ==
  /\ outcome' = [outcome EXCEPT ![w] = IF yes THEN "yes" ELSE "no"]
  /\ shown' = [shown EXCEPT ![TRUE] = Nobody]

ApprovalKey(k) ==
  /\ Layer(k) = "approval"
  /\ \/ k \in {"Left", "Right"} /\ choice' = ~choice /\ UNCHANGED <<shown, outcome>>
     \/ k = "Enter" /\ Decide(shown[TRUE], choice) /\ UNCHANGED choice
     \/ k = "y" /\ Decide(shown[TRUE], TRUE) /\ UNCHANGED choice
     \/ k \in {"n", "Esc"} /\ Decide(shown[TRUE], FALSE) /\ UNCHANGED choice
  /\ UNCHANGED <<asked, requestVars, panelVars, modelVars, inputVars>>

(* The question: Enter sends the input line unless it is blank, Esc says   *)
(* "[cancelled by user]"; any other key edits the line.                    *)
QuestionKey(k) ==
  /\ Layer(k) = "question"
  /\ \/ k = "Enter" /\ input # "" /\ input' = ""
        /\ outcome' = [outcome EXCEPT ![shown[FALSE]] = "yes"]
        /\ shown' = [shown EXCEPT ![FALSE] = Nobody]
     \/ k = "Esc" /\ UNCHANGED input
        /\ outcome' = [outcome EXCEPT ![shown[FALSE]] = "no"]
        /\ shown' = [shown EXCEPT ![FALSE] = Nobody]
  /\ UNCHANGED <<asked, choice, quit, requestVars, panelVars, modelVars>>

(* Typing: what the line holds matters only to Enter.                      *)
Type(text) ==
  /\ Layer("text") \in {"question", "chat"} /\ input = ""
  /\ input' = text
  /\ UNCHANGED <<quit, requestVars, waitVars, panelVars, modelVars>>

-----------------------------------------------------------------------------
(* AddModel: the entry is added to the provider manager and to the list on *)
(* the screen.  The OAuth provider starts a login in the background unless *)
(* there are tokens; a second login finds its port taken.                  *)
AddModel ==
  /\ configured < MaxModels
  /\ configured' = configured + 1 /\ available' = available + 1
  /\ form' = "closed" /\ provider' = 0
  /\ UNCHANGED <<login, stream>>

StartLogin ==
  /\ form' = "closed" /\ provider' = 0
  /\ CASE login \in {"none", "failed"} -> login' = "open" /\ UNCHANGED stream
       [] login = "open" -> /\ Len(stream) < MaxStream
                            /\ stream' = Append(stream, <<Nobody, "error">>)
                            /\ UNCHANGED login
       [] OTHER -> UNCHANGED <<login, stream>>
  /\ UNCHANGED <<configured, available>>

(* handle_add_model_form: a step per field; a blank id or variable name is *)
(* not accepted, a blank key submits at once.                              *)
GoTo(step) ==
  /\ form' = step /\ provider' = IF step = "closed" THEN 0 ELSE provider
  /\ UNCHANGED <<configured, available, login, stream>>

FormKey(k) ==
  /\ Layer(k) = "form"
  /\ \/ k = "Esc" /\ GoTo("closed")
     \/ /\ form = "provider" /\ k = "Up" /\ provider > 0
        /\ provider' = provider - 1 /\ UNCHANGED <<form, configured, available, login, stream>>
     \/ /\ form = "provider" /\ k = "Down" /\ provider < 2
        /\ provider' = provider + 1 /\ UNCHANGED <<form, configured, available, login, stream>>
     \/ k = "Enter" /\ form = "provider" /\ provider = 2 /\ StartLogin
     \/ k = "Enter" /\ form = "provider" /\ provider # 2 /\ GoTo("model")
     \/ k = "Enter" /\ (\E i \in 2 .. 5 : form = Steps[i] /\ GoTo(Steps[i + 1]))
     \/ k = "Enter" /\ form \in {"key", "env"} /\ AddModel
  /\ UNCHANGED <<task, agent, agentTask, processing, expired,
                 selector, current, waitVars, panelVars, inputVars>>

OpenForm == form' = "provider" /\ provider' = 0

(* SwitchModel may fail in the provider manager.                           *)
SwitchTo(i) == current' \in {i, current}

(* The selector lists the models and "Add model" after them.               *)
SelectorKey(k) ==
  /\ Layer(k) = "selector"
  /\ \/ /\ k = "Esc" /\ selector' = -1 /\ UNCHANGED <<form, provider, current>>
     \/ /\ k = "Up" /\ selector > 0 /\ selector' = selector - 1
        /\ UNCHANGED <<form, provider, current>>
     \/ /\ k = "Down" /\ selector + 1 < available + 1 /\ selector' = selector + 1
        /\ UNCHANGED <<form, provider, current>>
     \/ /\ k = "Enter" /\ selector = available
        /\ selector' = -1 /\ OpenForm /\ UNCHANGED current
     \/ /\ k = "Enter" /\ selector # available
        /\ selector' = -1 /\ SwitchTo(selector) /\ UNCHANGED <<form, provider>>
  /\ UNCHANGED <<available, configured, requestVars, waitVars, panelVars, inputVars>>

OpenSelector ==
  /\ Layer("CtrlM") = "chat" /\ ~processing
  /\ selector' = current
  /\ UNCHANGED <<form, provider, available, configured, current,
                 requestVars, waitVars, panelVars, inputVars>>

-----------------------------------------------------------------------------
(* The left panel: models and "Add model", system files, sub-agents.       *)
SectionLen == IF Sections[left.section] = "models" THEN available + 1 ELSE 1

Turn(d) == [left EXCEPT !.section = ((left.section - 1 + d) % 3) + 1, !.index = 0]

LeftPanelKey(k) ==
  /\ Layer(k) = "left"
  /\ \/ /\ k = "Up" /\ left.index > 0
        /\ left' = [left EXCEPT !.index = @ - 1]
        /\ UNCHANGED <<form, provider, current, quit>>
     \/ /\ k = "Down" /\ left.index < SectionLen - 1
        /\ left' = [left EXCEPT !.index = @ + 1]
        /\ UNCHANGED <<form, provider, current, quit>>
     \/ k = "Tab" /\ left' = Turn(1) /\ UNCHANGED <<form, provider, current, quit>>
     \/ k = "BackTab" /\ left' = Turn(2) /\ UNCHANGED <<form, provider, current, quit>>
     \/ /\ k \in {"Right", "Esc", "F1"} /\ left' = [left EXCEPT !.focused = FALSE]
        /\ UNCHANGED <<form, provider, current, quit>>
     \/ /\ k = "Enter" /\ Sections[left.section] = "models" /\ left.index = available
        /\ left' = [left EXCEPT !.focused = FALSE] /\ OpenForm
        /\ UNCHANGED <<current, quit>>
     \/ /\ k = "Enter" /\ Sections[left.section] = "models" /\ left.index < available
        /\ SwitchTo(left.index) /\ UNCHANGED <<left, form, provider, quit>>
     \/ k = "q" /\ ~processing /\ quit' = TRUE /\ UNCHANGED <<left, form, provider, current>>
  /\ UNCHANGED <<selector, available, configured, right, observed, expanded, input,
                 requestVars, waitVars>>

(* The right panel: a selected entry is expanded and collapsed by index.   *)
LastEntry == IF observed = 0 THEN 0 ELSE observed - 1

RightPanelKey(k) ==
  /\ Layer(k) = "right"
  /\ \/ /\ k = "Up" /\ right.selected > 0
        /\ right' = [right EXCEPT !.selected = @ - 1] /\ UNCHANGED expanded
     \/ /\ k = "Down" /\ right.selected < LastEntry
        /\ right' = [right EXCEPT !.selected = @ + 1] /\ UNCHANGED expanded
     \/ /\ k = "Enter" /\ UNCHANGED right
        /\ expanded' = IF right.selected \in expanded THEN expanded \ {right.selected}
                                                      ELSE expanded \cup {right.selected}
     \/ /\ k \in {"Left", "Esc", "F2"}
        /\ right' = [right EXCEPT !.focused = FALSE] /\ UNCHANGED expanded
  /\ UNCHANGED <<left, observed, requestVars, waitVars, modelVars, inputVars>>

(* F1, F2 and the arrows give a panel the focus, in the chat.              *)
PanelKey(k) ==
  /\ Layer(k) = "chat"
  /\ \/ /\ k = "Left" /\ left.visible /\ ~left.focused
        /\ left' = [left EXCEPT !.focused = TRUE]
        /\ right' = [right EXCEPT !.focused = FALSE]
     \/ /\ k = "F1"
        /\ left' = [left EXCEPT !.visible = ~@, !.focused = ~left.visible]
        /\ UNCHANGED right
     \/ /\ k = "F2" /\ UNCHANGED left
        /\ right' = IF right.focused
                      THEN [right EXCEPT !.focused = FALSE, !.visible = FALSE]
                      ELSE [visible |-> TRUE, focused |-> TRUE, selected |-> LastEntry]
     \/ /\ k = "Right" /\ right.visible /\ ~right.focused /\ ~left.focused
        /\ right' = [right EXCEPT !.focused = TRUE, !.selected = LastEntry]
        /\ UNCHANGED left
  /\ UNCHANGED <<observed, expanded, requestVars, waitVars, modelVars, inputVars>>

(* handle_domain_event: the oldest entry goes when there are too many; the *)
(* indices of the expanded and the selected entry stay as they are.        *)
DomainEvent ==
  /\ observed' = IF observed < MaxEvents THEN observed + 1 ELSE MaxEvents
  /\ UNCHANGED <<left, right, expanded, requestVars, waitVars, modelVars, inputVars>>

-----------------------------------------------------------------------------
(* Enter in the chat empties the line; a command is carried out, a message *)
(* is sent, unless one is being processed: then the line is lost.          *)
Send(r) ==
  /\ task[r] = "none" /\ ~processing
  /\ task' = [task EXCEPT ![r] = "waiting"]
  /\ agentTask' = r /\ processing' = TRUE
  /\ UNCHANGED <<agent, stream, expired, login>>

HandleCommand == quit' = (quit \/ input = "/quit")

EnterKey ==
  /\ Layer("Enter") = "chat" /\ input # ""
  /\ input' = ""
  /\ HandleCommand
  /\ \/ input = "text" /\ (\E r \in Requests : Send(r))
     \/ (input # "text" \/ processing) /\ UNCHANGED requestVars
  /\ UNCHANGED <<waitVars, panelVars, modelVars>>

(* Esc while a request is processed: the task is aborted, an approval on   *)
(* the screen is dropped.  Nothing reaches the agent.                      *)
Interrupt ==
  /\ Layer("Esc") = "chat" /\ processing
  /\ task' = IF agentTask = Nobody THEN task ELSE [task EXCEPT ![agentTask] = "aborted"]
  /\ agentTask' = Nobody /\ processing' = FALSE
  /\ outcome' = Drop(shown[TRUE])
  /\ shown' = [shown EXCEPT ![TRUE] = Nobody]
  /\ UNCHANGED <<agent, stream, expired, login, asked, choice,
                 panelVars, modelVars, inputVars>>

-----------------------------------------------------------------------------
(* The task submits the message; it ends with the answer, whatever it is,  *)
(* or with an error after 600 s, which it sends to the loop.               *)
SubmitMessage(r) ==
  /\ task[r] = "waiting" /\ agent[r] = "none"
  /\ agent' = [agent EXCEPT ![r] = "running"]
  /\ UNCHANGED <<task, agentTask, processing, stream, expired, login,
                 waitVars, panelVars, modelVars, inputVars>>

TaskEnds(r) ==
  /\ task[r] = "waiting" /\ agent[r] \in {"over", "failed"}
  /\ task' = [task EXCEPT ![r] = "gone"]
  /\ UNCHANGED <<agent, agentTask, processing, stream, expired, login,
                 waitVars, panelVars, modelVars, inputVars>>

\* Mutant: a task that gives up tells the loop nothing.
TaskFailsSilently(r) ==
  /\ task[r] = "waiting" /\ agent[r] \notin {"over", "failed"}
  /\ task' = [task EXCEPT ![r] = "gone"]
  /\ expired' = expired \cup {r}
  /\ UNCHANGED <<agent, agentTask, processing, stream, login,
                 waitVars, panelVars, modelVars, inputVars>>

TaskFails(r) ==
  /\ task[r] = "waiting" /\ agent[r] \notin {"over", "failed"}
  /\ task' = [task EXCEPT ![r] = "gone"]
  /\ expired' = expired \cup {r}
  /\ stream' = Append(stream, <<r, "error">>)
  /\ UNCHANGED <<agent, agentTask, processing, login,
                 waitVars, panelVars, modelVars, inputVars>>

(* The agent behind it: tool calls and the like, "done" when it succeeds;  *)
(* an agent that fails sends no event at all (agent.rs, agent_worker.rs).  *)
Unanswered(r) == {w \in Waits : AskedBy[w] = r /\ outcome[w] = "waiting"}

RunSends(r, kind) ==
  /\ agent[r] = "running" /\ Unanswered(r) = {} /\ Len(stream) < MaxStream
  /\ stream' = Append(stream, <<r, kind>>)
  /\ agent' = IF kind = "done" THEN [agent EXCEPT ![r] = "over"] ELSE agent
  /\ UNCHANGED <<task, agentTask, processing, expired, login,
                 waitVars, panelVars, modelVars, inputVars>>

RunFails(r) ==
  /\ agent[r] = "running" /\ Unanswered(r) = {}
  /\ agent' = [agent EXCEPT ![r] = "failed"]
  /\ UNCHANGED <<task, agentTask, processing, stream, expired, login,
                 waitVars, panelVars, modelVars, inputVars>>

(* login() in the background ends with one of the same events.             *)
LoginEnds ==
  /\ login = "open" /\ Len(stream) < MaxStream
  /\ \/ login' = "over" /\ stream' = Append(stream, <<Nobody, "done">>)
     \/ login' = "failed" /\ stream' = Append(stream, <<Nobody, "error">>)
  /\ UNCHANGED <<task, agent, agentTask, processing, expired,
                 waitVars, panelVars, modelVars, inputVars>>

(* handle_stream_event.  Whoever sent it, a "done" or an error ends the    *)
(* processing, "done" also reloads the list; the rest goes to the screen.  *)
StreamEvent ==
  /\ stream # <<>>
  /\ stream' = Tail(stream)
  /\ LET kind == Head(stream)[2] IN
       /\ processing' = (processing /\ kind \notin {"done", "error"})
       /\ available' = IF kind = "done" THEN configured ELSE available
  /\ UNCHANGED <<task, agent, agentTask, expired, login, waitVars, panelVars,
                 form, provider, selector, configured, current, inputVars>>

(* request_approval and ask_user: a message with a responder, and a wait   *)
(* without a timeout.  The worker read the approval slot when the run      *)
(* began, so the run asks also after Esc or the deadline.                  *)
AgentAsks(w) ==
  /\ agent[AskedBy[w]] = "running" /\ outcome[w] = "none"
  /\ outcome' = [outcome EXCEPT ![w] = "waiting"]
  /\ asked' = Append(asked, w)
  /\ UNCHANGED <<shown, choice, requestVars, panelVars, modelVars, inputVars>>

\* Mutant: a request is shown over another one, whose responder stays.
ShowOver ==
  /\ asked # <<>>
  /\ shown' = [shown EXCEPT ![IsApproval[Head(asked)]] = Head(asked)]
  /\ asked' = Tail(asked)
  /\ choice' = (choice \/ IsApproval[Head(asked)])
  /\ UNCHANGED <<outcome, requestVars, panelVars, modelVars, inputVars>>

(* The loop shows it in the place of an earlier one, which it drops; a     *)
(* dialog starts at "Yes".                                                 *)
Show ==
  /\ asked # <<>>
  /\ LET kind == IsApproval[Head(asked)] IN
       /\ outcome' = Drop(shown[kind])
       /\ shown' = [shown EXCEPT ![kind] = Head(asked)]
       /\ choice' = (choice \/ kind)
  /\ asked' = Tail(asked)
  /\ UNCHANGED <<task, agent, agentTask, processing, stream, expired, login,
                 panelVars, modelVars, inputVars>>

-----------------------------------------------------------------------------
Key(k) ==
  \/ ApprovalKey(k) \/ QuestionKey(k) \/ FormKey(k) \/ SelectorKey(k)
  \/ LeftPanelKey(k) \/ RightPanelKey(k) \/ PanelKey(k)

Loop ==
  \/ \E k \in Keys : Key(k)
  \/ \E text \in {"text", "/clear", "/quit"} : Type(text)
  \/ EnterKey \/ Interrupt \/ OpenSelector
  \/ DomainEvent \/ StreamEvent \/ Show

NextScreen ==
  \/ ~quit /\ Loop
  \/ LoginEnds
  \/ \E r \in Requests :
       \/ SubmitMessage(r) \/ TaskEnds(r) \/ TaskFails(r) \/ RunFails(r)
       \/ \E kind \in {"tool", "done"} : RunSends(r, kind)
  \/ \E w \in Waits : AgentAsks(w)

(* The event loop handles what its channels hold; a task submits its       *)
(* message and gives up after 600 s at the latest.                         *)
ScreenFairness ==
  /\ WF_screenVars(~quit /\ StreamEvent) /\ WF_screenVars(~quit /\ Show)
  /\ \A r \in Requests : /\ WF_screenVars(SubmitMessage(r))
                         /\ WF_screenVars(TaskEnds(r) \/ TaskFails(r))

-----------------------------------------------------------------------------
(* An agent that waits for an approval or an answer can still get one: its *)
(* request is in the channel or on the screen, and in one place only.      *)
WaitersOnScreen ==
  \A w \in Waits : outcome[w] = "waiting" =>
      Cardinality({i \in DOMAIN asked : asked[i] = w})
    + Cardinality({b \in BOOLEAN : shown[b] = w}) = 1

(* As long as no request was interrupted or expired and no login ran       *)
(* beside them, a request whose agent is at work is shown as processed: a  *)
(* second one cannot start, and Esc interrupts.                            *)
Shows ==
  (/\ login = "none" /\ expired = {}
   /\ \A r \in Requests : task[r] # "aborted" /\ agent[r] # "failed")
    => \A r \in Requests : (task[r] = "waiting" /\ agent[r] = "running")
                            => processing /\ agentTask = r

(* The spinner tells the truth.  It turns while an agent works, as above;  *)
(* and it ends with the answer, the 600 s or Esc: only an agent that fails *)
(* may leave it turning, for it sends nothing to the screen.               *)
SpinnerIsTrue ==
  /\ []Shows
  /\ processing ~> (~processing \/ quit \/ \E r \in Requests : agent[r] = "failed")
=============================================================================
