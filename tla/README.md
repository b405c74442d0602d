# Verification of zymi

zymi is a personal AI agent written in Rust: a CLI and a Telegram bot in front
of an agent loop that calls language models and tools, with an event store and
an event bus between the two, a workflow engine for complex tasks, a scheduler,
background tasks, a daemon with its backup, and policies and contracts that
decide which tool calls need a human.

This directory holds TLA+ models of the program, the TLC runs that check them on
small instances, and TLAPS proofs of what matters most for every size. Paths
below are relative to the repository root (`src/events/bus.rs` is listed as
`src/src/events/bus.rs` in PROJECT.json, and so on).

Contents: 1 inventory, 2 modules and how they correspond to the code, 3 runs
and bounds, 4 fairness, 5 what is proved and how, 6 what the checks found,
7 modelling decisions, 8 what is not modelled and why, 9 plan.

## 1. Inventory

A message's way through the system:

    CLI / Telegram ── EventDrivenConnector ──publish──► EventBus ──append──► event store
         ▲  ▲                  ▲                            │                (SQLite)
         │  │ approval         │ ResponseReady              │ try_send
         │  │ handler          └────────────────────────────┤
         │  ▼                                               ▼
         │ SharedApprovalHandler ◄──── read ──────── AgentWorker ──► Agent::process_stream
         └────────── StreamRegistry (tokens) ◄── take ──────┘          │      │       │
                                                          workflow engine  contracts  history table
                                                                 │         (policy)       │
                                                              mcp.json           background summary

Around it, in the daemon: the scheduler, the git backup, the MCP servers; and
the files of memory/ that survive a restart (models.json, auth.json, policy.json,
mcp.json, schedule.json, the summaries and the facts).

| component | state | operations | what is hard | what makes it correct |
|---|---|---|---|---|
| Event store (`events/store.rs`) | table `events`, one connection and its mutex per process | `append`, `read_stream`, `read_all`, `last_sequence`, `find_unmatched`, `verify_chain` | three statements per append and no transaction; failures and crashes between statements | sequence numbers of a stream increase without gaps, chains verify, an append is indivisible |
| Event bus (`events/bus.rs`) | subscriber list behind an RwLock, a bounded channel per subscriber | `publish`, `subscribe` | overlapping fan-outs, full channels, receivers that vanish, publishers that are aborted | store first, at most once, loss only by a full channel, real-time order, publishers never wait for readers |
| Event-driven connector (`events/connector.rs`) | a receiver per submit | `submit_and_wait`, `submit_and_wait_streaming` | subscribe, register, publish and wait race the answer, the deadline and Esc | the answer returned is the request's own; nothing is left behind |
| Stream registry (`events/stream_registry.rs`) | map correlation id → stream sender | `register`, `take`, `remove` | taken by the worker, removed on error by the connector | one handler at most streams to a caller; no leak |
| Agent worker (`events/agent_worker.rs`) | a receiver, a task per request | `run`, `recover_orphaned`, `handle_inbound` | crash and restart; the scan meets requests of other processes or of right now | what is picked up is answered; what is answered is not answered again |
| Approval slot (`core/approval.rs`) | one slot per process behind an RwLock | `ApprovalSlotGuard::set`, its drop, readers | deferred clear, readers that keep the lock while a human thinks, Esc while setting | no handler of a finished request stays; nobody is locked out; a question keeps its handler |
| Approval gate (`esaa/orchestrator.rs`, `esaa/contracts.rs`) | none | `process_intention`, `evaluate` | a handler that fails, is missing, or answers late | nothing that needs approval runs without one |
| Policy engine (`policy.rs`, `tools/policy.rs`) | rules, policy.json | `evaluate`, `requires_approval_for`, `manage_policy` | recursive decomposition of compound commands, quoting, depth bound; a save that crashes | the strictest fragment decides; a rule that was answered for is the rule after a restart |
| Agent loop (`core/agent.rs`) | messages, dedup cache, counters; history table | `process_stream`, `prepare_messages`, `execute_tool_call` | crash between a call and its result; the repair of the history is not a transaction | well-formed requests, no call twice, no lost user message, the loop ends |
| Conversation memory (`core/history.rs`, `core/extraction.rs`, `storage/`) | table `messages`, summary file, facts.md | `sanitize_history`, `summarize_conversation`, fact extraction and consolidation, `add_message`, `get_history`, `clear` | a repair and a background task replace the table they read some time ago, one statement at a time; the summary's model sees 8000 characters | nothing is forgotten but what is summarized or cut off; calls keep their results |
| LLM providers (`core/openai.rs`, `anthropic.rs`, `chatgpt.rs`) | what is accumulated of a stream | `convert_messages`, `chat_stream` | several results in one turn; events cut at arbitrary bytes | a request answers its calls; the answer is the model's |
| Provider manager, tokens (`core/provider_manager.rs`, `core/config.rs`, `auth/`, `setup.rs`) | list of models, provider and model id under two locks, models.json, auth.json | `switch_model`, `add_model`, login, logout, refresh | concurrent switches; saves that fail silently; refresh tokens that are valid once | the announced model answers; what was saved stays; a refresh is accepted |
| Workflow engine (`workflow/`) | plan, node results, approval | `process`, `execute`, `execution_levels`, `run_tool` | parallel nodes of a level, failing dependencies, read-modify-write of mcp.json | a node runs once, after its dependencies and only if they succeeded; the run ends |
| MCP (`mcp.rs`, `tools/mcp.rs`, `tools/manage_mcp.rs`) | mcp.json, connections, registered tools | `add`, `remove`, hot reload, start | the reload asks a server while others change it; two writers of one file | a configured server stays; its tools run on its newest connection |
| Telegram connector (`connectors/telegram.rs`, `tools/ask_user.rs`) | pending questions, pending approvals, active chat | update distribution, `gpt_handler`, `request_approval`, callbacks, question forwarder | a text while a question is open bypasses the queue; one global active chat; buttons race deadlines and each other | a reply reaches its question; one press decides an approval; every message is handled |
| CLI (`connectors/cli/`) | screen state, pending approval and question, task handle | key events, stream events, Esc, forms, lists, panels | Esc aborts the connector's task but not the run; one loop serves keys, runs and dialogs | nobody waits for a dialog that is nowhere; the screen says what the runs do |
| Scheduler (`scheduler.rs`, `tools/schedule.rs`) | schedule.json | tick, create, delete | whole-list save after running tasks; crash between run and save | an entry stays until it ran or was deleted; a one-time entry runs once |
| Background tasks (`task_registry.rs`, `tools/shell.rs`, `tools/task.rs`) | registry of tasks | spawn, run, time out, check | a shell that hangs or leaves its output open | a command is settled in the end, whatever its shell does |
| Daemon control (`daemon.rs`) | zymi.pid, the program file | `start`, `stop`, `status`, `update` | commands that overlap, pids that are used again, an update cut off | a living daemon can be found and stopped; the program is whole |
| Git sync (`git_sync.rs`) | the repository of memory/ | commit, heartbeat, push, pull | failing pushes, another machine | a change reaches the remote |
| Process start and shutdown (`main.rs`) | wiring | `build_app`, `run`, `shutdown_app` | signals, steps of shutdown that take time | inside the modules of what is started |
| Tool selector, skills, sandbox, sub-agents, planning tools, evaluation, audit log | mostly none | one-shot calls | | left out, see section 8 |

The hard-to-test behaviours, each at its line of code, are the `hazards` of
PROJECT.json, with the properties that cover them or the reason why none does.

## 2. Modules

### The core: events, approvals, agents, workflows

**EventStreams**: the events that may ever be published and the stream of each, the
conversation it is about. No variables; store, log and bus share it.

**EventLog**: what the store promises. `log[s]` is the sequence of events of
stream `s`, `AppendEvent` puts a new event at the end of its stream, in one step.
It is the trait `EventStore` as its users see it. `EventStore` implements it;
`EventBus` is built on it.

**EventStore**: `SqliteEventStore`. `rows` is the table in rowid order with the
columns the queries use; `mutex[p]` is the connection mutex of process `p`; `pc`,
`arg`, `nextSeq`, `prevHash` are the locals of each `append()` in the blocking
pool. `Call` serialises the event, `SelectNextSeq`, `SelectPrevHash` and `Insert`
are the three autocommit statements, `Fail` is an error of any of them, `Crash(p)`
ends every append of a process between any two statements. SHA-256 is an injective
constructor of its inputs. `Log == INSTANCE EventLog WITH log <- StreamLog` is the
refinement mapping: position k of a stream is the row whose sequence is k.

**EventBus**: `EventBus::publish` and `subscribe_with_capacity`. `Persist` is the
append (one step, justified by the refinement above), `LockSubscribers` takes the
read lock, `TrySend` visits one subscriber, `Return` releases the lock. Several
publishers are inside at once, so the sends interleave; `Subscribe` needs the
write lock and prunes closed senders. `Abort` is a publisher aborted while it waits
for the lock (Esc). A receiver `Recv`s whenever it likes, possibly never, and may
`Close`.

**EdaPipeline**: connector, registry, worker, store, several processes. One
variable per actor's place (`conn[r]`, `worker[p]`, `hpc[h]`), the store as counts
of the four event kinds that matter, `inbox` for channels, `registry` for stream
senders. A handler is identified by process, request and the way it was started
(recovery or live), because the program can run both for one request. A publish
is two steps, append and fan-out. `Crash(p)` empties all memory of a process;
`Start(p)` runs the worker again, which scans the store, recovers orphans one by
one, and only then subscribes. Processes share the store and nothing else. Failing
appends and scans are alternatives of the actions in which they occur.

**ApprovalSlot**: `SharedApprovalHandler`. The slot, the queue and the holders of
tokio's fair RwLock, a guard per request, the deferred clears, and the readers:
`Copy` (worker, sub-agent, background task: read, clone, release) and `Ask`/`Answer`
(the workflow engine keeps the read lock while the human decides). `DropGuard` is
`try_write` or a spawned task that queues for the lock; `Interrupt`/`AbortSetting`
is Esc while `set().await` waits.

**Messages**: the messages of a conversation and what is computed of sequences of
them: `Sanitize` (`sanitize_history`: `RetainKnown` and `RetainAnswered`, each a
`Retain` of some positions), and the requests each provider makes of a
history (`Turns` for Anthropic, message by message in `TurnsUpTo`, where a result
`Joins` the turn of the result before it; `Items` for ChatGPT; the messages
themselves for OpenAI; all in `Request`). No variables; `AgentLoop` and `Conversation` extend it.

**AgentLoop**: `Agent::process_stream`. `run[r]` is the place of a run and its
locals (messages sent to the model, tool calls still to do, iteration, reviews,
dedup cache, duplicate-only iterations); `stored` is the history table. One action
per step of the function: routing to the workflow engine, load and `Sanitize`,
`Clear` and one `Restore` per message when the history was repaired, the user
message, an answer and its review by the monitor, tool calls, for each of them
`Duplicate`, `Deny`, `Ask`, `Grant`, `Refuse`, `ApprovalFails` or `Execute`, then
`StoreResult`; `StopForMedia` when a photo or voice message took the place of an
answer; the forced conclusion; `Finalize`. `Gate[k]` says what stands between a call
and its effect: `contract` is the orchestrator (where a failing handler is a
refusal), `tool` the tool's own approval (where it ends the run with an error).
MCAgentLoop computes the gates with the verdicts of `Policy`. `LlmFails`,
`StorageFails` and `Crash` may come wherever the code can meet them.

**PlanRun**: what a workflow promises. A plan (`ids`, `edges`, and in `order` those edges that are of the kind Order) is adopted once; a
step runs at most once, after all steps it depends on completed and with the
results its Data edges name, and of no step it does not depend on (`given`); it is skipped only for a dependency that failed or was
skipped; the answer (`over`) waits until every step is settled. Levels, tasks,
retries, approvals and tools do not occur in it.

**Workflow**: `WorkflowEngine::process`, `WorkflowDag`, `DagExecutor`. `phase` is the
place of `process()`: assess, plan, approve, execute, synthesize. `Accepted` and
`Levels` are `from_plan()` and `execution_levels()`; `BeginLevel` skips the nodes of
a level with a dependency that is not completed and spawns a task for each other
one; `Join` is `join_next()`. `task[n]` is the task of a node: `Try` dispatches on
the node's kind, `Think`, `Call`, `NextIteration` are the loop of an agent node,
`Grant`, `Refuse`, `Run` are `run_tool()` with its approval, `Tried` is the end of a
try with its retries, `Panic` what `catch_unwind` catches. `ReadConfig`, `Truncate`,
`WriteConfig`, `WriteFails` are the read-modify-write of mcp.json by a connect_mcp
node, whose read may fail and count as an empty config; `forgotten` are the servers
that such a read, a failed write or a node at the same place (`Overlap`) may drop. `Kind` groups node kinds by how they run: `agent` (agent and create_tool
nodes), `direct` (tool_call), `install` (install_dep), `package` and `url`
(connect_mcp with and without an install command).
`Plan == INSTANCE PlanRun WITH ...` is the refinement mapping.

### What the program remembers

**Conversation**: the history table under repairs and the background summary.
`LoadHistory`, `RepairClear`, one `AddAgain` per message and `StoreUser` are
`prepare_messages` (a repaired history is written back a statement at a time; then
the message is stored, an extraction spawned, summary and facts loaded). `Says`, `CallTools`, `StoreResult` and `Finalize` are what a run adds;
`Finalize` spawns a summary when the table is longer than the threshold. A job `j`
goes through `ReadHistory` (with `SplitPoint`), `Summarized`, `WriteSummary`,
`ClearTable`, one `Restore` per message kept, `ReadFacts` and `Consolidate`. The model
is shown the last summary, if it can be read, and the first of the older messages
(`Covered`); the others are `cut`. Beside them `AppendFacts` and `FindsNone` end
extractions, `Forget` is `/clear`, `RunFails` an error that ends a run anywhere, also
between two steps of its repair, `Fails` a statement or a write of the background
job, `CrashMemory` the end of the process. `ever` and `learned` are what may not be
forgotten; `unread` is what was cleared, or overwritten, though no model was shown
it; `upset` and `stale` are set when a run, a second summary, a clear or a failure
came in between, which the code does not guard against (section 6).

**LlmStream**: one streamed answer. For ChatGPT a sequence of events, each a line
of which a chunk may end in the middle (`half`), with the tool call accumulated
from `added`, `args` and `args_done`; for OpenAI one sequence of deltas per call
that arrive interleaved, and are put together by index. Streams may end early or
break. `got` is what the provider returns, `shown` what the screen was sent.

**SavedFile**: a JSON file saved through a temporary one (create, fill, rename), as
operators on a record; `Torn` is a content that does not parse. Each user of it has an
action for a step that fails.

**Models**: the provider manager and the tokens. `SwitchInner` and `SwitchId` are the two
locks `switch_model` takes one after the other; `AddModel` and `Sync` save
models.json, with `Create`, `Fill` and `Rename` as steps that another save or a crash
may come between, and `SaveDrops` for a step that fails, which is logged while the
caller answers Ok; a list that cannot be read is the environment's (`Loads`).
`Refresh`, `Post`, `SaveTokens` (in place: emptied, then filled) and `Keep` are one
refresh of a token, which the server accepts once (`live`); in `Unheard` its answer is
not received or the call is cancelled, in `Unkept` it is not saved or not kept (`lost`).
`Login`, `Logout`, `HasModel`, and `RestartModels`, a crash with the next start.

**Policy**: `evaluate()` as operators on commands of tokens: `Split` (compound
commands, with the scanner's modes and depth), `Subshells`, `ShellArgs`, `Collect`
(the commands `Inside` a command, their own commands, and so on down to the bound),
the built-in checks `Dangerous`, the verdict of one fragment `Single`, `Strictest`,
`Evaluate`; and who asks: `ShellContract`, `WriteContract`, `RequiresApprovalFor`. The
loops of the code are recursive functions of the tokens read (`ScanOf`, `Nesting`,
`Quoting`, `ExtractOf`) and of the depth (`Layers`). No variables.

**PolicyFile**: `manage_policy` (`Enable`, `AddRule`, `RemoveRule`, then `SaveConfig` in
steps, any of which may fail and is answered as an error; a read that fails is an
empty policy), the start of the engine from policy.json (`RestartPolicy`), edits by hand; and
the commands to judge (`Cases`), each with the commands that are in it by the way it
was put together (`Words`, `Quoted`, `Ticked`, `Substituted`, `Wrapped`, `Joined`),
which is what the verdict of `Evaluate`, who only sees the text, is held against.
Quoted text may have brackets, but inside `$(...)` only such that pair up.

**Mcp**: `HandleAdd`, `HandleRemove` (manage_mcp through a temporary file,
`SaveServers`) and `ConnectMcpNode` (a workflow node that overwrites the file,
`OverwriteServers`), with reads and writes that fail, then the hot reload: `LockManager`, `ConnectServer`,
`RegisterTools`, which is where the manager's lock is already released. `tools` are
the agent's MCP tools with the version of the server they run on; `RestartMcp` is a
crash and a start.

**Settings**: Models, PolicyFile and Mcp beside each other, with what they promise
together (`SettingsSurvive`): no save of one of the files loses what was saved
before.

### The connectors

**TelegramChat**: `Distribute` is the update distribution (a message goes to its
chat's queue, or past it when a question is pending), `Dequeue`, `TakeQuestion`,
`ReturnEarly`, `Submit`, `HandlerReturns` are `gpt_handler`; `RunEnds` and `Ask` are the
agent behind it. A question goes from `channel` through `PickUp`, `SendQuestion`
and `KeepResponder` into `pending`. `Request`, `SendButtons`, `Expires`, `Press`,
`SendVerdict` and `Edit` are an approval with its guard, its deadline and its buttons:
every press edits the one message (`label`), also one that finds no entry, and the
edit may fail.

**Cli**: the event loop (`Loop`) with a key, a stream event, an approval, a question
or a domain event at a time. `Layer(k)` says which open layer a key goes to:
dialog, question, form, selector, focused panel, chat; one operator each
(`ApprovalKey`, `QuestionKey`, `FormKey`, `SelectorKey`, `LeftPanelKey`,
`RightPanelKey`, `EnterKey`, `Interrupt`). A request is a task (`SubmitMessage`,
`TaskEnds`, `TaskFails`) and a run behind it (`RunSends`, `RunFails`, `AgentAsks`) which goes
on, and asks on, when Esc or the deadline ends the task. `StartLogin` and `LoginEnds` are the background OAuth login.

### The daemon

**Scheduler**: `Tick` loads schedule.json and takes what is due, `Fire` runs one entry,
`TickEnds` drops one-time entries that ran and saves the list the tick loaded; `Add`
and `Delete` are the tool, with a save of its own. A save that fails (`SaveFails`) is
logged, and the tool answers as if it had not. `EndSchedule` is the end of the process.

**Tasks**: `Spawn`, `SetRunning`, `StartShell`, `Output`, `TimesOut`, `AgentReturns`,
`Settle`: the registry's entry, the tokio task and the shell of a background job.

**Daemon**: extends both. A command `cmd[c]` goes through the steps of `zymi` (start),
`zymi stop` or `zymi status` around zymi.pid; `proc[p]` is a process that starts,
serves, shuts down gracefully (`FiveSeconds`, `FinalPush`), crashes, or is a stranger
with a reused pid. `WriteFails` is a PID file that cannot be written: the command ends
and the process it started goes on. `Removed` may fail. `Beat` and `Push` are the git heartbeat, `OtherMachine` its rival.
`Download`, `Verify`, `Extract`, `Replace` are `zymi update`; `SudoCopies` is
its way where the program's directory is not the user's (`install.sh` installs to
/usr/local/bin as root): `sudo cp -f` over the program itself.

### MC* and *Proofs
The MC modules name the model values and give the function-valued constants; each
`.cfg` is one instance. `EdaPipelineProofs` and `WorkflowProofs` extend the module they
are about, `SharedProofs` the three that requests of a process share (EventStore,
EventBus, ApprovalSlot), `ConnectorsProofs` TelegramChat and Cli, `FilesProofs` Daemon
(with Scheduler) and Settings (with Models, PolicyFile and Mcp). `HistoryProofs`
extends Messages; `AgentLoopProofs` extends it with AgentLoop, `MemoryProofs` with
Conversation and LlmStream.

MCMemory, MCConnectors and MCDaemon put modules beside each other that share no
state. Their product would say nothing new, so they are explored one at a time: in
MCMemory and MCConnectors by a constant variable `part`, in MCDaemon by the constraint
`Apart`, which lets the scheduler, the tasks, the backup and the update each run
beside a daemon that starts, crashes and starts again. `ModelsApart`,
`ConversationApart`, `ChatApart` and `ScreenApart` do the same inside a module for
halves that share no variable or meet in one place only; the states in which a
history variable has set a property's exception (`Undisturbed`, `~muddled`,
`Separate`, `OneOverlap`) are not explored further. `CutOnce` keeps what the summary's
model does not see to one message or one summary, with one background job at a time
and no fault besides: two jobs, and faults, are explored where nothing is cut. The
jobs are interchangeable (`MCSymmetry`); the run has no liveness property.

Operators marked "Mutant" in a module are wrong variants of the definition that
follows them, each the way a plausible bug would change the code; putting one in
the place of the real definition makes the run violate the property that
PROJECT.json names. No specification uses them.

## 3. Runs

| run | instance | shows |
|---|---|---|
| `event_store` | 1 process, 3 tasks, 4 events, 2 streams | `SequenceIncreases`, `ChainVerifies`, the table implements EventLog (`ImplementsLog`), with statements that fail and crashes |
| `event_bus` | 2 publishers, 2 receivers, 2 events, channels of 1 | `NoSilentLoss`, `RealTimeOrder`, `PublishReturns` |
| `eda_pipeline_daemon` | daemon with 2 chats, 1 crash, 1 failing append or scan, channels of 1 | `OwnAnswer`, `PickedIsAnswered` |
| `eda_pipeline_shared` | CLI process and daemon on one database, Esc, 1 crash | `OneStream`, `NoSecondAnswer` |
| `eda_pipeline_recovery` (violation) | daemon with 2 chats, no failure at all | `EveryMessageAnswered` fails |
| `approval_slot` | 2 CLI requests, a copy and a question for each | `NoDeadHandler`, `HandlerPinned`, `WaitersServed` |
| `agent_loop` | 2 runs on a conversation, 2 iterations, 1 review, 2 crashes or storage errors, 4 kinds of call | `PromptWellFormed`, `OnlyAllowedExecuted`, `UserKept`, `RunEnds` |
| `workflow` | five plans over 6 nodes, of each kind, up to 1 retry, 2 iterations | `InstalledMeansGranted`, `Configured`, the executor implements PlanRun (`PlanRuns`), `WorkflowEnds` |
| `memory` | Models, PolicyFile (with Policy), Conversation (with Messages), LlmStream and Mcp, one at a time | `AnnouncedModelAnswers`, `RefreshAccepted`, `SettingsSurvive`, `VerdictIsStrictest`, `NothingForgotten`, `RequestsPairUp`, `AnswerIsTheModels`, `NewestServes` |
| `anthropic_prompt` (violation) | as `memory` | `SystemPromptSent` fails |
| `connectors` | Telegram with 2 chats and the CLI with 2 requests, one at a time | `QuestionsKept`, `OneAtATime`, `OnePressDecides`, `MessagesAreHandled`; `WaitersOnScreen`, `SpinnerIsTrue` |
| `daemon` | 2 commands, 2 pids, the scheduler, a task of each kind, the backup, an update | `DaemonIsTracked`, `EntriesSurvive`, `TasksSettle`, `ChangesPushed`, `BinaryWhole` |

Where a module has a `TypeOK`, the run checks it as a conjunct of its first
invariant (`PromptWellFormed`, `OwnAnswer`, `QuestionsKept`, `Configured`), or it is
proved.

Why the bounds are enough for the cases that matter:

- Store: three appends to overlap need three tasks; the third and fourth event
  of stream A come after a failed and a crashed one, and the second stream
  makes per-stream and per-table queries differ.
- Bus: with a channel of one slot a second event finds it full, and with two
  publishers fan-outs cross in both orders at two receivers. The proofs cover
  every other size.
- Pipeline: one crash gives a restart with orphans; a second request makes
  foreign responses and full channels; the shared instance has the two worker
  processes that recover each other's requests. `MaxCrashes` and `MaxFailures`
  bound the faults, `Capacity` 1 makes every second event in a channel a lost one.
- Slot: two guards, and for each a reader that copies and one that keeps the
  lock, give every order of set, drop, deferred clear and question. The safety
  properties are proved for every number.
- Agent loop: two troubles allow a run to be cut short, and the repair of its
  history by the next run to be cut short as well. Two iterations are needed for
  a call to be repeated in a later reply and for two duplicate-only iterations;
  one reply asks a question, then asks for approval, then is denied; the other
  repeats its own call. The policy judges commands of one word, which a
  depth of 1 takes apart. The code's 25 iterations differ only in number.
- Workflow: the plans are a diamond whose last node also depends on the first
  (levels are not distances, and a skip reaches a node two levels below), a chain
  that starts with a tool call and connects a server in the middle, three nodes
  side by side with one behind them, two nodes that connect a server on one level
  before a third does, and a cycle, which must be refused. Two plans have an Order
  edge. Three of the nodes may be tried twice, and every read and write of mcp.json
  may fail. The proofs cover every plan.
- Memory, models: two chats overlap their switches, two calls their refreshes;
  three tokens let a login come between a refresh and its use. Policy: three
  edits make a rule come, go and be overtaken by a crash; the commands to judge
  nest substitutions, wrapped shells and quotes, with and without brackets in them, in
  three layers, as many as the bound here lets `Collect` take apart (10 in the code). Conversation: three
  runs with up to two calls, a threshold of five messages of which two are kept
  (80 and 20 in the code): two summaries run after one another or at once, and the
  split can fall between a call and its results. One upset may hit any step, those of
  a repair too; a summary leaves out one message, or the last summary.
  Stream: an answer of text and three calls, with wide characters, a call without
  arguments, and the server's four ways to end a call. MCP: two runs and two
  servers in three versions that offer more, fewer and other tools.
- Connectors, Telegram: in one chat a request, a voice message and a text that can pass the
  queue while a question is open, in the other a photo that moves the active
  chat; two questions of one run, as two nodes of a level may ask; an approval
  with a press of each button. CLI: two requests that overlap after Esc or the
  deadline, three dialogs of which two belong to one run; two models in the form;
  a list of two events, where the third pushes one out.
- Daemon: two commands at once and two pids give every overlap of start, stop and
  status, and a pid that comes back as a stranger. A one-time entry is due in the
  middle of the clock, a cron entry always. Two changes let the second come while
  the first is being pushed. Every save of schedule.json, write of the PID file and
  step of an update may fail.

Deadlock checking is off in every run: all instances have finitely many
requests, events or edits and stop when these are used up. That nobody waits for
ever is stated instead by `PublishReturns`, `WaitersServed`, `PickedIsAnswered`,
`RunEnds`, `WorkflowEnds`, `MessagesAreHandled`, `SpinnerIsTrue`, `TasksSettle` and
`ChangesPushed`.

## 4. Fairness

- `EventBus`: weak fairness of a publisher's own steps (the runtime polls a
  ready task). None for receivers: `PublishReturns` must hold although nobody
  reads.
- `EdaPipeline`: weak fairness of the worker, of every handler task outside the
  agent, of the fan-out after an append, and of `Start` (a service manager or the
  user starts a process that went down). None for a handler whose agent runs: it
  may wait for a human or for a model without a deadline. `AgentsReturn` says that
  every agent does return, and `PickedIsAnswered` and `EveryMessageAnswered` hold
  or fail under that hypothesis. Nothing makes a connector time out, abort, or
  submit.
- `ApprovalSlot`: weak fairness of the lock, of tasks holding it, of deferred
  clears, of `DropGuard` (a connector has a deadline of 600 s), and of `Answer`:
  Telegram's handler gives up after 300 s; in the CLI `WaitersServed` assumes
  that the user decides. Nothing makes requests or reads begin.
- `AgentLoop`: weak fairness of a run's steps except where it `Waits`: an approval
  and an `ask_user` call have no deadline inside the loop, and neither have the
  routing to the workflow engine and the monitor's review. `RunEnds` says that a
  run ends or waits there for ever. The loop's own model calls have a timeout. That a
  tool returns is assumed, not shown: a shell has a deadline, but `web_search` and
  `web_scrape` use `reqwest::Client::new()`, which has none
  (`tools/web_search.rs:20`), so a server that never answers holds a run for ever.
- `Workflow`: weak fairness of `process()` and of each task except where they wait
  for a human or the model (`EngineWaits`, `TaskWaits`); no call of the engine has
  a timeout. A tool, once granted, returns: the assumption above, web tools included.
  `WorkflowEnds` allows the waits and nothing else.
- `TelegramChat`: weak fairness of the bot's tasks (queue, handler, forwarder) and
  of `HandlerReturns`, whose submit gives up after 600 s; the bot's own calls of
  Telegram have a timeout (`bot_with_timeout`). Nothing is assumed of the users, nor
  that a run ends, nor that a transcription does: a voice message waits for it before
  it is submitted, without a deadline (`telegram.rs:644`, `core/transcription.rs:36`), and
  `MessagesAreHandled` excepts it with what is queued behind it.
- `Cli`: while the program has not been quit, weak fairness of handling a stream
  event and of showing a dialog (the select loop polls its channels); of a task's
  submit and of its end, which comes with the answer, an error or after 600 s.
  No key is ever pressed by fairness.
- `Daemon`: weak fairness of the jobs' own steps while the process lives, with a
  shell's timeout among them (`ShellEnds` is not: a shell may hang, and neither is
  `AgentReturns`: a sub-agent has no deadline of its own, and its web tools have none,
  so `TasksSettle` lets it run for ever); strong fairness
  of a commit that succeeds and of a push that succeeds, since the heartbeat comes
  again and again and either may fail in between. None for commands, crashes or
  the scheduler's ticks.

## 5. Proofs

All theorems are proved by TLAPS for every value of the constants that the named
assumptions of the modules allow. They say what a constant is (`StoreAssumption`,
`BusAssumption`, `SlotAssumption`, `PipelineAssumption`, `AgentAssumption`,
`WorkflowAssumption`, `TelegramAssumption`, `CliAssumption`, `DaemonAssumption`,
`SchedulerAssumption`, `McpAssumption`, `ModelsAssumption`, `PolicyAssumption`,
`PolicyFileAssumption`, `ConversationAssumption`, `AnswersAssumption`, `StreamOfType`: sets of ids, bounds
that are numbers, functions that give a request its chat or a node its kind) or that special values are no ordinary ones
(`SavedFileAssumption`). `AgentAssumption` does not restrict which calls a reply
makes, `WorkflowAssumption` not which plans the model writes. `ConversationAssumption`
has more messages in the threshold of a summary than a summary leaves, and leaves one
at least, as the code's 80 and 20 do. `CasesAssumption` is the grammar of the commands
that `VerdictIsStrictest` judges: words, quoted text and backticks, and what `$(...)`,
`sh -c "..."` and the separators make of shorter commands, with fewer layers in each
other than the bound (beyond it the code takes a command as it is). It leaves out what
the code does not look into: plain groups, newlines, and inside `$(...)` quoted brackets
that do not pair up; other quoted brackets are in it. It restricts no operator of
Policy. The theorems about the event store have a hypothesis besides, because the code does not do
without it: `SingleProcess` (its tasks run in one process). Section 6 says what happens
otherwise.

**SharedProofs, the event store.** For any number of tasks, events and streams, provided all
tasks belong to one process (`SingleProcess`, the hypothesis of each theorem;
section 6 says what two processes do): `StoreTypeCorrect`, `StoreSequences`
(`SequenceIncreases` and `NoGaps`), `StoreChains` (`ChainVerifies`) and
`StoreImplementsLog` (`ImplementsLog`, the table refines EventLog). The inductive
invariant `StoreInv` (theorem `StoreInvariant`) adds `ReadsAreFresh`: a task between
two statements holds the mutex, and its `nextSeq` and `prevHash` still equal what
the queries would return. Without it an insert could not be shown to extend the
stream by one. The table lemmas (`LastIsGreatest`, `InsertIncreases`,
`InsertGapFree`, `InsertChain`, `InsertLog`) say what one more row does to a stream;
the existence of a last row comes from a bounded-maximum lemma proved from the
well-ordering of the naturals.

**SharedProofs, the event bus.** For any number of publishers, subscribers and events and any
capacity: `BusTypeCorrect`, `BusStoreFirst` (nobody receives what is not stored),
`BusAtMostOnce` (nobody receives an event twice), `BusNoSilentLoss`,
`BusRealTimeOrder`. `BusInv` adds four facts: an event that is being published is
in the store, has one publisher and has not returned (`Underway`); returned events
are stored and `before` holds only returned events (`Past`); every open receiver is
in the subscriber list, and who has not subscribed was sent nothing (`Members`); and
a fan-out has offered its event to exactly the subscribers in `tried`
(`FanOutProgress`), the fact that turns "visited" into "delivered, or dropped
because full". There is one lemma per operation.

**SharedProofs, the approval slot.** For any number of overlapping requests and readers:
`SlotTypeCorrect`, `SlotNoDeadHandler`, `SlotHandlerPinned`. `SlotInv` adds
`AskersHold`: who asks holds the read lock. The argument needs that the lock's
queue keeps its members when one is served or leaves (`Joins`, `Served`,
`Leaves`) and that a writer is alone (part of `SlotTypeOK`): `NoDeadHandler` is kept
because a drop either clears the slot at once or leaves a clear that is in
`clears`, queued or holding, and `HandlerPinned` because nobody writes beside a
reader.

**WorkflowProofs.** For every plan the engine accepts and any number of nodes,
retries and iterations: `ExecutorRunsPlan` (`PlanRuns`, the refinement of PlanRun)
and `InstallsAreGranted` (`InstalledMeansGranted`). The inductive invariant `IInv`
(theorem `Invariance`) has four parts: `Typed` (each task is one its node may have,
`TaskOK`: past an install command only if granted in this try), `Layered` (a
dependency is on a lower level), `Untouched` (nothing began before the approval)
and `LevelByLevel` (a task and its result agree; the nodes not yet begun are those
of the levels from `begun` on). Every step of a task replaces the record of one node
by another good one and keeps what it was given (`Becomes`, lemma
`TaskStepLocal`), so the invariant and the mapping meet the twelve task actions as
one: to PlanRun each is a stutter. `Joined` is the core of the argument: when no
task is left and a level begins, every node of the earlier levels has a result,
so by `Layered` all dependencies of the new level are settled.

For `ServersConfigured` (`Configured`) the invariant `ConfigInv` follows the
read-modify-writes of mcp.json. `forgotten` names the servers the code does not
guard: those a failed read took for none, and those of nodes that are between their
read and their write at once. Apart from these (`Kept`), outside a write the file has
the servers known before and those of the nodes that are `Done`, and a node between its
`ReadConfig` and its `WriteConfig` has them in what it has `seen`. `DoneGrows` and
`OthersStay` say that no other step takes one away.

**EdaPipelineProofs.** For any number of requests, processes, crashes and failures
and any capacity: `PipelineOwnAnswer`, `PipelineOneStream`, `PipelineNoSecondAnswer`,
`PipelineTypeCorrect`. `PipelineInv` is a tower, each part proved with those below it:
`Placed` (a request before its append is nowhere, one past it has one row), `Answers`
(a response in a channel is one that was stored, and in the channel of a request
only its own is acted on), `Books` (the counts of the store are those of the handlers
between two of their rows and the finished ones), `Senders` (a stream sender is in
the registry or with one handler), `OneWay`. The last is the core of
`NoSecondAnswer`: the `Chances` of a request are the places from which one more
answer may still come (a fan-out, a channel, the list of a recovery, a handler
before its answer), and as long as nothing the property excepts has happened
(`Calm`) there is at most one, and none when it is answered.

**HistoryProofs.** A theory of histories, for every sequence of messages; no theorem
of a specification, but what the next two modules rest on. `Sound` (each result
stands in the group of its call, behind the earlier ones), `Closed` (and every group
is complete), `BrokenLast` (incomplete groups come last). `Sanitize` makes a closed
history of a sound one whose broken groups are last, keeps every message of the
user, and leaves a closed one alone. Of a closed history, `ClosedTurns` says that the
turns sent to Anthropic pair up, and `ClosedItems` that the items sent to ChatGPT do.
The first follows each message to its turn (`TurnAt`): the results of a group, and
only these, are the blocks of the turn after its assistant's (`TurnAnswers`). The
second follows each message to its items (`Placed`). What the recursive functions
compute (`Picks`, `TurnsUpTo`, the fold in `FlattenSeq`) is proved for every sequence by
taking the least position at which it would be wrong, since the library's induction
theorem cannot be used.

**AgentLoopProofs.** For any number of runs, keys, iterations and crashes and any
replies: `LoopPromptWellFormed`, `LoopOnlyAllowedExecuted`, `LoopUserKept`. `LoopInv`
says how far a run has come: its prompt is closed but for the group it is
working on (`Growing`), the table is the prompt, or a beginning of it while it is
rewritten (`Shaped`), every call let through was allowed or granted (`Gated`), and a
table between runs is sound with its broken group last (`StoredOK`), which is what
the next `Sanitize` needs.

**MemoryProofs.** For any number of runs, messages, calls, jobs and faults:
`MemoryNothingForgotten` (`NothingForgotten`) and `MemoryRequestsPairUp`
(`RequestsPairUp`). `MemoryInv` has, beside the types, two parts that each hold until
the history variable says otherwise. `FactsKept`, until `stale`: what was learned is in
the file, and in what a consolidation has read of it. And until `upset`:

- `OneJob`: one summary at a time is between its read of the table and the last
  message it adds again. Two of them would each clear what the other keeps.
- `HistoriesOK`: the run's prompt, the table, and what a job keeps are each `AtTurn`:
  sound, closed between the run's groups, with the open group last while calls are
  pending, and with no call of an iteration to come. While a job restores, it is the
  table with what is still to be added that is. `RequestsPairUp` is not inductive
  without it: the next prompt is made of the table, and the table of what was kept.
- `RepairOK`: a run that repairs the table clears it and adds the messages again one
  by one. No job works meanwhile; what it will add is the sanitized table, and the table
  with what is still to be added is `AtTurn`.
- `CoversOK`: between the read and the clear, all that is in the table is covered by
  the summary, kept, or `cut`: beyond the 8000 characters that the model is shown.
- `EverKept`: `NothingForgotten`, of the one job that restores.

`CutAtTurn` is the core: `SplitPoint` never cuts between a call and its results
(`SplitFound`), so what is kept of a sound history is sound and has its broken group
where it was. There is one lemma per step. The property, and so the theorem, excepts
what is `unread`: messages that were cut off, and what a last summary said that could
not be read when the next was written.

**MemoryProofs, streamed answers.** For texts, arguments and calls of any number and
length, and any cut of the stream into chunks: `AnswersAreTheModels`
(`AnswerIsTheModels`). `StreamInv` says of a ChatGPT stream in which no character was cut
where it stands (`Along`): in the text, between two calls, in a call or at its end; what
is collected is the answer up to there, what is to come is the rest. One event leads
from each place to the next (`EventAlong`), so any number of lines in a chunk do
(`LinesAlong`, by counting the lines that `Handled` has done). Of an OpenAI stream it
says of each call by itself that the map has what its own deltas brought (`Told`), so it
does not matter how they are mixed. `AnswersAssumption` says what an answer is made of
and that a damaged piece is none of the model's.

**ConnectorsProofs.** For any number of chats, messages, questions, approvals,
presses, requests and dialogs: `TelegramQuestionsKept`, `TelegramOneAtATime`,
`TelegramOnePressDecides`, `ScreenWaiters`. `ChatInv`: each message waits in one place once
(`QueuesOK`), and a question without a reply is at exactly one of channel, forwarder
and `pending` (`PlacesOK`). `ApprovalInv`: at most one press has removed the entry of
an approval (`OneDecider`), and a verdict, a granted approval and a text "Rejected" come
from a press that did (`VerdictPressed`). `ScreenInv`: a wait is in the channel or on
the screen, in the dialog made for it, also when its run outlived the task.

**FilesProofs.** The files of memory/ and the daemon's, for any number of writers,
crashes and values. A file saved through a temporary one changes by the rename only
(`EmptiedFile`, `FilledFile`, `RenamedFile`), and each step of a save may fail. Each
invariant adds who may be between the steps of a save, and that what the writer
read is still what the file has, unless a history variable tells of a second writer, a
failed read or a failed save.

- `ModelsInv`: `AnnouncedIsInner` (`AnnouncedModelAnswers`); `AddedModelsKept` (`added`:
  the list of the last `add_model` that was saved); `TokensAccepted`
  (`RefreshAccepted`: unless a rotated token was `lost`, the newest one is the file's, or
  that of the one refresh under way).
- `McpInv`: `McpServersKept`, `McpNewestServes`. `PolicyInv`: `PolicyRulesKept`.
  `SettingsKept` (`SettingsSurvive`) is the three saves together.
- `ScheduleInv`: `ScheduleEntriesSurvive`, for entries whose save went through (`kept`),
  except those saved `during` a tick, whose own save may drop them; an entry
  that ran is `unnoted` if the process ended, or the save failed, before the file said so.
- `ControlInv`: `DaemonTracked` (`Tracked`: the pid file names the process that serves, or
  the command that will write it is still there). `untrack` has the ways out: two
  commands at once, a process that outlives SIGKILL, a pid file that could not be written.
- `UpdateInv`: `ProgramWhole` (`BinaryWhole`): what is renamed over the program is a whole
  release; `inPlace` tells of a copy with sudo.

`VerdictStrictest` (`VerdictIsStrictest`) says of commands of any length, nested within any bound, that
what `Evaluate` finds by reading tokens is no more lenient than the commands that were
put together. It needs what the scanners compute: a reader's state at a token is a
recursive function, which is first brought into its equation; then a scanner that
starts in a closed state reads a command inside a longer one as it would read it
alone, shifted (`NestingMoved`, `QuotingMoved`, `LayersMoved`). The statement for one
command, `SoundCase`, is that it leaves every scanner as it found it (`Closes`) and that
each command in it is found at its depth (`Found`): both are kept by every way to put
commands together and hold by induction on the length (`CasesSound`). A set of fragments
that holds another is judged at least as strictly (`StricterOfMore`).

Proved but in no run, because a run would add nothing: the type invariants
(`StoreTypeCorrect`, `BusTypeCorrect`, `SlotTypeCorrect`, `PipelineTypeCorrect`), the
inductive invariants themselves, `BusStoreFirst`, `BusAtMostOnce`, and the parts of
`SettingsSurvive` (`AddedModelsSurvive`, `ServersSurvive`, `RulesSurvive`).

Only model-checked:

- every liveness property: ENABLED, and so fairness, is out of the prover's reach.

## 6. What the checks found

Two runs show a disagreement between the code and what the repository says of it:

- **An unanswered message** (`eda_pipeline_recovery`). The worker subscribes only
  after recovery has handled every orphan; a message published in between is
  neither in the scan nor in the channel, and waits for the next restart.
- **The system prompt is not sent to Anthropic** (`anthropic_prompt`). The prompt is
  made of several system messages and the conversion for Anthropic keeps the last
  one.

What a history variable of a module excludes from its properties is what the code
does not guard against. It was met while modelling and is told here rather than
in a run:

*Store, slot, workflow*
- Events read back carry sequence 0: `append()` serialises the event before its
  number is chosen (`events/store.rs:140`), though the field is documented as
  monotonically increasing (`events/mod.rs:21`).
- The store's mutex is per process and append opens no transaction: two processes
  on one conversations.db can give two events of a stream the same number
  (`events/store.rs:145-187`).
- The approval slot is one per process: with two chats the worker of one reads the
  handler of the other or none (`events/agent_worker.rs:110-112`).
- Two connect_mcp nodes of one level rewrite mcp.json under each other; a failed or
  unreadable read counts as an empty file, which is written back with the one new
  server while the node reports Completed; a root that is no object panics; a crash
  between the truncation and the write leaves no server
  (`workflow/executor.rs:739-763`). `Configured` names exactly what may be lost.
- An order edge passes data like a data edge, against its comment ("data is not
  passed", `workflow/node.rs:41-42`). PlanRun asks for the results of Data edges and
  allows those of Order edges, so that it neither hides nor repeats the disagreement;
  after a failure of the engine the agent does the
  request again in its own loop; docs/workflow-engine.md says that tool calls of
  nodes go through the orchestrator and that `WorkflowStarted` is published, and
  the code does neither.

*Conversation, providers, MCP*
- Messages stored while the summary's model call is in progress are cleared with
  the rest and not restored; facts appended during a consolidation are
  overwritten; a `/clear` during a summary brings the kept messages back; when the
  clear fails, the kept messages are there twice (`core/history.rs:229-285`).
- Only the first 8000 characters of the messages to summarize reach the model
  (`core/history.rs:335`), and of each message the first 500; the rest is cleared
  unread. So is the last summary when it cannot be read. The summary and the facts are
  written in place, and a write that fails may leave them empty.
- A character of several bytes that is cut by a chunk is damaged, and a ChatGPT
  stream that ends early counts as a success (`core/chatgpt.rs`).
- A background OAuth login writes its models to models.json, but the manager's list
  does not have them, and the next `add_model` writes the file without them.
- A save of models.json that fails is logged, and `add_model` answers Ok
  (`core/config.rs:99-106`); a list that cannot be read is replaced, as are the policy and
  the MCP configuration.
- A refresh token that the server rotated is lost when the answer does not arrive, when
  auth.json, written in place, is not saved (`core/login.rs:249-266`,
  `core/chatgpt.rs:49-53`), or when the chat's timeout cancels the call
  (`core/agent.rs:545-571`).
- Plain groups, newlines, and in `$(...)` what follows a quoted bracket that has no
  partner are not judged as commands of their own (`policy.rs:256-267`, `:307-327`);
  docs/security.md:34 says that subshells can get past the string checks.
- Two changes of one server at once may leave the tools of the older version; the
  tools of a removed server, and those an update no longer offers, stay registered
  until a restart (`core/agent.rs:306`).

*Connectors*
- A second text while a question is open starts a request beside the first
  (`connectors/telegram.rs:104`); `OneAtATime` names this exception.
- A press that comes just before the deadline shows "Approved" for a call that was
  refused (`connectors/telegram.rs:245`). Every press edits the one message: a second
  press that finds no entry turns "Approved" into "Expired", and an edit that fails shows
  nothing (`:309-321`).
- The download and transcription of a voice message have no timeout
  (`connectors/telegram.rs:644`, `transcription.rs:36`): one that stalls holds the queue of
  its chat. `MessagesAreHandled` excepts the messages of that chat behind it.
- A request whose agent fails sends neither Done nor Error to the screen: the spinner
  stays until Esc. The late Done of an interrupted run, or of a login, ends the
  spinner of the request after it. Enter while a request is processed loses the
  line typed.
- An approval that arrives while another is shown takes its place, which closes the
  first without a decision (`connectors/cli/mod.rs:379`). A run goes on asking after Esc
  or the deadline, since it has its own clone of the handler
  (`events/agent_worker.rs:112`). Enter typed for the chat can
  approve a dialog that has just popped up.
- docs/tui.md:106 says the agent stops after the current tool call; the code aborts
  the connector's task and the run goes on. docs/tui.md:69 says Esc in a dialog denies
  and interrupts the agent; the code denies.
- The CLI's `/clear` clears the screen, not the conversation. Entries of the event
  panel that were expanded stay so by index when the oldest one is dropped.

*Daemon*
- A list of entries that chats change while a tick runs its tasks is overwritten by
  the tick's save (`scheduler.rs:233`); a crash before the save runs a task again. A save
  that fails is logged, and the tool answers Ok (`scheduler.rs:59-66`,
  `tools/schedule.rs:72-82`).
- `zymi status` or `zymi stop` beside a start can remove the pid file that was just
  written; two starts at once leave a daemon that no command finds; a stop can
  signal a program that got the pid of a daemon that is gone (`daemon.rs:260`). When the
  pid file cannot be written, `zymi start` ends with 1 and the daemon lives on untracked
  (`daemon.rs:213-216`).
- `zymi update` of a program it may not write, as install.sh leaves it, is a `sudo cp -f`
  over the running one in place (`daemon.rs:629-655`): cut short, it leaves a torn file.
- A sub-agent may run for ever: it has no deadline of its own, and its web tools have
  no timeout (`tools/task.rs:194-218`, `tools/web_search.rs:20`). `TasksSettle` excepts it.
- With Telegram SIGTERM ends the process at once, since only the branch without it
  handles the signal (`main.rs:769`); without Telegram the background tasks may take
  more than the five seconds `zymi stop` waits before SIGKILL, and the "Final git
  push" is not reached.
- After another machine pushed, every push fails until the next start pulls.
- A shell that timed out is not killed, though the message says "The process was
  killed." (`tools/shell.rs:115`, `:124`).
- A task whose log line cuts a command inside a character panics before it is
  settled and stays "running" (`tools/shell.rs`); a quoted argument of `sh -c` that
  is one quote character panics in `policy.rs:355`.
- docs/security.md:57 says every tool call is logged to memory/audit.jsonl; the agent
  loop logs its own (`core/agent.rs:817`), the workflow engine does not.

## 7. Modelling decisions

- The subscriber `Vec` is a set: the loop may visit it in any order. That allows
  more than the code does and one receiver cannot see the difference.
- Events with a channel are those their receivers act on; a worker ignores
  responses and a connector ignores messages, so these are not put in channels
  (they do take room in the real channel; `Capacity` 1 makes loss happen anyway).
- A process runs either the CLI or Telegram, as `main()` does, never both.
- Aborting a task while its append is in the blocking pool is the append followed
  by the abort: `spawn_blocking` is not cancelled.
- `submit()`, `ConversationProjection`, `MetricsProjection` and the bus's
  `BusClosed` error are not reachable in the program; `ScheduledTaskTriggered` is
  handled by the worker but published by nobody. They are left out.
- The fairness of tokio's RwLock is external; its queue is modelled as first
  come, first served, as its documentation says.
- `ContextualApprovalHandler` only prefixes the text of a question.
- History variables (those marked so in a module, and the fields `granted` and
  `executed` of a run, a task or a call) are read by properties only, never by a
  guard; MC modules stop at some of them (section 2).
- In AgentLoop and Conversation the runs of a conversation follow one another, as
  the CLI's `is_processing` gate and Telegram's per-chat queue arrange it. Esc, a
  second text while a question is open, and the connector's deadline break this.
- In Workflow a level is defined by what the code computes, one more than the
  deepest dependency; the topological sort that computes it is left out. A plan's
  requirements on fields of a node (command, server name) are a failing try. What a
  tool does besides mcp.json, the trace and the progress events are left out.
- A dedup key stands for a tool with its arguments; the normalisation of search
  queries only decides which keys are equal.
- A summary is the set of messages it stands for, a fact the run it comes from: what
  a model writes is left out, that it may fail is not. A message is in the text that the
  model is shown or not; that the last one may be in it by half, and each by its
  first 500 characters, is left out.
- A command is a sequence of tokens: words and the characters the shell's syntax
  gives a meaning. A rule is the set of base commands its glob matches. Calls of
  manage_policy follow one another.
- A line of an event stream is two halves, which is all that a cut can do to it; a
  piece with a wide character that is cut becomes `Damaged`.
- A version of an MCP server stands for its configuration and what it offers.
- The clock of the scheduler counts the times at which something is due; the daemon's
  time moves in steps of five seconds, the only duration its steps depend on.
- The forms of the CLI keep the step and the choice they are at; texts are `"text"`
  or a command.

## 8. Not modelled

- HTTP clients, JSON conversion, the content of a transcription, tracing, the debug
  provider: an LLM call is a step that returns or fails. Anthropic's `chat_stream` calls `chat`.
- The tool selector: similarity of floating-point vectors.
- Rendering, markdown, themes, scrolling and the history of chat entries; the setup
  wizard, PKCE and the callback server of the login: sequential interactive I/O.
- The evaluation runner: a sequential batch with printed scores.
- Sandbox and the web and file tools: command lines for, and single calls of, external
  programs and services. Whether a call runs is modelled, what it does is not.
- Skills: parsing and keyword matching without shared state.
- Sub-agents and planning tools: `create_sub_agent` writes a file, the others call the
  agent loop or the model once; a spawned sub-agent is a job of Tasks. Its own
  background shells run in a registry that has no check_task.
- The workflow trace, its progress events and the audit log: written, never read by
  the program.
- systemd, Windows and `zymi logs`.
- Two runs of one conversation at once: no document says what they should leave.

## 9. Plan

Done: all modules of section 2, with the safety proofs of section 5: the 29
invariants the passing runs check are theorems, and so are the action properties and both
refinements.

Left, in order:

1. The composition of AgentLoop and Workflow (a request done twice), and two runs on
   one conversation.
