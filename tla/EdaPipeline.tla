----------------------------- MODULE EdaPipeline -----------------------------
(***************************************************************************)
(* A request through the event-driven core: EventDrivenConnector           *)
(* (events/connector.rs) subscribes, publishes UserMessageReceived and     *)
(* waits for the ResponseReady with its correlation id; AgentWorker        *)
(* (events/agent_worker.rs) recovers the orphans of the store, then        *)
(* subscribes and spawns a handler for every inbound event; StreamRegistry *)
(* (events/stream_registry.rs) passes the CLI's stream sender from one to  *)
(* the other.  Processes share one store, nothing else; they crash and     *)
(* restart, publishes fail, connectors time out and are aborted.           *)
(*                                                                         *)
(* A publish is two steps, append and fan-out (EventBus has the sends of a *)
(* fan-out one by one).  Only events that their receivers act on are put   *)
(* in channels: inbound ones for workers, responses for connectors.        *)
(***************************************************************************)
EXTENDS Naturals, Sequences, FiniteSets

CONSTANTS Requests,     \* correlation ids; each is submitted at most once
          Procs,        \* processes that opened conversations.db
          HomeOf,       \* the process whose connector submits the request
          Streaming,    \* requests of submit_and_wait_streaming (the CLI)
          Abortable,    \* requests whose connector task can be aborted (Esc)
          Capacity,     \* size of a subscriber's channel
          MaxCrashes,   \* bound on process crashes
          MaxFailures   \* bound on failing appends and scans

ASSUME PipelineAssumption ==
  /\ HomeOf \in [Requests -> Procs]
  /\ Streaming \subseteq Requests /\ Abortable \subseteq Requests
  /\ Capacity \in Nat \ {0} /\ MaxCrashes \in Nat /\ MaxFailures \in Nat
  /\ Requests \cap Procs = {}

Ways == {"recovery", "live"}             \* called by the scan, or spawned
Handlers == Procs \X Requests \X Ways    \* handle_inbound() calls

ProcOf(h) == h[1]
ReqOf(h)  == h[2]

VARIABLES
  inbound,   \* store: UserMessageReceived rows, in rowid order
  begun,     \* store: number of AgentProcessingStarted rows of a request
  replies,   \* store: number of ResponseReady rows
  ended,     \* store: number of AgentProcessingCompleted rows
  conn,      \* conn[r]: where the submit call of r stands
  answer,    \* answer[r]: the request whose response submit returned
  registry,  \* requests with a stream sender in the StreamRegistry
  streams,   \* streams[r]: handlers that were given r's own sender
  open,      \* receivers that are subscribed: of connectors and of workers
  inbox,     \* inbox[x]: requests whose event waits in the channel of x
  worker,    \* worker[p]: "down", "scan", "recover", "subscribe" or "run"
  orphans,   \* orphans[p]: rows that recover_orphaned() still has to handle
  hpc,       \* hpc[h]: where handler h stands, "none" when there is none
  crashes, failures,
  cut,       \* history: requests with a failed publish or a crashed handler
  overlap    \* history: requests scanned while submitted or handled

store == <<inbound, begun, replies, ended>>
bounds == <<crashes, failures>>
vars == <<store, conn, answer, registry, streams, open, inbox, worker, orphans,
          hpc, bounds, cut, overlap>>

Receivers == Requests \cup Procs
Inbound == { inbound[k] : k \in DOMAIN inbound }
NoRequest == "none"

-----------------------------------------------------------------------------
Init ==
  /\ inbound = <<>>
  /\ begun = [r \in Requests |-> 0]
  /\ replies = [r \in Requests |-> 0]
  /\ ended = [r \in Requests |-> 0]
  /\ conn = [r \in Requests |-> "new"]
  /\ answer = [r \in Requests |-> NoRequest]
  /\ registry = {}
  /\ streams = [r \in Requests |-> {}]
  /\ open = {}
  /\ inbox = [x \in Receivers |-> <<>>]
  /\ worker = [p \in Procs |-> "down"]
  /\ orphans = [p \in Procs |-> {}]
  /\ hpc = [h \in Handlers |-> "none"]
  /\ crashes = 0 /\ failures = 0
  /\ cut = {} /\ overlap = {}

Sent(S, r) ==
  inbox' = [x \in Receivers |-> IF x \in S THEN Append(inbox[x], r) ELSE inbox[x]]

(* try_send of request r's event to every open receiver in S with room.    *)
FanOut(S, r) == Sent({ x \in S \cap open : Len(inbox[x]) < Capacity }, r)

AppendFails(r) ==
  /\ failures < MaxFailures
  /\ failures' = failures + 1
  /\ cut' = cut \cup {r}
  /\ UNCHANGED <<store, crashes>>

Unsubscribe(r) == /\ open' = open \ {r}
                  /\ inbox' = [inbox EXCEPT ![r] = <<>>]

GoTo(r, from, to) == conn[r] = from /\ conn' = [conn EXCEPT ![r] = to]

Running(p) == worker[p] # "down"

-----------------------------------------------------------------------------
(* EventDrivenConnector                                                    *)

(* stream_registry.register(), "BEFORE publishing".                        *)
Register(r) ==
  /\ r \in Streaming /\ Running(HomeOf[r]) /\ GoTo(r, "new", "registered")
  /\ registry' = registry \cup {r}
  /\ UNCHANGED <<store, answer, streams, open, inbox, worker, orphans, hpc,
                 bounds, cut, overlap>>

(* bus.subscribe(), "BEFORE publishing to avoid race condition".           *)
SubscribeConnector(r) ==
  /\ Running(HomeOf[r])
  /\ GoTo(r, IF r \in Streaming THEN "registered" ELSE "new", "subscribed")
  /\ open' = open \cup {r}
  /\ UNCHANGED <<store, answer, registry, streams, inbox, worker, orphans, hpc,
                 bounds, cut, overlap>>

AppendMessage(r) ==
  /\ GoTo(r, "subscribed", "stored")
  /\ inbound' = Append(inbound, r)
  /\ UNCHANGED <<begun, replies, ended, answer, registry, streams, open, inbox,
                 worker, orphans, hpc, bounds, cut, overlap>>

FanOutMessage(r) ==
  /\ GoTo(r, "stored", "waiting")
  /\ FanOut({HomeOf[r]}, r)
  /\ UNCHANGED <<store, answer, registry, streams, open, worker, orphans, hpc,
                 bounds, cut, overlap>>

(* bus.publish() returned an error: unregister, PublishFailed.             *)
PublishFails(r) ==
  /\ GoTo(r, "subscribed", "error") /\ AppendFails(r)
  /\ registry' = registry \ {r}
  /\ Unsubscribe(r)
  /\ UNCHANGED <<answer, streams, worker, orphans, hpc, overlap>>

Heard(r, mine) ==
  /\ conn[r] = "waiting" /\ inbox[r] # <<>>
  /\ IF mine
     THEN /\ conn' = [conn EXCEPT ![r] = "ok"]
          /\ answer' = [answer EXCEPT ![r] = Head(inbox[r])]
          /\ Unsubscribe(r)
     ELSE /\ inbox' = [inbox EXCEPT ![r] = Tail(@)]
          /\ UNCHANGED <<conn, answer, open>>
  /\ UNCHANGED <<store, registry, streams, worker, orphans, hpc, bounds, cut, overlap>>

\* Mutant: any ResponseReady ends the wait.
ReceiveAny(r) == Heard(r, TRUE)

(* rx.recv(): a ResponseReady with our correlation id ends the wait, any   *)
(* other event is skipped.                                                 *)
Receive(r) == Heard(r, Head(inbox[r]) = r)

(* The deadline fires: unregister, Timeout.                                *)
Timeout(r) ==
  /\ GoTo(r, "waiting", "error")
  /\ Unsubscribe(r)
  /\ registry' = registry \ {r}
  /\ UNCHANGED <<store, answer, streams, worker, orphans, hpc, bounds, cut, overlap>>

(* Esc in the CLI aborts the task at an await: its receiver is dropped, no *)
(* cleanup code runs, the worker is not told.  (An append under way goes   *)
(* on in the blocking pool: AppendMessage, then Abort.)                    *)
Abort(r) ==
  /\ r \in Abortable /\ conn[r] \in {"registered", "subscribed", "stored", "waiting"}
  /\ conn' = [conn EXCEPT ![r] = "gone"]
  /\ Unsubscribe(r)
  /\ UNCHANGED <<store, answer, registry, streams, worker, orphans, hpc,
                 bounds, cut, overlap>>

-----------------------------------------------------------------------------
(* AgentWorker::run                                                        *)

\* Mutant: completion looked up under agent_processing_completed.
UnmatchedByEnd == { k \in DOMAIN inbound : ended[inbound[k]] = 0 }

(* find_unmatched("user_message_received", "response_ready"): rowids.       *)
Unmatched == { k \in DOMAIN inbound : replies[inbound[k]] = 0 }

Active(h) == hpc[h] # "none"

(* The worker of p has r before it: as an orphan, in its channel, at work. *)
Picked(p, r) ==
  \/ \E k \in orphans[p] : inbound[k] = r
  \/ \E k \in DOMAIN inbox[p] : inbox[p][k] = r
  \/ \E w \in Ways : Active(<<p, r, w>>)

UnderWay ==
  { r \in Requests : conn[r] \in {"stored", "waiting"} \/ \E p \in Procs : Picked(p, r) }

(* recover_orphaned(): the scan.                                           *)
Scan(p) ==
  /\ worker[p] = "scan"
  /\ worker' = [worker EXCEPT ![p] = "recover"]
  /\ orphans' = [orphans EXCEPT ![p] = Unmatched]
  /\ overlap' = overlap \cup { r \in UnderWay : \E k \in Unmatched : inbound[k] = r }
  /\ UNCHANGED <<store, conn, answer, registry, streams, open, inbox, hpc, bounds, cut>>

(* find_unmatched() returns an error: logged, no recovery.                 *)
ScanFails(p) ==
  /\ worker[p] = "scan" /\ failures < MaxFailures
  /\ failures' = failures + 1
  /\ worker' = [worker EXCEPT ![p] = "subscribe"]
  /\ UNCHANGED <<store, conn, answer, registry, streams, open, inbox, orphans, hpc,
                 crashes, cut, overlap>>

NoRecovery(p) == \A r \in Requests : hpc[<<p, r, "recovery">>] = "none"

(* for event in orphaned { handle_inbound(event).await }: one at a time,   *)
(* in the order of the rows.                                               *)
RecoverNext(p) ==
  /\ worker[p] = "recover" /\ NoRecovery(p)
  /\ \E k \in orphans[p] :
       /\ \A j \in orphans[p] : k <= j
       /\ hpc' = [hpc EXCEPT ![<<p, inbound[k], "recovery">>] = "starting"]
       /\ orphans' = [orphans EXCEPT ![p] = @ \ {k}]
  /\ UNCHANGED <<store, conn, answer, registry, streams, open, inbox, worker,
                 bounds, cut, overlap>>

Recovered(p) ==
  /\ worker[p] = "recover" /\ NoRecovery(p)
  /\ worker' = [worker EXCEPT ![p] = "subscribe"]
  /\ orphans' = [orphans EXCEPT ![p] = {}]
  /\ UNCHANGED <<store, conn, answer, registry, streams, open, inbox, hpc,
                 bounds, cut, overlap>>

\* Mutant: the loop over the orphans may be left early.
RecoverSome(p) == Recovered(p)

RecoveryDone(p) == Recovered(p) /\ orphans[p] = {}

(* self.bus.subscribe().await                                              *)
SubscribeWorker(p) ==
  /\ worker[p] = "subscribe"
  /\ worker' = [worker EXCEPT ![p] = "run"]
  /\ open' = open \cup {p}
  /\ UNCHANGED <<store, conn, answer, registry, streams, inbox, orphans, hpc,
                 bounds, cut, overlap>>

(* rx.recv(): an inbound event gets a task of its own.                     *)
SpawnHandler(p) ==
  /\ worker[p] = "run" /\ inbox[p] # <<>>
  /\ hpc' = [hpc EXCEPT ![<<p, Head(inbox[p]), "live">>] = "starting"]
  /\ inbox' = [inbox EXCEPT ![p] = Tail(@)]
  /\ UNCHANGED <<store, conn, answer, registry, streams, open, worker, orphans,
                 bounds, cut, overlap>>

-----------------------------------------------------------------------------
(* AgentWorker::handle_inbound                                             *)

Step(h, from, to) == hpc[h] = from /\ hpc' = [hpc EXCEPT ![h] = to]

(* Publish AgentProcessingStarted; on error log and return.                *)
PublishStarted(h) ==
  /\ \/ /\ Step(h, "starting", "ready")
        /\ begun' = [begun EXCEPT ![ReqOf(h)] = @ + 1]
        /\ UNCHANGED <<inbound, replies, ended, bounds, cut>>
     \/ Step(h, "starting", "none") /\ AppendFails(ReqOf(h))
  /\ UNCHANGED <<conn, answer, registry, streams, open, inbox, worker, orphans, overlap>>

HasSender(h) == ReqOf(h) \in registry /\ HomeOf[ReqOf(h)] = ProcOf(h)

Taken(h, left) ==
  /\ Step(h, "ready", "running")
  /\ IF HasSender(h)
     THEN /\ streams' = [streams EXCEPT ![ReqOf(h)] = @ \cup {h}]
          /\ registry' = left
     ELSE UNCHANGED <<streams, registry>>
  /\ UNCHANGED <<store, conn, answer, open, inbox, worker, orphans, bounds, cut, overlap>>

\* Mutant: take() looks the sender up without removing it.
PeekSender(h) == Taken(h, registry)

(* stream_registry.take(): the sender if one is registered, else a channel *)
(* nobody reads.                                                           *)
TakeSender(h) == Taken(h, registry \ {ReqOf(h)})

(* agent.process_stream() returns, Ok or Err: either makes a response.     *)
AgentReturns(h) ==
  /\ Step(h, "running", "answering")
  /\ UNCHANGED <<store, conn, answer, registry, streams, open, inbox, worker,
                 orphans, bounds, cut, overlap>>

(* Append ResponseReady; an error is only logged.                          *)
AppendResponse(h) ==
  /\ \/ /\ Step(h, "answering", "answered")
        /\ replies' = [replies EXCEPT ![ReqOf(h)] = @ + 1]
        /\ UNCHANGED <<inbound, begun, ended, bounds, cut>>
     \/ Step(h, "answering", "closing") /\ AppendFails(ReqOf(h))
  /\ UNCHANGED <<conn, answer, registry, streams, open, inbox, worker, orphans, overlap>>

FanOutResponse(h) ==
  /\ Step(h, "answered", "closing")
  /\ FanOut({ r \in Requests : HomeOf[r] = ProcOf(h) }, ReqOf(h))
  /\ UNCHANGED <<store, conn, answer, registry, streams, open, worker, orphans,
                 bounds, cut, overlap>>

(* Publish AgentProcessingCompleted; the result is only logged.            *)
PublishCompleted(h) ==
  /\ Step(h, "closing", "none")
  /\ \/ /\ ended' = [ended EXCEPT ![ReqOf(h)] = @ + 1]
        /\ UNCHANGED <<inbound, begun, replies, bounds, cut>>
     \/ AppendFails(ReqOf(h))
  /\ UNCHANGED <<conn, answer, registry, streams, open, inbox, worker, orphans, overlap>>

-----------------------------------------------------------------------------
(* main(): the worker task is spawned when the process starts.             *)
Start(p) ==
  /\ worker[p] = "down"
  /\ worker' = [worker EXCEPT ![p] = "scan"]
  /\ UNCHANGED <<store, conn, answer, registry, streams, open, inbox, orphans, hpc,
                 bounds, cut, overlap>>

(* A process dies with its channels, registry, handlers and connectors.    *)
Crash(p) ==
  LET mine == { r \in Requests : HomeOf[r] = p }
      died == { h \in Handlers : ProcOf(h) = p /\ hpc[h] # "none" }
  IN  /\ Running(p) /\ crashes < MaxCrashes
      /\ crashes' = crashes + 1
      /\ worker' = [worker EXCEPT ![p] = "down"]
      /\ orphans' = [orphans EXCEPT ![p] = {}]
      /\ open' = open \ (mine \cup {p})
      /\ inbox' = [x \in Receivers |-> IF x \in mine \cup {p} THEN <<>> ELSE inbox[x]]
      /\ registry' = registry \ mine
      /\ hpc' = [h \in Handlers |-> IF ProcOf(h) = p THEN "none" ELSE hpc[h]]
      /\ conn' = [r \in Requests |->
                    IF r \in mine /\ conn[r] \in {"registered", "subscribed", "stored", "waiting"}
                    THEN "gone" ELSE conn[r]]
      /\ cut' = cut \cup { ReqOf(h) : h \in died }
      /\ UNCHANGED <<store, answer, streams, failures, overlap>>

ConnectorStep(r) ==
  \/ Register(r) \/ SubscribeConnector(r) \/ AppendMessage(r) \/ FanOutMessage(r)
  \/ Receive(r) \/ Timeout(r)

WorkerStep(p) ==
  \/ Scan(p) \/ RecoverNext(p) \/ RecoveryDone(p) \/ SubscribeWorker(p) \/ SpawnHandler(p)

HandlerStep(h) ==
  \/ PublishStarted(h) \/ TakeSender(h) \/ AgentReturns(h)
  \/ AppendResponse(h) \/ FanOutResponse(h) \/ PublishCompleted(h)

Next ==
  \/ \E r \in Requests : ConnectorStep(r) \/ PublishFails(r) \/ Abort(r)
  \/ \E p \in Procs : WorkerStep(p) \/ ScanFails(p) \/ Start(p) \/ Crash(p)
  \/ \E h \in Handlers : HandlerStep(h)

(* The runtime polls the worker and every handler task, and a process that *)
(* went down is started again.  Nothing makes an agent return: a human or  *)
(* the workflow engine's calls of the model may keep it for ever.          *)
Fairness ==
  /\ \A p \in Procs : WF_vars(WorkerStep(p)) /\ WF_vars(Start(p))
  /\ \A h \in Handlers : WF_vars(hpc[h] # "running" /\ HandlerStep(h))
  /\ \A r \in Requests : WF_vars(FanOutMessage(r))

Spec == Init /\ [][Next]_vars /\ Fairness

-----------------------------------------------------------------------------
(* Types.                                                                  *)
TypeOK ==
  /\ inbound \in Seq(Requests)
  /\ begun \in [Requests -> Nat]
  /\ replies \in [Requests -> Nat]
  /\ ended \in [Requests -> Nat]
  /\ conn \in [Requests -> {"new", "registered", "subscribed", "stored", "waiting",
                            "ok", "error", "gone"}]
  /\ answer \in [Requests -> Requests \cup {NoRequest}]
  /\ registry \subseteq Streaming
  /\ streams \in [Requests -> SUBSET Handlers]
  /\ open \subseteq Receivers
  /\ inbox \in [Receivers -> Seq(Requests)]
  /\ \A x \in Receivers : Len(inbox[x]) <= Capacity
  /\ worker \in [Procs -> {"down", "scan", "recover", "subscribe", "run"}]
  /\ orphans \in [Procs -> SUBSET (DOMAIN inbound)]
  /\ hpc \in [Handlers -> {"none", "starting", "ready", "running", "answering",
                           "answered", "closing"}]
  /\ crashes \in 0..MaxCrashes /\ failures \in 0..MaxFailures
  /\ cut \subseteq Requests /\ overlap \subseteq Requests

(* A submit that returns Ok returns the response to its own request, and   *)
(* that response is in the store (submit_and_wait, connector.rs:28-30); an *)
(* answer never comes from nowhere: it was asked and begun before.         *)
OwnAnswer ==
  /\ TypeOK
  /\ \A r \in Requests :
       /\ conn[r] = "ok" => answer[r] = r /\ replies[r] > 0
       /\ begun[r] > 0 => r \in Inbound
       /\ replies[r] <= begun[r]
       /\ ended[r] <= begun[r]

(* "The `take` semantic is one-shot" (stream_registry.rs:13): even when a  *)
(* request is handled twice, one handler at most streams to its caller.    *)
(* And no stream sender outlives its submit in the registry: neither after *)
(* an answer nor after an error (connector.rs:176-179).                    *)
OneStream ==
  \A r \in Requests :
    /\ Cardinality(streams[r]) <= 1
    /\ conn[r] \in {"ok", "error"} => r \notin registry

(* Restarting never answers an answered request again: a second            *)
(* ResponseReady can only come from a scan that met the request while it   *)
(* was being submitted, or handled by the worker of another process.       *)
NoSecondAnswer ==
  \A r \in Requests : replies[r] > 1 => r \in overlap

(* What the properties below suppose: no agent runs for ever.              *)
AgentsReturn == \A h \in Handlers : []<>(hpc[h] # "running")

(* What the worker has picked up, from the scan or from its channel, is    *)
(* answered, unless a publish fails or the process dies on the way.        *)
PickedIsAnswered ==
  AgentsReturn => \A p \in Procs, r \in Requests :
    Picked(p, r) ~> (replies[r] > 0 \/ r \in cut \/ worker[p] = "down")

(* "First recovers orphaned events from a prior crash, then subscribes and *)
(* processes new events" (agent_worker.rs:36-37): every stored message is  *)
(* answered as long as nothing fails.                                      *)
EveryMessageAnswered ==
  AgentsReturn => \A r \in Requests : r \in Inbound ~> replies[r] > 0
==============================================================================
