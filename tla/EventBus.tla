------------------------------ MODULE EventBus ------------------------------
(***************************************************************************)
(* EventBus (src/events/bus.rs).  publish() first appends the event to the *)
(* store (one step: EventStore refines EventLog), then takes the read lock *)
(* on the subscriber list and try_sends the event to every sender in it.   *)
(* Several tasks publish at once: they hold the read lock together, so     *)
(* their sends interleave, while subscribe() needs the write lock and      *)
(* never sees a half-done fan-out.  The Vec of senders is a set here: the  *)
(* loop of a fan-out may visit them in any order, which allows more than   *)
(* the code does and changes nothing that one receiver can see.            *)
(***************************************************************************)
EXTENDS EventLog

CONSTANTS Publishers,   \* tasks that publish
          Subscribers,  \* receivers; each one subscribes at most once
          Capacity      \* size of a subscriber's channel (256 in the code)

ASSUME BusAssumption == Events # {} /\ Capacity \in Nat \ {0}

VARIABLES
  subs,      \* the senders in the subscriber list, dead ones included
  receiver,  \* receiver[s]: "none" before subscribe(), then "open" / "closed"
  queue,     \* queue[s]: events in the channel of s
  pub,       \* pub[p]: "idle", "stored" (appended) or "sending" (read lock)
  ev,        \* ev[p]: the event p publishes
  tried      \* tried[p]: the senders that p's fan-out has been through

busVars == <<log, subs, receiver, queue, pub, ev, tried>>

VARIABLES    \* history, read by the properties only
  got,       \* got[s]: everything ever put in the channel of s, in order
  missed,    \* missed[s]: events dropped for s because its channel was full
  joined,    \* joined[s]: what the store already held when s subscribed
  returned,  \* events whose publish() has returned Ok
  before     \* before[e]: publishes that had returned when e was appended

vars == <<busVars, got, missed, joined, returned, before>>

history == <<got, missed, joined, returned, before>>

-----------------------------------------------------------------------------
InitBus ==
  /\ LogInit
  /\ subs = {}
  /\ receiver = [s \in Subscribers |-> "none"]
  /\ queue = [s \in Subscribers |-> <<>>]
  /\ pub = [p \in Publishers |-> "idle"]
  /\ ev \in [Publishers -> {CHOOSE e \in Events : TRUE}]
  /\ tried = [p \in Publishers |-> {}]
  /\ got = [s \in Subscribers |-> <<>>]
  /\ missed = [s \in Subscribers |-> {}]
  /\ joined = [s \in Subscribers |-> {}]
  /\ returned = {}
  /\ before = [e \in Events |-> {}]

Accepted(p, e) ==
  /\ pub[p] = "idle" /\ e \notin Stored
  /\ ev' = [ev EXCEPT ![p] = e]
  /\ pub' = [pub EXCEPT ![p] = "stored"]
  /\ before' = [before EXCEPT ![e] = returned]
  /\ UNCHANGED <<subs, receiver, queue, tried, got, missed, joined, returned>>

(* self.store.append(&mut event).await?                                    *)
(* When append() fails, publish() returns the error and nothing changes.   *)
Persist(p, e) == Accepted(p, e) /\ AppendEvent(e)

Locked(p) ==
  /\ pub[p] = "stored"
  /\ pub' = [pub EXCEPT ![p] = "sending"]
  /\ UNCHANGED <<log, subs, receiver, queue, ev, tried, got, missed, joined, before>>

\* Mutant: the fan-out runs in a task of its own and publish() returns.
LockAndReturn(p) == Locked(p) /\ returned' = returned \cup {ev[p]}

(* self.subscribers.read().await                                           *)
LockSubscribers(p) == Locked(p) /\ UNCHANGED returned

IsOpen(s)  == receiver[s] = "open"
HasRoom(s) == Len(queue[s]) < Capacity

Deliver(p, s) ==
  /\ queue' = [queue EXCEPT ![s] = Append(@, ev[p])]
  /\ got' = [got EXCEPT ![s] = Append(@, ev[p])]
  /\ UNCHANGED missed

Drop(p, s) ==
  /\ missed' = IF IsOpen(s)
               THEN [missed EXCEPT ![s] = @ \cup {ev[p]}] ELSE missed
  /\ UNCHANGED <<queue, got>>

Sending(p, s) ==
  /\ pub[p] = "sending" /\ s \in subs \ tried[p]
  /\ tried' = [tried EXCEPT ![p] = @ \cup {s}]
  /\ UNCHANGED <<log, subs, receiver, pub, ev, joined, returned, before>>

\* Mutant: send().await, which waits for room.
SendWaiting(p, s) ==
  /\ Sending(p, s)
  /\ IF IsOpen(s) THEN HasRoom(s) /\ Deliver(p, s) ELSE Drop(p, s)

(* tx.try_send(event.clone()): fails at once when the channel is full or   *)
(* the receiver is gone.                                                   *)
TrySend(p, s) ==
  /\ Sending(p, s)
  /\ IF IsOpen(s) /\ HasRoom(s) THEN Deliver(p, s) ELSE Drop(p, s)

Finished(p, next) ==
  /\ pub[p] = "sending" /\ tried[p] = subs
  /\ pub' = [pub EXCEPT ![p] = next]
  /\ tried' = [tried EXCEPT ![p] = {}]
  /\ returned' = returned \cup {ev[p]}
  /\ UNCHANGED <<log, subs, receiver, queue, ev, got, missed, joined, before>>

(* Ok(()), the read lock is released.                                      *)
Return(p) == Finished(p, "idle")

(* The publishing task is aborted while it waits for the lock (Esc in the  *)
(* CLI aborts the connector's task): stored, never fanned out.             *)
Abort(p) ==
  /\ pub[p] = "stored"
  /\ pub' = [pub EXCEPT ![p] = "idle"]
  /\ UNCHANGED <<log, subs, receiver, queue, ev, tried, history>>

Subscribed(s, kept) ==
  /\ receiver[s] = "none"
  /\ \A p \in Publishers : pub[p] # "sending"
  /\ subs' = kept \cup {s}
  /\ receiver' = [receiver EXCEPT ![s] = "open"]
  /\ joined' = [joined EXCEPT ![s] = Stored]
  /\ UNCHANGED <<log, queue, pub, ev, tried, got, missed, returned, before>>

\* Mutant: retain() keeps the closed senders instead of the open ones.
SubscribeRetainClosed(s) == Subscribed(s, {x \in subs : ~IsOpen(x)})

(* subscribe_with_capacity(): under the write lock, forget the senders     *)
(* whose receiver is gone, add the new one.                                *)
Subscribe(s) == Subscribed(s, {x \in subs : IsOpen(x)})

(* rx.recv()                                                               *)
Recv(s) ==
  /\ IsOpen(s) /\ queue[s] # <<>>
  /\ queue' = [queue EXCEPT ![s] = Tail(@)]
  /\ UNCHANGED <<log, subs, receiver, pub, ev, tried, history>>

(* The receiver is dropped, and the events in its channel with it.         *)
Close(s) ==
  /\ IsOpen(s)
  /\ receiver' = [receiver EXCEPT ![s] = "closed"]
  /\ queue' = [queue EXCEPT ![s] = <<>>]
  /\ UNCHANGED <<log, subs, pub, ev, tried, history>>

PublishStep(p) ==
  LockSubscribers(p) \/ (\E s \in Subscribers : TrySend(p, s)) \/ Return(p)

NextBus ==
  \/ \E p \in Publishers, e \in Events : Persist(p, e)
  \/ \E p \in Publishers : PublishStep(p) \/ Abort(p)
  \/ \E s \in Subscribers : Subscribe(s) \/ Recv(s) \/ Close(s)

(* The runtime polls a publishing task until it is done; nothing is        *)
(* assumed of the subscribers, which may stop reading for ever.            *)
BusSpec == InitBus /\ [][NextBus]_vars /\ \A p \in Publishers : WF_vars(PublishStep(p))

-----------------------------------------------------------------------------
Delivered(s) == { got[s][k] : k \in DOMAIN got[s] }

(* Types of the bus, with the bound on every channel: memory stays bounded *)
(* whatever the subscribers do (adr/0002, "Predictable memory usage").     *)
BusTypeOK ==
  /\ LogTypeOK
  /\ subs \subseteq Subscribers
  /\ receiver \in [Subscribers -> {"none", "open", "closed"}]
  /\ queue \in [Subscribers -> Seq(Events)]
  /\ \A s \in Subscribers : Len(queue[s]) <= Capacity
  /\ pub \in [Publishers -> {"idle", "stored", "sending"}]
  /\ ev \in [Publishers -> Events]
  /\ tried \in [Publishers -> SUBSET Subscribers]
  /\ got \in [Subscribers -> Seq(Events)]
  /\ missed \in [Subscribers -> SUBSET Events]
  /\ joined \in [Subscribers -> SUBSET Events]
  /\ returned \subseteq Events
  /\ before \in [Events -> SUBSET Events]

(* Store first: whatever a subscriber is handed can be found in the store  *)
(* again, even if the process dies the next instant.                       *)
StoreFirst == \A s \in Subscribers : Delivered(s) \cup missed[s] \subseteq Stored

(* No subscriber is handed an event twice, whatever fan-outs overlap.      *)
AtMostOnce ==
  \A s \in Subscribers : \A i, j \in DOMAIN got[s] : got[s][i] = got[s][j] => i = j

(* No silent loss: when publish(e) has returned, every live receiver that  *)
(* subscribed before e was appended has been handed e, unless its channel  *)
(* was full.  The connectors' "Subscribe BEFORE publishing" relies on it.  *)
NoSilentLoss ==
  \A s \in Subscribers : IsOpen(s) =>
    returned \ joined[s] \subseteq Delivered(s) \cup missed[s]

(* Fan-outs of concurrent publishers may cross, so receivers disagree on   *)
(* the order; but an event published after another publish() returned is   *)
(* never received before it (ResponseReady before the completion event).   *)
RealTimeOrder ==
  \A s \in Subscribers : \A i, j \in DOMAIN got[s] :
    i < j => got[s][j] \notin before[got[s][i]]

(* Backpressure never reaches a publisher: publish() returns although some *)
(* subscriber never reads its channel.                                     *)
PublishReturns ==
  \A p \in Publishers : pub[p] = "stored" ~> pub[p] = "idle"
=============================================================================
