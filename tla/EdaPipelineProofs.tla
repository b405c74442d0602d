-------------------------- MODULE EdaPipelineProofs --------------------------
(***************************************************************************)
(* Safety of the event-driven pipeline for any number of requests,         *)
(* processes and crashes and any channel size.  The invariants are proved  *)
(* one on top of the other: types, where a request can be (Placed), what   *)
(* the response channels hold (Answers), how many handlers are between two *)
(* of their rows (Books), who can hold a stream sender (Senders), and how  *)
(* many ways there are to one more response (OneWay).                      *)
(***************************************************************************)
EXTENDS EdaPipeline, FiniteSetTheorems, TLAPS

Unsent  == {"new", "registered", "subscribed"}   \* conn: no row was appended yet
Reached == {"stored", "waiting", "ok"}           \* conn: a row was appended
Phases  == Unsent \cup Reached \cup {"error", "gone"}

(* A request has one row, and the pipeline holds only requests with a row; *)
(* its event is in a worker's channel once, after its fan-out.             *)
Placed ==
  /\ \A j, k \in DOMAIN inbound : inbound[j] = inbound[k] => j = k
  /\ \A r \in Requests : /\ conn[r] \in Unsent => r \notin Inbound
                         /\ conn[r] \in Reached => r \in Inbound
  /\ \A p \in Procs : \A j, k \in DOMAIN inbox[p] :
       /\ inbox[p][j] \in Inbound
       /\ conn[inbox[p][j]] \notin Unsent \cup {"stored"}
       /\ inbox[p][j] = inbox[p][k] => j = k
  /\ \A h \in Handlers : Active(h) => ReqOf(h) \in Inbound

(* What waits for a connector was stored before.                           *)
Answers ==
  /\ \A r \in Requests : \A k \in DOMAIN inbox[r] : replies[inbox[r][k]] > 0
  /\ \A h \in Handlers : hpc[h] = "answered" => replies[ReqOf(h)] > 0
  /\ \A r \in Requests : /\ conn[r] = "ok" => answer[r] = r /\ replies[r] > 0
                         /\ begun[r] > 0 => r \in Inbound

(* Handlers that published their start, and not yet their response or end. *)
Replying == {"ready", "running", "answering"}
Ending   == Replying \cup {"answered", "closing"}
Working(r, stages) == { h \in Handlers : ReqOf(h) = r /\ hpc[h] \in stages }

Books ==
  \A r \in Requests :
    /\ IsFiniteSet(Working(r, Replying)) /\ IsFiniteSet(Working(r, Ending))
    /\ replies[r] + Cardinality(Working(r, Replying)) <= begun[r]
    /\ ended[r] + Cardinality(Working(r, Ending)) <= begun[r]

(* A sender is in the registry, or with one handler, or gone.              *)
Senders ==
  \A r \in Requests :
    /\ streams[r] = {} \/ \E h \in Handlers : streams[r] = {h}
    /\ conn[r] = "new" => r \notin registry /\ streams[r] = {}
    /\ r \in registry => streams[r] = {}
    /\ conn[r] \in {"ok", "error"} => r \notin registry
    /\ \A k \in DOMAIN inbox[r] : inbox[r][k] = r => r \notin registry
    /\ \A h \in Handlers :
         ReqOf(h) = r /\ ProcOf(h) = HomeOf[r] /\ hpc[h] \in Ending \ {"ready"}
           => r \notin registry

(* The ways to one more response of r: its fan-out, its event in a         *)
(* worker's channel, a row a worker has to recover, a handler at work.     *)
Ahead == {"starting"} \cup Replying
Places == ({"fanout", "channel", "orphan"} \cup Ways) \X Procs

InChannel(p, r) == \E k \in DOMAIN inbox[p] : inbox[p][k] = r
ToRecover(p, r) == \E k \in orphans[p] : inbound[k] = r
AtWork(h)       == hpc[h] \in Ahead

At(r, c) ==
  \/ c = <<"fanout", HomeOf[r]>> /\ conn[r] = "stored"
  \/ c[1] = "channel" /\ InChannel(c[2], r)
  \/ c[1] = "orphan" /\ ToRecover(c[2], r)
  \/ c[1] \in Ways /\ AtWork(<<c[2], r, c[1]>>)

Chances(r) == { c \in Places : At(r, c) }

(* A request that no scan met half-way has one way at most to a response,  *)
(* and none when it has its response.                                      *)
OneWayFor(r) ==
  r \notin overlap =>
    /\ \A c, d \in Chances(r) : c = d
    /\ replies[r] > 0 => Chances(r) = {}
    /\ replies[r] <= 1

OneWay == \A r \in Requests : OneWayFor(r)

-----------------------------------------------------------------------------
(* A table that keeps its entries or changes one keeps its type.           *)
LEMMA Updated ==
  ASSUME NEW D, NEW R, NEW f \in [D -> R], NEW e, NEW v \in R,
         NEW g, g = f \/ g = [f EXCEPT ![e] = v]
  PROVE  g \in [D -> R]
OBVIOUS

(* The first event of a channel is received.                               *)
LEMMA Received ==
  ASSUME NEW S, NEW s \in Seq(S), s # <<>>
  PROVE  /\ 1 \in DOMAIN s /\ Head(s) = s[1] /\ Head(s) \in S
         /\ Tail(s) \in Seq(S) /\ Len(Tail(s)) = Len(s) - 1
         /\ \A k \in DOMAIN Tail(s) : /\ k \in Nat /\ k >= 1 /\ k + 1 \in DOMAIN s
                                      /\ Tail(s)[k] = s[k + 1]
OBVIOUS

(* An event is put at the end of a channel.                                *)
LEMMA Queued ==
  ASSUME NEW S, NEW s \in Seq(S), NEW e \in S
  PROVE  /\ Append(s, e) \in Seq(S) /\ Len(Append(s, e)) = Len(s) + 1
         /\ DOMAIN s = 1 .. Len(s) /\ Len(s) \in Nat
         /\ DOMAIN Append(s, e) = DOMAIN s \cup {Len(s) + 1} /\ Len(s) + 1 \notin DOMAIN s
         /\ \A k \in DOMAIN s : Append(s, e)[k] = s[k]
         /\ Append(s, e)[Len(s) + 1] = e
<1>1. /\ Append(s, e) \in Seq(S) /\ Len(Append(s, e)) = Len(s) + 1
      /\ DOMAIN s = 1 .. Len(s) /\ Len(s) \in Nat
      /\ DOMAIN Append(s, e) = 1 .. Len(s) + 1
      /\ \A k \in 1 .. Len(s) : Append(s, e)[k] = s[k]
      /\ Append(s, e)[Len(s) + 1] = e
  OBVIOUS
<1>2. 1 .. Len(s) + 1 = 1 .. Len(s) \cup {Len(s) + 1} /\ Len(s) + 1 \notin 1 .. Len(s)
  BY <1>1
<1> QED
  BY <1>1, <1>2

Channels == inbox \in [Receivers -> Seq(Requests)] /\ \A x \in Receivers : Len(inbox[x]) <= Capacity

(* A fan-out appends the event to some channels that have room.            *)
LEMMA FannedOut ==
  ASSUME TypeOK, NEW S, NEW r \in Requests, FanOut(S, r)
  PROVE  /\ Channels'
         /\ \A x \in Receivers : \/ inbox'[x] = inbox[x]
                                 \/ x \in S /\ inbox'[x] = Append(inbox[x], r)
<1> DEFINE T == { x \in S \cap open : Len(inbox[x]) < Capacity }
<1>1. inbox' = [x \in Receivers |-> IF x \in T THEN Append(inbox[x], r) ELSE inbox[x]]
  BY DEF FanOut, Sent
<1>2. Capacity \in Nat
  BY PipelineAssumption
<1>3. ASSUME NEW x \in Receivers
      PROVE  /\ inbox'[x] \in Seq(Requests) /\ Len(inbox'[x]) <= Capacity
             /\ inbox'[x] = inbox[x] \/ (x \in S /\ inbox'[x] = Append(inbox[x], r))
  <2>1. inbox[x] \in Seq(Requests) /\ Len(inbox[x]) \in Nat /\ Len(inbox[x]) <= Capacity
    BY DEF TypeOK
  <2>2. CASE x \in T
    <3>1. inbox'[x] = Append(inbox[x], r) /\ x \in S /\ Len(inbox[x]) < Capacity
      BY <1>1, <2>2
    <3> QED
      BY <1>2, <2>1, <3>1, Queued
  <2>3. CASE x \notin T
    BY <1>1, <2>1, <2>3
  <2> QED
    BY <2>2, <2>3
<1> QED
  BY <1>1, <1>3 DEF Channels

(* A channel loses its first event, or all of them.                        *)
LEMMA Drained ==
  ASSUME TypeOK, NEW x \in Receivers,
         \/ inbox' = [inbox EXCEPT ![x] = <<>>]
         \/ inbox[x] # <<>> /\ inbox' = [inbox EXCEPT ![x] = Tail(@)]
  PROVE  /\ Channels'
         /\ \A y \in Receivers : y # x => inbox'[y] = inbox[y]
         /\ inbox'[x] = <<>> \/ (inbox[x] # <<>> /\ inbox'[x] = Tail(inbox[x]))
<1>1. /\ inbox[x] \in Seq(Requests) /\ Len(inbox[x]) \in Nat /\ Len(inbox[x]) <= Capacity
      /\ inbox \in [Receivers -> Seq(Requests)]
      /\ Capacity \in Nat
  BY PipelineAssumption DEF TypeOK
<1>2. PICK s \in Seq(Requests) : /\ inbox' = [inbox EXCEPT ![x] = s] /\ Len(s) <= Capacity
                                 /\ s = <<>> \/ (inbox[x] # <<>> /\ s = Tail(inbox[x]))
  <2>1. CASE inbox' = [inbox EXCEPT ![x] = <<>>]
    <3>1. <<>> \in Seq(Requests) /\ Len(<<>>) <= Capacity
      BY <1>1
    <3> QED
      BY <2>1, <3>1
  <2>2. CASE inbox[x] # <<>> /\ inbox' = [inbox EXCEPT ![x] = Tail(@)]
    <3>1. Tail(inbox[x]) \in Seq(Requests) /\ Len(Tail(inbox[x])) <= Capacity
      BY <1>1, <2>2, Received
    <3> QED
      BY <2>2, <3>1
  <2> QED
    BY <2>1, <2>2
<1>3. inbox'[x] = s /\ \A y \in Receivers : inbox'[y] = inbox[y] \/ y = x
  BY <1>1, <1>2
<1>4. Channels'
  BY <1>1, <1>2 DEF Channels, TypeOK
<1> QED
  BY <1>2, <1>3, <1>4

-----------------------------------------------------------------------------
LEMMA PipelineInit == Init => TypeOK /\ Placed /\ Answers /\ Books /\ Senders /\ OneWay
<1> SUFFICES ASSUME Init PROVE TypeOK /\ Placed /\ Answers /\ Books /\ Senders /\ OneWay
  OBVIOUS
<1> USE PipelineAssumption
<1>1. TypeOK
  BY DEF Init, TypeOK
<1>2. Requests \subseteq Receivers /\ Procs \subseteq Receivers
  BY DEF Receivers
<1>3. \A h \in Handlers : hpc[h] = "none"
  BY DEF Init
<1>4. \A r \in Requests : begun[r] = 0 /\ replies[r] = 0 /\ ended[r] = 0 /\ conn[r] = "new"
  BY DEF Init
<1>5. \A x \in Receivers : DOMAIN inbox[x] = {}
  BY DEF Init
<1>6. DOMAIN inbound = {} /\ Inbound = {}
  BY DEF Init, Inbound
<1>7. Placed
  BY <1>2, <1>3, <1>4, <1>5, <1>6 DEF Placed, Unsent, Reached, Active
<1>8. Answers
  BY <1>2, <1>3, <1>4, <1>5 DEF Answers
<1>9. Books
  <2>1. \A r \in Requests : Working(r, Replying) = {} /\ Working(r, Ending) = {}
    BY <1>3 DEF Working, Replying, Ending
  <2> QED
    BY <1>4, <2>1, FS_EmptySet DEF Books
<1>10. Senders
  BY <1>2, <1>3, <1>4, <1>5 DEF Init, Senders, Ending, Replying
<1>11. OneWay
  <2>1. ASSUME NEW r \in Requests, NEW c \in Places, At(r, c) PROVE FALSE
    <3>1. c[2] \in Procs /\ (c[1] \in Ways => <<c[2], r, c[1]>> \in Handlers)
      BY DEF Places, Handlers
    <3>2. orphans[c[2]] = {}
      BY <3>1 DEF Init
    <3> QED
      BY <1>2, <1>3, <1>4, <1>5, <2>1, <3>1, <3>2 DEF At, InChannel, ToRecover, AtWork, Ahead, Replying
  <2>2. \A r \in Requests : Chances(r) = {}
    BY <2>1 DEF Chances
  <2> QED
    BY <1>4, <2>2 DEF OneWay, OneWayFor
<1> QED
  BY <1>1, <1>7, <1>8, <1>9, <1>10, <1>11

-----------------------------------------------------------------------------
(* The types, action by action.                                            *)
LEMMA KeepsTypes == TypeOK /\ [Next]_vars => TypeOK'
<1> SUFFICES ASSUME TypeOK, [Next]_vars PROVE TypeOK'
  OBVIOUS
<1> USE PipelineAssumption
<1>0. Requests \subseteq Receivers /\ Procs \subseteq Receivers /\ Handlers = Procs \X Requests \X Ways
  BY DEF Receivers, Handlers
<1>1. ASSUME NEW r \in Requests,
             Register(r) \/ SubscribeConnector(r) \/ AppendMessage(r)
      PROVE  TypeOK'
  <2>1. CASE Register(r)
    BY <1>0, <2>1 DEF Register, GoTo, TypeOK, store, bounds
  <2>2. CASE SubscribeConnector(r)
    BY SMTT(30), <1>0, <2>2 DEF SubscribeConnector, GoTo, TypeOK, store, bounds
  <2>3. CASE AppendMessage(r)
    <3>1. inbound' \in Seq(Requests) /\ DOMAIN inbound \subseteq DOMAIN inbound'
      BY <2>3, Queued DEF AppendMessage, TypeOK
    <3>2. orphans' \in [Procs -> SUBSET (DOMAIN inbound')]
      BY <2>3, <3>1 DEF AppendMessage, TypeOK
    <3> QED
      BY <2>3, <3>1, <3>2 DEF AppendMessage, GoTo, TypeOK, bounds
  <2> QED
    BY <1>1, <2>1, <2>2, <2>3
<1>2. ASSUME NEW r \in Requests, FanOutMessage(r) PROVE TypeOK'
  <2>1. Channels'
    BY <1>2, FannedOut DEF FanOutMessage
  <2> QED
    BY <1>2, <2>1 DEF FanOutMessage, GoTo, TypeOK, Channels, store, bounds
<1>3. ASSUME NEW r \in Requests,
             PublishFails(r) \/ Receive(r) \/ Timeout(r) \/ Abort(r)
      PROVE  TypeOK'
  <2>1. Channels'
    BY <1>0, <1>3, Drained
       DEF PublishFails, Receive, Heard, Timeout, Abort, Unsubscribe
  <2>2. CASE PublishFails(r)
    BY <2>1, <2>2 DEF PublishFails, GoTo, AppendFails, Unsubscribe, TypeOK, Channels, store
  <2>3. CASE Receive(r)
    <3>1. Head(inbox[r]) \in Requests
      BY <1>0, <2>3, Received DEF Receive, Heard, TypeOK
    <3>2. /\ conn' = conn \/ conn' = [conn EXCEPT ![r] = "ok"]
          /\ answer' = answer \/ answer' = [answer EXCEPT ![r] = Head(inbox[r])]
          /\ open' \subseteq open
          /\ UNCHANGED <<store, registry, streams, worker, orphans, hpc, bounds, cut, overlap>>
      BY <2>3 DEF Receive, Heard, Unsubscribe
    <3>3. conn' \in [Requests -> {"new", "registered", "subscribed", "stored", "waiting",
                                 "ok", "error", "gone"}]
      BY <3>2 DEF TypeOK
    <3>4. answer' \in [Requests -> Requests \cup {NoRequest}]
      <4>1. Head(inbox[r]) \in Requests \cup {NoRequest} /\ answer \in [Requests -> Requests \cup {NoRequest}]
        BY <3>1 DEF TypeOK
      <4> QED
        BY <3>2, <4>1, Updated
    <3> QED
      BY <2>1, <3>2, <3>3, <3>4 DEF TypeOK, Channels, store, bounds
  <2>4. CASE Timeout(r)
    BY <2>1, <2>4 DEF Timeout, GoTo, Unsubscribe, TypeOK, Channels, store, bounds
  <2>5. CASE Abort(r)
    BY <2>1, <2>5 DEF Abort, Unsubscribe, TypeOK, Channels, store, bounds
  <2> QED
    BY <1>3, <2>2, <2>3, <2>4, <2>5
<1>4. ASSUME NEW p \in Procs,
             Scan(p) \/ ScanFails(p) \/ RecoveryDone(p) \/ SubscribeWorker(p) \/ Start(p)
      PROVE  TypeOK'
  <2>1. Unmatched \subseteq DOMAIN inbound /\ UnderWay \subseteq Requests
    BY DEF Unmatched, UnderWay
  <2>2. CASE Scan(p)
    BY <2>1, <2>2 DEF Scan, TypeOK, store, bounds
  <2>3. CASE ScanFails(p)
    BY <2>3 DEF ScanFails, TypeOK, store
  <2>4. CASE RecoveryDone(p)
    BY <2>4 DEF RecoveryDone, Recovered, TypeOK, store, bounds
  <2>5. CASE SubscribeWorker(p)
    BY SMTT(30), <1>0, <2>5 DEF SubscribeWorker, TypeOK, store, bounds
  <2>6. CASE Start(p)
    BY <2>6 DEF Start, TypeOK, store, bounds
  <2> QED
    BY <1>4, <2>2, <2>3, <2>4, <2>5, <2>6
<1>5. ASSUME NEW p \in Procs, RecoverNext(p) PROVE TypeOK'
  <2>1. PICK k \in orphans[p] :
          /\ hpc' = [hpc EXCEPT ![<<p, inbound[k], "recovery">>] = "starting"]
          /\ orphans' = [orphans EXCEPT ![p] = @ \ {k}]
    BY <1>5 DEF RecoverNext
  <2>2. UNCHANGED <<store, conn, answer, registry, streams, open, inbox, worker, bounds, cut, overlap>>
    BY <1>5 DEF RecoverNext
  <2>3. hpc' \in [Handlers -> {"none", "starting", "ready", "running", "answering",
                              "answered", "closing"}]
    BY <2>1 DEF TypeOK
  <2>4. orphans' \in [Procs -> SUBSET (DOMAIN inbound)]
    BY <2>1 DEF TypeOK
  <2> QED
    BY <2>2, <2>3, <2>4 DEF TypeOK, store, bounds
<1>6. ASSUME NEW p \in Procs, SpawnHandler(p) PROVE TypeOK'
  <2>1. Channels'
    BY <1>0, <1>6, Drained DEF SpawnHandler
  <2> QED
    BY <1>6, <2>1 DEF SpawnHandler, TypeOK, Channels, store, bounds
<1>7. ASSUME NEW p \in Procs, Crash(p) PROVE TypeOK'
  <2>1. Channels'
    <3>1. <<>> \in Seq(Requests) /\ Len(<<>>) <= Capacity
      OBVIOUS
    <3> QED
      BY <1>7, <3>1 DEF Crash, Channels, TypeOK
  <2>2. { ReqOf(h) : h \in { g \in Handlers : ProcOf(g) = p /\ hpc[g] # "none" } } \subseteq Requests
    BY <1>0 DEF ReqOf
  <2> QED
    BY <1>7, <2>1, <2>2 DEF Crash, TypeOK, Channels, store
<1>8. ASSUME NEW h \in Handlers,
             PublishStarted(h) \/ TakeSender(h) \/ AgentReturns(h) \/ AppendResponse(h)
               \/ PublishCompleted(h)
      PROVE  TypeOK'
  <2>1. ReqOf(h) \in Requests
    BY <1>0 DEF ReqOf
  <2>2. UNCHANGED <<inbound, conn, answer, open, inbox, worker, orphans, crashes, overlap>>
    BY <1>8 DEF PublishStarted, TakeSender, Taken, AgentReturns, AppendResponse, PublishCompleted,
                AppendFails, store, bounds
  <2>3. \E to \in {"none", "ready", "running", "answering", "answered", "closing"} :
          hpc' = [hpc EXCEPT ![h] = to]
    BY <1>8 DEF PublishStarted, TakeSender, Taken, AgentReturns, AppendResponse, PublishCompleted, Step
  <2>4. failures' = failures \/ (failures < MaxFailures /\ failures' = failures + 1)
    BY <1>8 DEF PublishStarted, TakeSender, Taken, AgentReturns, AppendResponse, PublishCompleted,
                AppendFails, bounds
  <2>5. cut' = cut \/ cut' = cut \cup {ReqOf(h)}
    BY <1>8 DEF PublishStarted, TakeSender, Taken, AgentReturns, AppendResponse, PublishCompleted,
                AppendFails
  <2>6. /\ begun' = begun \/ begun' = [begun EXCEPT ![ReqOf(h)] = @ + 1]
        /\ replies' = replies \/ replies' = [replies EXCEPT ![ReqOf(h)] = @ + 1]
        /\ ended' = ended \/ ended' = [ended EXCEPT ![ReqOf(h)] = @ + 1]
    BY <1>8 DEF PublishStarted, TakeSender, Taken, AgentReturns, AppendResponse, PublishCompleted,
                AppendFails, store
  <2>7. /\ registry' \subseteq registry
        /\ streams' = streams \/ streams' = [streams EXCEPT ![ReqOf(h)] = @ \cup {h}]
    BY <1>8 DEF PublishStarted, TakeSender, Taken, AgentReturns, AppendResponse, PublishCompleted
  <2>8. /\ begun' \in [Requests -> Nat] /\ replies' \in [Requests -> Nat] /\ ended' \in [Requests -> Nat]
        /\ cut' \subseteq Requests /\ failures' \in 0..MaxFailures
    <3>1. \A f \in [Requests -> Nat] : f[ReqOf(h)] + 1 \in Nat
      BY <2>1
    <3>2. begun' \in [Requests -> Nat] /\ replies' \in [Requests -> Nat] /\ ended' \in [Requests -> Nat]
      BY <2>6, <3>1, Updated DEF TypeOK
    <3>3. cut' \subseteq Requests
      BY <2>1, <2>5 DEF TypeOK
    <3>4. failures' \in 0..MaxFailures
      BY <2>4 DEF TypeOK
    <3> QED
      BY <3>2, <3>3, <3>4
  <2>9. /\ registry' \subseteq Streaming /\ streams' \in [Requests -> SUBSET Handlers]
        /\ hpc' \in [Handlers -> {"none", "starting", "ready", "running", "answering",
                                  "answered", "closing"}]
    <3>1. registry' \subseteq Streaming
      BY <2>7 DEF TypeOK
    <3>2. streams' \in [Requests -> SUBSET Handlers]
      <4>1. /\ streams[ReqOf(h)] \cup {h} \in SUBSET Handlers
            /\ streams \in [Requests -> SUBSET Handlers]
        BY <2>1 DEF TypeOK
      <4> QED
        BY <2>7, <4>1, Updated
    <3>3. hpc' \in [Handlers -> {"none", "starting", "ready", "running", "answering",
                                "answered", "closing"}]
      BY <2>3 DEF TypeOK
    <3> QED
      BY <3>1, <3>2, <3>3
  <2> QED
    BY <2>2, <2>8, <2>9 DEF TypeOK
<1>9. ASSUME NEW h \in Handlers, FanOutResponse(h) PROVE TypeOK'
  <2>1. ReqOf(h) \in Requests
    BY <1>0 DEF ReqOf
  <2>2. Channels'
    BY <1>9, <2>1, FannedOut DEF FanOutResponse
  <2> QED
    BY <1>9, <2>2 DEF FanOutResponse, Step, TypeOK, Channels, store, bounds
<1>10. CASE UNCHANGED vars
  BY <1>10 DEF vars, TypeOK, store, bounds
<1> QED
  BY <1>1, <1>2, <1>3, <1>4, <1>5, <1>6, <1>7, <1>8, <1>9, <1>10
     DEF Next, ConnectorStep, WorkerStep, HandlerStep

-----------------------------------------------------------------------------
(* The next step leaves the rows alone, fills no worker's channel, and     *)
(* starts a handler only for a request with a row.                         *)
Calm ==
  /\ inbound' = inbound
  /\ \A r \in Requests : /\ conn'[r] \in Unsent => conn[r] \in Unsent
                         /\ conn'[r] \in Reached => conn[r] \in Reached
                         /\ conn'[r] = "stored" => conn[r] = "stored"
  /\ \A p \in Procs : \/ inbox'[p] \in {inbox[p], <<>>}
                      \/ (inbox[p] # <<>> /\ inbox'[p] = Tail(inbox[p]))
  /\ \A h \in Handlers : Active(h)' => Active(h) \/ ReqOf(h) \in Inbound

LEMMA CalmPlaced ==
  ASSUME TypeOK, TypeOK', Placed, Calm
  PROVE  Placed'
<1>1. Inbound' = Inbound
  BY DEF Calm, Inbound
<1>2. ASSUME NEW p \in Procs, NEW j \in DOMAIN inbox'[p], NEW k \in DOMAIN inbox'[p]
      PROVE  /\ inbox'[p][j] \in Inbound
             /\ conn'[inbox'[p][j]] \notin Unsent \cup {"stored"}
             /\ inbox'[p][j] = inbox'[p][k] => j = k
  <2>1. inbox[p] \in Seq(Requests)
    BY DEF TypeOK, Receivers
  <2>2. PICK i \in DOMAIN inbox[p], l \in DOMAIN inbox[p] :
          /\ inbox'[p][j] = inbox[p][i] /\ inbox'[p][k] = inbox[p][l] /\ (i = l => j = k)
    <3>1. CASE inbox'[p] = inbox[p]
      BY <3>1
    <3>2. CASE inbox'[p] = <<>>
      BY <3>2
    <3>3. CASE inbox[p] # <<>> /\ inbox'[p] = Tail(inbox[p])
      <4>1. /\ j + 1 \in DOMAIN inbox[p] /\ inbox'[p][j] = inbox[p][j + 1] /\ j \in Nat
            /\ k + 1 \in DOMAIN inbox[p] /\ inbox'[p][k] = inbox[p][k + 1] /\ k \in Nat
        BY <2>1, <3>3, Received
      <4>2. j + 1 = k + 1 => j = k
        BY <4>1
      <4> QED
        BY <4>1, <4>2
    <3> QED
      BY <3>1, <3>2, <3>3 DEF Calm
  <2>3. /\ inbox[p][i] \in Inbound /\ inbox[p][i] \in Requests
        /\ conn[inbox[p][i]] \notin Unsent \cup {"stored"}
        /\ inbox[p][i] = inbox[p][l] => i = l
    BY <2>1 DEF Placed
  <2>4. conn'[inbox[p][i]] \notin Unsent \cup {"stored"}
    BY <2>3 DEF Calm
  <2> QED
    BY <2>2, <2>3, <2>4
<1>3. \A h \in Handlers : Active(h)' => ReqOf(h) \in Inbound
  BY DEF Calm, Placed
<1>4. /\ \A j, k \in DOMAIN inbound' : inbound'[j] = inbound'[k] => j = k
      /\ \A r \in Requests : /\ conn'[r] \in Unsent => r \notin Inbound
                             /\ conn'[r] \in Reached => r \in Inbound
  BY DEF Calm, Placed
<1> QED
  BY <1>1, <1>2, <1>3, <1>4 DEF Placed

(* Every request has one row at most, and its event follows its row.       *)
LEMMA KeepsPlaced ==
  ASSUME TypeOK, TypeOK', Placed, [Next]_vars
  PROVE  Placed'
<1>0. /\ Requests \subseteq Receivers /\ Procs \subseteq Receivers
      /\ \A r \in Requests : r \notin Procs
      /\ HomeOf \in [Requests -> Procs]
  BY PipelineAssumption DEF Receivers
<1>1. ASSUME NEW r \in Requests, AppendMessage(r) PROVE Placed'
  <2>1. /\ conn[r] = "subscribed" /\ conn' = [conn EXCEPT ![r] = "stored"]
        /\ inbound' = Append(inbound, r) /\ UNCHANGED <<inbox, hpc>>
    BY <1>1 DEF AppendMessage, GoTo
  <2>2. r \notin Inbound
    BY <2>1 DEF Placed, Unsent
  <2>3. /\ inbound \in Seq(Requests) /\ conn \in [Requests -> Phases]
        /\ \A p \in Procs : \A j \in DOMAIN inbox[p] : inbox[p][j] \in Requests
    <3>1. inbound \in Seq(Requests) /\ conn \in [Requests -> Phases]
      BY DEF TypeOK, Phases, Unsent, Reached
    <3>2. \A p \in Procs : inbox[p] \in Seq(Requests)
      BY <1>0 DEF TypeOK
    <3> QED
      BY <3>1, <3>2
  <2>4. /\ DOMAIN inbound' = DOMAIN inbound \cup {Len(inbound) + 1}
        /\ \A k \in DOMAIN inbound : inbound'[k] = inbound[k] /\ inbound[k] \in Inbound
        /\ inbound'[Len(inbound) + 1] = r
    BY <2>1, <2>3, Queued DEF Inbound
  <2>5. Inbound' = Inbound \cup {r}
    BY <2>4 DEF Inbound
  <2>6. \A j, k \in DOMAIN inbound' : inbound'[j] = inbound'[k] => j = k
    BY <2>2, <2>4 DEF Placed
  <2>7. \A s \in Requests : /\ conn'[s] \in Unsent => s \notin Inbound'
                            /\ conn'[s] \in Reached => s \in Inbound'
    BY <2>1, <2>3, <2>5 DEF Placed, Unsent, Reached
  <2>8. \A p \in Procs : \A j \in DOMAIN inbox[p] : /\ inbox[p][j] # r
                                                    /\ conn'[inbox[p][j]] = conn[inbox[p][j]]
    BY <2>1, <2>3 DEF Placed, Unsent
  <2>9. \A p \in Procs : \A j, k \in DOMAIN inbox'[p] :
          /\ inbox'[p][j] \in Inbound'
          /\ conn'[inbox'[p][j]] \notin Unsent \cup {"stored"}
          /\ inbox'[p][j] = inbox'[p][k] => j = k
    BY <2>1, <2>5, <2>8 DEF Placed
  <2>10. \A h \in Handlers : Active(h)' => ReqOf(h) \in Inbound'
    BY <2>1, <2>5 DEF Placed, Active
  <2> QED
    BY <2>6, <2>7, <2>9, <2>10 DEF Placed
<1>2. ASSUME NEW r \in Requests, FanOutMessage(r) PROVE Placed'
  <2>1. /\ conn[r] = "stored" /\ conn' = [conn EXCEPT ![r] = "waiting"]
        /\ UNCHANGED <<inbound, hpc>>
        /\ \A x \in Receivers : inbox'[x] = inbox[x] \/ inbox'[x] = Append(inbox[x], r)
    BY <1>2, FannedOut DEF FanOutMessage, GoTo, store
  <2>2. Inbound' = Inbound /\ r \in Inbound
    BY <2>1 DEF Placed, Reached, Inbound
  <2>3. conn \in [Requests -> Phases]
    BY DEF TypeOK, Phases, Unsent, Reached
  <2>4. \A s \in Requests : /\ conn'[s] \in Unsent => conn[s] \in Unsent
                            /\ conn'[s] \in Reached => conn[s] \in Reached
                            /\ conn'[s] \in Unsent \cup {"stored"} => conn[s] \in Unsent \cup {"stored"}
    BY <2>1, <2>3 DEF Unsent, Reached
  <2>5. ASSUME NEW p \in Procs, NEW j \in DOMAIN inbox'[p], NEW k \in DOMAIN inbox'[p]
        PROVE  /\ inbox'[p][j] \in Inbound
               /\ conn'[inbox'[p][j]] \notin Unsent \cup {"stored"}
               /\ inbox'[p][j] = inbox'[p][k] => j = k
    <3>1. /\ inbox[p] \in Seq(Requests)
          /\ \A i \in DOMAIN inbox[p] : inbox[p][i] \in Requests /\ inbox[p][i] # r
      <4>1. inbox[p] \in Seq(Requests)
        BY <1>0 DEF TypeOK
      <4> QED
        BY <2>1, <4>1 DEF Placed
    <3>2. CASE inbox'[p] = inbox[p]
      BY <2>4, <3>1, <3>2 DEF Placed
    <3>3. CASE inbox'[p] = Append(inbox[p], r)
      <4>1. /\ DOMAIN inbox'[p] = DOMAIN inbox[p] \cup {Len(inbox[p]) + 1}
            /\ \A i \in DOMAIN inbox[p] : inbox'[p][i] = inbox[p][i]
            /\ inbox'[p][Len(inbox[p]) + 1] = r
        BY <3>1, <3>3, Queued
      <4>2. conn'[r] \notin Unsent \cup {"stored"}
        BY <2>1, <2>3 DEF Unsent
      <4> QED
        BY <2>2, <2>4, <3>1, <4>1, <4>2 DEF Placed
    <3> QED
      BY <1>0, <2>1, <3>2, <3>3
  <2>6. /\ \A i, k \in DOMAIN inbound' : inbound'[i] = inbound'[k] => i = k
        /\ \A s \in Requests : /\ conn'[s] \in Unsent => s \notin Inbound
                               /\ conn'[s] \in Reached => s \in Inbound
    BY <2>1, <2>4 DEF Placed
  <2>7. \A h \in Handlers : Active(h)' => ReqOf(h) \in Inbound
    BY <2>1 DEF Placed, Active
  <2> QED
    BY <2>2, <2>5, <2>6, <2>7 DEF Placed
<1>3. ASSUME NEW r \in Requests,
             \/ Register(r) \/ SubscribeConnector(r) \/ PublishFails(r) \/ Receive(r)
             \/ Timeout(r) \/ Abort(r)
      PROVE  Calm
  <2>1. UNCHANGED <<inbound, hpc>>
    BY <1>3 DEF Register, SubscribeConnector, PublishFails, AppendFails, Receive, Heard, Timeout,
                Abort, store
  <2>2. \/ conn' = conn
        \/ conn[r] \in Unsent /\ \E to \in {"registered", "subscribed", "error", "gone"} :
                                  conn' = [conn EXCEPT ![r] = to]
        \/ conn[r] \in Reached /\ \E to \in {"ok", "error", "gone"} : conn' = [conn EXCEPT ![r] = to]
    BY <1>3 DEF Register, SubscribeConnector, PublishFails, Receive, Heard, Timeout, Abort, GoTo,
                Unsent, Reached
  <2>3. conn \in [Requests -> Phases]
    BY DEF TypeOK, Phases, Unsent, Reached
  <2>4. \A s \in Requests : /\ conn'[s] \in Unsent => conn[s] \in Unsent
                            /\ conn'[s] \in Reached => conn[s] \in Reached
                            /\ conn'[s] = "stored" => conn[s] = "stored"
    BY <2>2, <2>3 DEF Unsent, Reached
  <2>5. \A p \in Procs : inbox'[p] = inbox[p]
    <3>1. \/ inbox' = inbox
          \/ inbox' = [inbox EXCEPT ![r] = <<>>]
          \/ inbox[r] # <<>> /\ inbox' = [inbox EXCEPT ![r] = Tail(@)]
      BY <1>3 DEF Register, SubscribeConnector, PublishFails, Receive, Heard, Timeout, Abort,
                  Unsubscribe
    <3> QED
      BY <1>0, <3>1, Drained
  <2> QED
    BY <2>1, <2>4, <2>5 DEF Calm, Active
<1>4. ASSUME NEW p \in Procs,
             Scan(p) \/ ScanFails(p) \/ RecoveryDone(p) \/ SubscribeWorker(p) \/ Start(p)
      PROVE  Calm
  BY <1>4 DEF Scan, ScanFails, RecoveryDone, Recovered, SubscribeWorker, Start, Calm, Active, store
<1>5. ASSUME NEW p \in Procs, RecoverNext(p) PROVE Calm
  <2>1. PICK k \in orphans[p] : hpc' = [hpc EXCEPT ![<<p, inbound[k], "recovery">>] = "starting"]
    BY <1>5 DEF RecoverNext
  <2>2. inbound[k] \in Inbound
    BY DEF TypeOK, Inbound
  <2>3. \A h \in Handlers : Active(h)' => Active(h) \/ ReqOf(h) \in Inbound
    BY <2>1, <2>2 DEF Active, ReqOf, TypeOK
  <2> QED
    BY <1>5, <2>3 DEF RecoverNext, Calm, store
<1>6. ASSUME NEW p \in Procs, SpawnHandler(p) PROVE Calm
  <2>1. /\ inbox[p] # <<>> /\ inbox' = [inbox EXCEPT ![p] = Tail(@)]
        /\ hpc' = [hpc EXCEPT ![<<p, Head(inbox[p]), "live">>] = "starting"]
        /\ UNCHANGED <<inbound, conn>>
    BY <1>6 DEF SpawnHandler, store
  <2>2. Head(inbox[p]) \in Inbound
    BY <1>0, <2>1, Received DEF TypeOK, Placed
  <2>3. \A h \in Handlers : Active(h)' => Active(h) \/ ReqOf(h) \in Inbound
    <3>1. \A h \in Handlers : h # <<p, Head(inbox[p]), "live">> => hpc'[h] = hpc[h]
      BY <2>1 DEF TypeOK
    <3>2. ReqOf(<<p, Head(inbox[p]), "live">>) = Head(inbox[p])
      BY DEF ReqOf
    <3> QED
      BY <2>2, <3>1, <3>2 DEF Active
  <2>4. \A q \in Procs : \/ inbox'[q] = inbox[q]
                         \/ inbox[q] # <<>> /\ inbox'[q] = Tail(inbox[q])
    BY <1>0, <2>1, Drained
  <2> QED
    BY <2>1, <2>3, <2>4 DEF Calm
<1>7. ASSUME NEW p \in Procs, Crash(p) PROVE Calm
  <2>1. UNCHANGED <<inbound>> /\ \A q \in Procs : inbox'[q] = inbox[q] \/ inbox'[q] = <<>>
    BY <1>0, <1>7 DEF Crash, store
  <2>2. \A r \in Requests : conn'[r] = conn[r] \/ conn'[r] = "gone"
    BY <1>7 DEF Crash
  <2>3. \A h \in Handlers : Active(h)' => Active(h)
    BY <1>7 DEF Crash, Active
  <2> QED
    BY <2>1, <2>2, <2>3 DEF Calm, Unsent, Reached
<1>8. ASSUME NEW h \in Handlers, HandlerStep(h) PROVE Calm
  <2>1. UNCHANGED <<inbound, conn>>
    BY <1>8 DEF HandlerStep, PublishStarted, TakeSender, Taken, AgentReturns, AppendResponse,
                FanOutResponse, PublishCompleted, AppendFails, store
  <2>2. Active(h) /\ \A g \in Handlers : g # h => hpc'[g] = hpc[g]
    BY <1>8 DEF HandlerStep, PublishStarted, TakeSender, Taken, AgentReturns, AppendResponse,
                FanOutResponse, PublishCompleted, Step, Active, TypeOK
  <2>3. \A q \in Procs : inbox'[q] = inbox[q]
    <3>1. CASE FanOutResponse(h)
      <4>1. ReqOf(h) \in Requests
        BY DEF Handlers, ReqOf
      <4> QED
        BY <1>0, <3>1, <4>1, FannedOut DEF FanOutResponse
    <3>2. CASE ~FanOutResponse(h)
      BY <1>8, <3>2 DEF HandlerStep, PublishStarted, TakeSender, Taken, AgentReturns,
                        AppendResponse, PublishCompleted
    <3> QED
      BY <3>1, <3>2
  <2> QED
    BY <2>1, <2>2, <2>3 DEF Calm, Active
<1>9. CASE UNCHANGED vars
  <2>1. inbound' = inbound /\ conn' = conn /\ inbox' = inbox /\ hpc' = hpc
    BY <1>9 DEF vars, store
  <2>2. \A h \in Handlers : Active(h)' => Active(h)
    BY <2>1 DEF Active
  <2> QED
    BY <2>1, <2>2, CalmPlaced DEF Calm
<1> QED
  BY <1>1, <1>2, <1>3, <1>4, <1>5, <1>6, <1>7, <1>8, <1>9, CalmPlaced
     DEF Next, ConnectorStep, WorkerStep

-----------------------------------------------------------------------------
(* What reaches a connector is in the store.                               *)
LEMMA KeepsAnswers ==
  ASSUME TypeOK, TypeOK', Placed, Placed', Answers, [Next]_vars
  PROVE  Answers'
<1> DEFINE Waiting(x) == \A k \in DOMAIN inbox[x] : replies[inbox[x][k]] > 0
<1>0. /\ Requests \subseteq Receivers /\ Procs \subseteq Receivers
      /\ \A r \in Requests : r \notin Procs
      /\ \A h \in Handlers : ReqOf(h) \in Requests
      /\ \A x \in Receivers : inbox[x] \in Seq(Requests)
      /\ replies \in [Requests -> Nat] /\ begun \in [Requests -> Nat]
  BY PipelineAssumption DEF Receivers, Handlers, ReqOf, TypeOK
<1>1. Inbound \subseteq Inbound'
  <2>1. inbound' = inbound \/ \E r \in Requests : inbound' = Append(inbound, r)
    BY DEF Next, ConnectorStep, WorkerStep, HandlerStep, Register, SubscribeConnector, AppendMessage,
           FanOutMessage, PublishFails, AppendFails, Receive, Heard, Timeout, Abort, Scan, ScanFails,
           RecoverNext, RecoveryDone, Recovered, SubscribeWorker, SpawnHandler, Start, Crash,
           PublishStarted, TakeSender, Taken, AgentReturns, AppendResponse, FanOutResponse,
           PublishCompleted, vars, store
  <2>2. CASE inbound' = inbound
    BY <2>2 DEF Inbound
  <2>3. ASSUME NEW r \in Requests, inbound' = Append(inbound, r) PROVE Inbound \subseteq Inbound'
    <3>1. inbound \in Seq(Requests)
      BY DEF TypeOK
    <3>2. \A k \in DOMAIN inbound : k \in DOMAIN inbound' /\ inbound'[k] = inbound[k]
      BY <2>3, <3>1, Queued
    <3> QED
      BY <3>2 DEF Inbound
  <2> QED
    BY <2>1, <2>2, <2>3
<1>2. ASSUME UNCHANGED <<begun, replies, answer>>,
             \A r \in Requests : conn'[r] = "ok" => conn[r] = "ok",
             \A h \in Handlers : hpc'[h] = "answered" => hpc[h] = "answered",
             \A r \in Requests : Waiting(r)'
      PROVE  Answers'
  BY <1>1, <1>2 DEF Answers
<1>3. ASSUME NEW r \in Requests,
             \/ Register(r) \/ SubscribeConnector(r) \/ AppendMessage(r) \/ FanOutMessage(r)
             \/ PublishFails(r) \/ Timeout(r) \/ Abort(r)
      PROVE  Answers'
  <2>1. UNCHANGED <<begun, replies, answer, hpc>>
    BY <1>3 DEF Register, SubscribeConnector, AppendMessage, FanOutMessage, PublishFails,
                AppendFails, Timeout, Abort, store
  <2>2. \A s \in Requests : conn'[s] = "ok" => conn[s] = "ok"
    BY SMTT(30), <1>3 DEF Register, SubscribeConnector, AppendMessage, FanOutMessage, PublishFails, Timeout,
                Abort, GoTo, TypeOK
  <2>3. \A s \in Requests : inbox'[s] = inbox[s] \/ inbox'[s] = <<>>
    <3>1. CASE FanOutMessage(r)
      <4>1. HomeOf[r] \in Procs
        BY PipelineAssumption
      <4> QED
        BY <1>0, <3>1, <4>1, FannedOut DEF FanOutMessage
    <3>2. CASE inbox' = inbox
      BY <3>2
    <3>3. CASE inbox' = [inbox EXCEPT ![r] = <<>>]
      BY <1>0, <3>3, Drained
    <3> QED
      BY <1>3, <3>1, <3>2, <3>3
         DEF Register, SubscribeConnector, AppendMessage, PublishFails, Timeout, Abort, Unsubscribe
  <2>4. \A s \in Requests : Waiting(s)'
    BY <2>1, <2>3 DEF Answers
  <2> QED
    BY <1>2, <2>1, <2>2, <2>4
<1>4. ASSUME NEW r \in Requests, Receive(r) PROVE Answers'
  <2>1. /\ UNCHANGED <<begun, replies, hpc>> /\ inbox[r] # <<>> /\ conn[r] = "waiting"
        /\ \/ /\ Head(inbox[r]) = r /\ conn' = [conn EXCEPT ![r] = "ok"]
              /\ answer' = [answer EXCEPT ![r] = r] /\ inbox' = [inbox EXCEPT ![r] = <<>>]
           \/ UNCHANGED <<conn, answer>> /\ inbox' = [inbox EXCEPT ![r] = Tail(@)]
    BY <1>4 DEF Receive, Heard, Unsubscribe, store
  <2>2. \A s \in Requests : \/ inbox'[s] = inbox[s] \/ inbox'[s] = <<>>
                           \/ (inbox[s] # <<>> /\ inbox'[s] = Tail(inbox[s]))
    BY <1>0, <2>1, Drained
  <2>3. \A s \in Requests : Waiting(s)'
    <3>1. \A s \in Requests : \A k \in DOMAIN inbox'[s] : \E j \in DOMAIN inbox[s] : inbox'[s][k] = inbox[s][j]
      <4>1. ASSUME NEW s \in Requests, NEW k \in DOMAIN inbox'[s]
            PROVE  \E j \in DOMAIN inbox[s] : inbox'[s][k] = inbox[s][j]
        <5>1. inbox[s] \in Seq(Requests)
          BY <1>0
        <5>2. CASE inbox[s] # <<>> /\ inbox'[s] = Tail(inbox[s])
          BY <5>1, <5>2, Received
        <5> QED
          BY <2>2, <5>2
      <4> QED
        BY <4>1
    <3> QED
      BY <2>1, <3>1 DEF Answers
  <2>4. inbox[r][1] = Head(inbox[r]) /\ 1 \in DOMAIN inbox[r]
    BY <1>0, <2>1, Received
  <2>5. \A s \in Requests : conn'[s] = "ok" => answer'[s] = s /\ replies[s] > 0
    <3>1. CASE UNCHANGED <<conn, answer>>
      BY <3>1 DEF Answers
    <3>2. CASE Head(inbox[r]) = r /\ conn' = [conn EXCEPT ![r] = "ok"] /\ answer' = [answer EXCEPT ![r] = r]
      <4>1. replies[r] > 0
        BY <2>4, <3>2 DEF Answers
      <4>2. conn'[r] = "ok" /\ answer'[r] = r
        BY <3>2 DEF TypeOK
      <4>3. \A s \in Requests : s # r => conn'[s] = conn[s] /\ answer'[s] = answer[s]
        BY <3>2 DEF TypeOK
      <4> QED
        BY <4>1, <4>2, <4>3 DEF Answers
    <3> QED
      BY <2>1, <3>1, <3>2
  <2> QED
    BY <1>1, <2>1, <2>3, <2>5 DEF Answers
<1>5. ASSUME NEW p \in Procs,
             \/ Scan(p) \/ ScanFails(p) \/ RecoverNext(p) \/ RecoveryDone(p) \/ SubscribeWorker(p)
             \/ SpawnHandler(p) \/ Start(p) \/ Crash(p)
      PROVE  Answers'
  <2>1. UNCHANGED <<begun, replies, answer>>
    BY <1>5 DEF Scan, ScanFails, RecoverNext, RecoveryDone, Recovered, SubscribeWorker, SpawnHandler,
                Start, Crash, store
  <2>2. \A s \in Requests : conn'[s] = conn[s] \/ conn'[s] = "gone"
    BY <1>5 DEF Scan, ScanFails, RecoverNext, RecoveryDone, Recovered, SubscribeWorker, SpawnHandler,
                Start, Crash
  <2>3. \A h \in Handlers : hpc'[h] \in {hpc[h], "none", "starting"}
    <3>1. CASE RecoverNext(p)
      <4>1. PICK k \in orphans[p] : hpc' = [hpc EXCEPT ![<<p, inbound[k], "recovery">>] = "starting"]
        BY <3>1 DEF RecoverNext
      <4> QED
        BY <4>1 DEF TypeOK
    <3>2. CASE SpawnHandler(p)
      BY <3>2 DEF SpawnHandler, TypeOK
    <3>3. CASE Crash(p)
      BY <3>3 DEF Crash
    <3> QED
      BY <1>5, <3>1, <3>2, <3>3 DEF Scan, ScanFails, RecoveryDone, Recovered, SubscribeWorker, Start
  <2>4. \A s \in Requests : inbox'[s] = inbox[s] \/ inbox'[s] = <<>>
    <3>1. CASE SpawnHandler(p)
      BY <1>0, <3>1, Drained DEF SpawnHandler
    <3>2. CASE Crash(p)
      BY <1>0, <3>2 DEF Crash
    <3> QED
      BY <1>5, <3>1, <3>2 DEF Scan, ScanFails, RecoverNext, RecoveryDone, Recovered, SubscribeWorker, Start
  <2>5. \A s \in Requests : Waiting(s)'
    BY <2>1, <2>4 DEF Answers
  <2> QED
    BY <1>2, <2>1, <2>2, <2>3, <2>5
<1>6. ASSUME NEW h \in Handlers, FanOutResponse(h) PROVE Answers'
  <2>1. /\ hpc[h] = "answered" /\ hpc' = [hpc EXCEPT ![h] = "closing"]
        /\ UNCHANGED <<begun, replies, answer, conn>>
        /\ \A x \in Receivers : inbox'[x] = inbox[x] \/ inbox'[x] = Append(inbox[x], ReqOf(h))
    BY <1>0, <1>6, FannedOut DEF FanOutResponse, Step, store
  <2>2. replies[ReqOf(h)] > 0
    BY <2>1 DEF Answers
  <2>3. \A s \in Requests : Waiting(s)'
    <3>1. \A s \in Requests : \A k \in DOMAIN inbox'[s] :
             inbox'[s][k] = ReqOf(h) \/ \E j \in DOMAIN inbox[s] : inbox'[s][k] = inbox[s][j]
      <4>1. ASSUME NEW s \in Requests, NEW k \in DOMAIN inbox'[s]
            PROVE  inbox'[s][k] = ReqOf(h) \/ \E j \in DOMAIN inbox[s] : inbox'[s][k] = inbox[s][j]
        <5>1. inbox[s] \in Seq(Requests) /\ ReqOf(h) \in Requests
          BY <1>0
        <5>2. CASE inbox'[s] = Append(inbox[s], ReqOf(h))
          BY <5>1, <5>2, Queued
        <5> QED
          BY <1>0, <2>1, <5>2
      <4> QED
        BY <4>1
    <3> QED
      BY <2>1, <2>2, <3>1 DEF Answers
  <2>4. \A g \in Handlers : hpc'[g] = "answered" => hpc[g] = "answered"
    BY <2>1 DEF TypeOK
  <2> QED
    BY <1>2, <2>1, <2>3, <2>4
<1>7. ASSUME NEW h \in Handlers,
             PublishStarted(h) \/ TakeSender(h) \/ AgentReturns(h) \/ AppendResponse(h) \/ PublishCompleted(h)
      PROVE  Answers'
  <2>1. UNCHANGED <<inbox, answer, conn>>
    BY <1>7 DEF PublishStarted, TakeSender, Taken, AgentReturns, AppendResponse, PublishCompleted
  <2>2. /\ begun' = begun \/ begun' = [begun EXCEPT ![ReqOf(h)] = @ + 1]
        /\ replies' = replies \/ replies' = [replies EXCEPT ![ReqOf(h)] = @ + 1]
    BY <1>7 DEF PublishStarted, TakeSender, Taken, AgentReturns, AppendResponse, PublishCompleted,
                AppendFails, store
  <2>3. \A r \in Requests : replies'[r] \in Nat /\ replies'[r] >= replies[r] /\ begun'[r] \in Nat
    <3>1. \A r \in Requests : replies'[r] \in Nat /\ begun'[r] \in Nat
      BY DEF TypeOK
    <3>2. \A r \in Requests : replies'[r] = replies[r] \/ replies'[r] = replies[r] + 1
      BY <1>0, <2>2
    <3> QED
      BY <1>0, <3>1, <3>2
  <2>4. \A r \in Requests : begun'[r] > 0 => r \in Inbound
    <3>1. ReqOf(h) \in Inbound
      BY <1>7 DEF Placed, Active, PublishStarted, TakeSender, Taken, AgentReturns, AppendResponse,
                  PublishCompleted, Step
    <3> QED
      BY <1>0, <2>2, <3>1 DEF Answers
  <2>5. \A g \in Handlers : hpc'[g] = "answered" => replies'[ReqOf(g)] > 0
    <3>1. CASE AppendResponse(h) /\ hpc'[h] = "answered"
      <4>1. hpc[h] = "answering" /\ replies' = [replies EXCEPT ![ReqOf(h)] = @ + 1]
            /\ hpc' = [hpc EXCEPT ![h] = "answered"]
        BY <3>1 DEF AppendResponse, Step, TypeOK
      <4>2. replies'[ReqOf(h)] > 0
        BY <1>0, <4>1
      <4>3. ASSUME NEW g \in Handlers, g # h, hpc'[g] = "answered" PROVE replies'[ReqOf(g)] > 0
        <5>1. hpc[g] = "answered"
          BY <4>1, <4>3
        <5> QED
          BY <1>0, <2>3, <5>1 DEF Answers
      <4> QED
        BY <4>2, <4>3
    <3>2. CASE ~(AppendResponse(h) /\ hpc'[h] = "answered")
      <4>1. \A g \in Handlers : hpc'[g] = "answered" => hpc[g] = "answered"
        <5>1. \A g \in Handlers : g # h => hpc'[g] = hpc[g]
          BY <1>7 DEF PublishStarted, TakeSender, Taken, AgentReturns, AppendResponse,
                      PublishCompleted, Step, TypeOK
        <5>2. hpc'[h] # "answered"
          BY <1>7, <3>2 DEF PublishStarted, TakeSender, Taken, AgentReturns, PublishCompleted, Step, TypeOK
        <5> QED
          BY <5>1, <5>2
      <4> QED
        BY <1>0, <2>3, <4>1 DEF Answers
    <3> QED
      BY <3>1, <3>2
  <2>6. \A r \in Requests : Waiting(r)'
    BY SMTT(30), <1>0, <2>1, <2>3 DEF Answers
  <2>7. \A r \in Requests : conn'[r] = "ok" => answer'[r] = r /\ replies'[r] > 0
    BY <1>0, <2>1, <2>3 DEF Answers
  <2> QED
    BY <1>1, <2>4, <2>5, <2>6, <2>7 DEF Answers
<1>8. CASE UNCHANGED vars
  <2>1. UNCHANGED <<begun, replies, answer, conn, hpc, inbox>>
    BY <1>8 DEF vars, store
  <2>2. \A s \in Requests : Waiting(s)'
    BY <2>1 DEF Answers
  <2> QED
    BY <1>2, <2>1, <2>2
<1> QED
  BY <1>3, <1>4, <1>5, <1>6, <1>7, <1>8 DEF Next, ConnectorStep, WorkerStep, HandlerStep

-----------------------------------------------------------------------------
(* How the number of handlers at some stages changes when one moves on.    *)
LEMMA Moved ==
  ASSUME TypeOK, NEW h \in Handlers, NEW to, hpc' = [hpc EXCEPT ![h] = to],
         NEW r \in Requests, NEW stages, IsFiniteSet(Working(r, stages))
  PROVE  /\ IsFiniteSet(Working(r, stages)')
         /\ Cardinality(Working(r, stages)) \in Nat /\ Cardinality(Working(r, stages)') \in Nat
         /\ Cardinality(Working(r, stages)') <= Cardinality(Working(r, stages)) + 1
         /\ ReqOf(h) # r \/ to \notin stages \/ hpc[h] \in stages =>
               Cardinality(Working(r, stages)') <= Cardinality(Working(r, stages))
         /\ ReqOf(h) = r /\ to \notin stages /\ hpc[h] \in stages =>
               Cardinality(Working(r, stages)') = Cardinality(Working(r, stages)) - 1
<1> DEFINE W == Working(r, stages)
           V == Working(r, stages)'
<1>1. hpc'[h] = to /\ \A g \in Handlers : g # h => hpc'[g] = hpc[g]
  BY DEF TypeOK
<1>2. V = IF ReqOf(h) = r /\ to \in stages THEN W \cup {h} ELSE W \ {h}
  BY <1>1 DEF Working
<1>3. h \in W <=> ReqOf(h) = r /\ hpc[h] \in stages
  BY DEF Working
<1>4. Cardinality(W) \in Nat
  BY FS_CardinalityType
<1> HIDE DEF W, V
<1>5. CASE ReqOf(h) = r /\ to \in stages
  <2>1. /\ IsFiniteSet(V)
        /\ Cardinality(V) = IF h \in W THEN Cardinality(W) ELSE Cardinality(W) + 1
    BY <1>2, <1>5, FS_AddElement DEF W
  <2> QED
    BY <1>3, <1>4, <1>5, <2>1 DEF W, V
<1>6. CASE ~(ReqOf(h) = r /\ to \in stages)
  <2>1. /\ IsFiniteSet(V)
        /\ Cardinality(V) = IF h \in W THEN Cardinality(W) - 1 ELSE Cardinality(W)
    BY <1>2, <1>6, FS_RemoveElement DEF W
  <2>2. Cardinality(V) \in Nat
    BY <2>1, FS_CardinalityType
  <2> QED
    BY <1>3, <1>4, <1>6, <2>1, <2>2 DEF W, V
<1> QED
  BY <1>5, <1>6

(* A response or an end is recorded for every start at most.               *)
LEMMA KeepsBooks ==
  ASSUME TypeOK, TypeOK', Books, [Next]_vars
  PROVE  Books'
<1> DEFINE R(r) == Working(r, Replying)
           E(r) == Working(r, Ending)
<1>0. /\ \A h \in Handlers : ReqOf(h) \in Requests
      /\ \A r \in Requests : begun[r] \in Nat /\ replies[r] \in Nat /\ ended[r] \in Nat
      /\ \A r \in Requests : IsFiniteSet(R(r)) /\ IsFiniteSet(E(r))
      /\ \A r \in Requests : Cardinality(R(r)) \in Nat /\ Cardinality(E(r)) \in Nat
      /\ begun \in [Requests -> Nat] /\ replies \in [Requests -> Nat] /\ ended \in [Requests -> Nat]
  BY FS_CardinalityType DEF Handlers, ReqOf, TypeOK, Books
<1>1. ASSUME \A r \in Requests :
               /\ IsFiniteSet(R(r)') /\ IsFiniteSet(E(r)')
               /\ Cardinality(R(r)') \in Nat /\ Cardinality(R(r)') <= Cardinality(R(r))
               /\ Cardinality(E(r)') \in Nat /\ Cardinality(E(r)') <= Cardinality(E(r)),
             UNCHANGED <<begun, replies, ended>>
      PROVE  Books'
  BY <1>0, <1>1 DEF Books
<1>2. ASSUME NEW h \in Handlers, NEW to, hpc' = [hpc EXCEPT ![h] = to],
             to \notin Ending \/ hpc[h] \in Ending, to \notin Replying \/ hpc[h] \in Replying,
             UNCHANGED <<begun, replies, ended>>
      PROVE  Books'
  BY <1>0, <1>1, <1>2, Moved
<1>3. ASSUME hpc' = hpc, UNCHANGED <<begun, replies, ended>> PROVE Books'
  BY <1>3 DEF Books, Working
<1>4. ASSUME NEW r \in Requests, ConnectorStep(r) \/ PublishFails(r) \/ Abort(r) PROVE Books'
  BY <1>3, <1>4
     DEF ConnectorStep, Register, SubscribeConnector, AppendMessage, FanOutMessage, PublishFails,
         AppendFails, Receive, Heard, Timeout, Abort, store
<1>5. ASSUME NEW p \in Procs,
             Scan(p) \/ ScanFails(p) \/ RecoveryDone(p) \/ SubscribeWorker(p) \/ Start(p)
      PROVE  Books'
  BY <1>3, <1>5 DEF Scan, ScanFails, RecoveryDone, Recovered, SubscribeWorker, Start, store
<1>6. ASSUME NEW p \in Procs, RecoverNext(p) PROVE Books'
  <2>1. PICK k \in orphans[p] : hpc' = [hpc EXCEPT ![<<p, inbound[k], "recovery">>] = "starting"]
    BY <1>6 DEF RecoverNext
  <2>2. <<p, inbound[k], "recovery">> \in Handlers
    BY DEF TypeOK, Handlers, Ways
  <2>3. UNCHANGED <<begun, replies, ended>> /\ "starting" \notin Ending /\ "starting" \notin Replying
    BY <1>6 DEF RecoverNext, store, Ending, Replying
  <2> QED
    BY <1>2, <2>1, <2>2, <2>3
<1>7. ASSUME NEW p \in Procs, SpawnHandler(p) PROVE Books'
  <2>1. inbox[p] \in Seq(Requests) /\ inbox[p] # <<>>
    BY <1>7 DEF TypeOK, Receivers, SpawnHandler
  <2>2. <<p, Head(inbox[p]), "live">> \in Handlers
    BY <2>1, Received DEF Handlers, Ways
  <2>3. /\ hpc' = [hpc EXCEPT ![<<p, Head(inbox[p]), "live">>] = "starting"]
        /\ UNCHANGED <<begun, replies, ended>> /\ "starting" \notin Ending /\ "starting" \notin Replying
    BY <1>7 DEF SpawnHandler, store, Ending, Replying
  <2> QED
    BY <1>2, <2>2, <2>3
<1>8. ASSUME NEW p \in Procs, Crash(p) PROVE Books'
  <2>1. \A r \in Requests : R(r)' \in SUBSET R(r) /\ E(r)' \in SUBSET E(r)
    BY <1>8 DEF Crash, Working, Replying, Ending
  <2>2. UNCHANGED <<begun, replies, ended>>
    BY <1>8 DEF Crash, store
  <2> QED
    BY <1>0, <1>1, <2>1, <2>2, FS_Subset, FS_CardinalityType
<1>9. ASSUME NEW h \in Handlers, PublishStarted(h) PROVE Books'
  <2>1. CASE Step(h, "starting", "none") /\ UNCHANGED <<begun, replies, ended>>
    BY <1>2, <2>1 DEF Step, Ending, Replying
  <2>2. CASE /\ Step(h, "starting", "ready") /\ begun' = [begun EXCEPT ![ReqOf(h)] = @ + 1]
             /\ UNCHANGED <<replies, ended>>
    <3>1. ASSUME NEW r \in Requests
          PROVE  /\ IsFiniteSet(R(r)') /\ IsFiniteSet(E(r)')
                 /\ replies'[r] + Cardinality(R(r)') <= begun'[r]
                 /\ ended'[r] + Cardinality(E(r)') <= begun'[r]
      <4>1. /\ IsFiniteSet(R(r)') /\ Cardinality(R(r)') \in Nat
            /\ Cardinality(R(r)') <= Cardinality(R(r)) + 1
            /\ ReqOf(h) # r => Cardinality(R(r)') <= Cardinality(R(r))
        BY <1>0, <2>2, Moved DEF Step
      <4>2. /\ IsFiniteSet(E(r)') /\ Cardinality(E(r)') \in Nat
            /\ Cardinality(E(r)') <= Cardinality(E(r)) + 1
            /\ ReqOf(h) # r => Cardinality(E(r)') <= Cardinality(E(r))
        BY <1>0, <2>2, Moved DEF Step
      <4>3. begun'[r] = IF ReqOf(h) = r THEN begun[r] + 1 ELSE begun[r]
        BY <1>0, <2>2
      <4>4. replies[r] + Cardinality(R(r)) <= begun[r] /\ ended[r] + Cardinality(E(r)) <= begun[r]
        BY DEF Books
      <4> HIDE DEF R, E
      <4> QED
        BY <1>0, <2>2, <4>1, <4>2, <4>3, <4>4
    <3> QED
      BY <3>1 DEF Books
  <2> QED
    BY <1>9, <2>1, <2>2 DEF PublishStarted, AppendFails, store
<1>10. ASSUME NEW h \in Handlers, TakeSender(h) \/ AgentReturns(h) \/ FanOutResponse(h) PROVE Books'
  <2>1. PICK to : /\ hpc' = [hpc EXCEPT ![h] = to]
                  /\ to \notin Ending \/ hpc[h] \in Ending
                  /\ to \notin Replying \/ hpc[h] \in Replying
    BY <1>10 DEF TakeSender, Taken, AgentReturns, FanOutResponse, Step, Ending, Replying
  <2>2. UNCHANGED <<begun, replies, ended>>
    BY <1>10 DEF TakeSender, Taken, AgentReturns, FanOutResponse, store
  <2> QED
    BY <1>2, <2>1, <2>2
<1>11. ASSUME NEW h \in Handlers, AppendResponse(h) PROVE Books'
  <2>1. CASE Step(h, "answering", "closing") /\ UNCHANGED <<begun, replies, ended>>
    BY <1>2, <2>1 DEF Step, Ending, Replying
  <2>2. CASE /\ Step(h, "answering", "answered") /\ replies' = [replies EXCEPT ![ReqOf(h)] = @ + 1]
             /\ UNCHANGED <<begun, ended>>
    <3>1. ASSUME NEW r \in Requests
          PROVE  /\ IsFiniteSet(R(r)') /\ IsFiniteSet(E(r)')
                 /\ replies'[r] + Cardinality(R(r)') <= begun'[r]
                 /\ ended'[r] + Cardinality(E(r)') <= begun'[r]
      <4>1. /\ hpc[h] \in Replying /\ "answered" \notin Replying /\ hpc[h] \in Ending
            /\ hpc' = [hpc EXCEPT ![h] = "answered"]
        BY <2>2 DEF Step, Replying, Ending
      <4>2. /\ IsFiniteSet(R(r)') /\ Cardinality(R(r)') \in Nat
            /\ Cardinality(R(r)') <= Cardinality(R(r))
            /\ ReqOf(h) = r => Cardinality(R(r)') = Cardinality(R(r)) - 1
        <5>1. IsFiniteSet(Working(r, Replying))
          BY <1>0
        <5> QED
          BY <4>1, <5>1, Moved
      <4>3. /\ IsFiniteSet(E(r)') /\ Cardinality(E(r)') \in Nat
            /\ Cardinality(E(r)') <= Cardinality(E(r))
        BY <1>0, <4>1, Moved
      <4>4. replies'[r] = IF ReqOf(h) = r THEN replies[r] + 1 ELSE replies[r]
        BY <1>0, <2>2
      <4>5. replies[r] + Cardinality(R(r)) <= begun[r] /\ ended[r] + Cardinality(E(r)) <= begun[r]
        BY DEF Books
      <4> HIDE DEF R, E
      <4> QED
        BY <1>0, <2>2, <4>2, <4>3, <4>4, <4>5
    <3> QED
      BY <3>1 DEF Books
  <2> QED
    BY <1>11, <2>1, <2>2 DEF AppendResponse, AppendFails, store
<1>12. ASSUME NEW h \in Handlers, PublishCompleted(h) PROVE Books'
  <2>1. CASE Step(h, "closing", "none") /\ UNCHANGED <<begun, replies, ended>>
    BY <1>2, <2>1 DEF Step, Ending, Replying
  <2>2. CASE /\ Step(h, "closing", "none") /\ ended' = [ended EXCEPT ![ReqOf(h)] = @ + 1]
             /\ UNCHANGED <<begun, replies>>
    <3>1. ASSUME NEW r \in Requests
          PROVE  /\ IsFiniteSet(R(r)') /\ IsFiniteSet(E(r)')
                 /\ replies'[r] + Cardinality(R(r)') <= begun'[r]
                 /\ ended'[r] + Cardinality(E(r)') <= begun'[r]
      <4>1. /\ hpc[h] \in Ending /\ "none" \notin Ending /\ "none" \notin Replying
            /\ hpc' = [hpc EXCEPT ![h] = "none"]
        BY <2>2 DEF Step, Replying, Ending
      <4>2. /\ IsFiniteSet(R(r)') /\ Cardinality(R(r)') \in Nat
            /\ Cardinality(R(r)') <= Cardinality(R(r))
        BY <1>0, <4>1, Moved
      <4>3. /\ IsFiniteSet(E(r)') /\ Cardinality(E(r)') \in Nat
            /\ Cardinality(E(r)') <= Cardinality(E(r))
            /\ ReqOf(h) = r => Cardinality(E(r)') = Cardinality(E(r)) - 1
        <5>1. IsFiniteSet(Working(r, Ending))
          BY <1>0
        <5> QED
          BY <4>1, <5>1, Moved
      <4>4. ended'[r] = IF ReqOf(h) = r THEN ended[r] + 1 ELSE ended[r]
        BY <1>0, <2>2
      <4>5. replies[r] + Cardinality(R(r)) <= begun[r] /\ ended[r] + Cardinality(E(r)) <= begun[r]
        BY DEF Books
      <4> HIDE DEF R, E
      <4> QED
        BY <1>0, <2>2, <4>2, <4>3, <4>4, <4>5
    <3> QED
      BY <3>1 DEF Books
  <2> QED
    BY <1>12, <2>1, <2>2 DEF PublishCompleted, AppendFails, store
<1>13. CASE UNCHANGED vars
  BY <1>3, <1>13 DEF vars, store
<1> QED
  BY <1>4, <1>5, <1>6, <1>7, <1>8, <1>9, <1>10, <1>11, <1>12, <1>13
     DEF Next, WorkerStep, HandlerStep

-----------------------------------------------------------------------------
(* The next step registers no sender, hands none over, and lets no handler *)
(* pass take(); what it does to the channels can only empty those that     *)
(* are still waited on.                                                    *)
Quiet ==
  /\ streams' = streams /\ registry' \subseteq registry
  /\ \A r \in Requests :
       /\ conn'[r] = "new" => conn[r] = "new"
       /\ conn'[r] \in {"ok", "error"} => conn[r] \in {"ok", "error"} \/ r \notin registry'
       /\ \/ inbox'[r] \in {inbox[r], <<>>}
          \/ (inbox[r] # <<>> /\ inbox'[r] = Tail(inbox[r]))
  /\ \A h \in Handlers : hpc'[h] \in Ending \ {"ready"} => hpc[h] \in Ending \ {"ready"}

LEMMA QuietSenders ==
  ASSUME TypeOK, Senders, Quiet
  PROVE  Senders'
<1>1. ASSUME NEW r \in Requests, NEW k \in DOMAIN inbox'[r], inbox'[r][k] = r PROVE r \notin registry
  <2>1. inbox[r] \in Seq(Requests)
    BY DEF TypeOK, Receivers
  <2>2. \E j \in DOMAIN inbox[r] : inbox[r][j] = r
    <3>1. CASE inbox[r] # <<>> /\ inbox'[r] = Tail(inbox[r])
      BY <1>1, <2>1, <3>1, Received
    <3>2. CASE inbox'[r] \in {inbox[r], <<>>}
      BY <1>1, <3>2
    <3> QED
      BY <3>1, <3>2 DEF Quiet
  <2> QED
    BY <2>2 DEF Senders
<1>2. \A r \in Requests : \A h \in Handlers :
        ReqOf(h) = r /\ ProcOf(h) = HomeOf[r] /\ hpc'[h] \in Ending \ {"ready"} => r \notin registry
  BY DEF Quiet, Senders
<1>3. \A r \in Requests :
        /\ streams'[r] = {} \/ \E h \in Handlers : streams'[r] = {h}
        /\ conn'[r] = "new" => r \notin registry' /\ streams'[r] = {}
        /\ r \in registry' => streams'[r] = {}
        /\ conn'[r] \in {"ok", "error"} => r \notin registry'
  BY DEF Quiet, Senders
<1>4. registry' \subseteq registry
  BY DEF Quiet
<1> QED
  BY <1>1, <1>2, <1>3, <1>4 DEF Senders

(* A stream sender is taken once, and gone before its submit returns.      *)
LEMMA KeepsSenders ==
  ASSUME TypeOK, TypeOK', Placed, Answers, Books, Senders, [Next]_vars
  PROVE  Senders'
<1>0. /\ Requests \subseteq Receivers /\ Procs \subseteq Receivers
      /\ \A r \in Requests : r \notin Procs
      /\ \A h \in Handlers : ReqOf(h) \in Requests
      /\ HomeOf \in [Requests -> Procs]
      /\ \A x \in Receivers : inbox[x] \in Seq(Requests)
  BY PipelineAssumption DEF Receivers, Handlers, ReqOf, TypeOK
<1>1. ASSUME NEW r \in Requests, Register(r) PROVE Senders'
  <2>1. /\ conn[r] = "new" /\ conn' = [conn EXCEPT ![r] = "registered"]
        /\ registry' = registry \cup {r} /\ UNCHANGED <<streams, inbox, hpc>>
    BY <1>1 DEF Register, GoTo
  <2>2. r \notin Inbound /\ streams[r] = {}
    BY <2>1 DEF Placed, Unsent, Senders
  <2>3. \A h \in Handlers : ReqOf(h) = r => hpc[h] = "none"
    BY <2>2 DEF Placed, Active
  <2>4. \A k \in DOMAIN inbox[r] : inbox[r][k] # r
    <3>1. begun[r] = 0 /\ replies[r] \in Nat /\ begun[r] \in Nat
      BY <2>2 DEF Answers, TypeOK
    <3>2. /\ Cardinality(Working(r, Replying)) \in Nat
          /\ replies[r] + Cardinality(Working(r, Replying)) <= begun[r]
      BY FS_CardinalityType DEF Books
    <3>3. ~(replies[r] > 0)
      BY <3>1, <3>2
    <3> QED
      BY <3>3 DEF Answers
  <2>5. conn'[r] = "registered" /\ \A s \in Requests : s # r => conn'[s] = conn[s]
    BY <2>1 DEF TypeOK
  <2>6. ASSUME NEW s \in Requests, s # r
        PROVE  /\ s \in registry' => s \in registry
               /\ conn'[s] = conn[s] /\ streams'[s] = streams[s] /\ inbox'[s] = inbox[s]
    BY <2>1, <2>5, <2>6
  <2>7. ASSUME NEW s \in Requests
        PROVE  /\ streams'[s] = {} \/ \E h \in Handlers : streams'[s] = {h}
               /\ conn'[s] = "new" => s \notin registry' /\ streams'[s] = {}
               /\ s \in registry' => streams'[s] = {}
               /\ conn'[s] \in {"ok", "error"} => s \notin registry'
               /\ \A k \in DOMAIN inbox'[s] : inbox'[s][k] = s => s \notin registry'
               /\ \A h \in Handlers :
                    ReqOf(h) = s /\ ProcOf(h) = HomeOf[s] /\ hpc'[h] \in Ending \ {"ready"}
                      => s \notin registry'
    <3>1. CASE s = r
      BY <2>1, <2>2, <2>3, <2>4, <2>5, <3>1 DEF Ending, Replying
    <3>2. CASE s # r
      BY <2>1, <2>6, <3>2 DEF Senders
    <3> QED
      BY <3>1, <3>2
  <2> QED
    BY <2>7 DEF Senders
<1>2. ASSUME NEW r \in Requests,
             \/ SubscribeConnector(r) \/ AppendMessage(r) \/ FanOutMessage(r) \/ PublishFails(r)
             \/ Receive(r) \/ Timeout(r) \/ Abort(r)
      PROVE  Quiet
  <2>1. streams' = streams /\ hpc' = hpc /\ registry' \subseteq registry
    BY <1>2 DEF SubscribeConnector, AppendMessage, FanOutMessage, PublishFails, Receive, Heard,
                Timeout, Abort
  <2>2. \/ inbox' = inbox
        \/ inbox' = [inbox EXCEPT ![r] = <<>>]
        \/ inbox[r] # <<>> /\ inbox' = [inbox EXCEPT ![r] = Tail(@)]
        \/ FanOutMessage(r)
    BY <1>2 DEF SubscribeConnector, AppendMessage, PublishFails, Receive, Heard, Timeout, Abort,
                Unsubscribe
  <2>3. \A s \in Requests : \/ inbox'[s] \in {inbox[s], <<>>}
                           \/ (inbox[s] # <<>> /\ inbox'[s] = Tail(inbox[s]))
    <3>1. CASE FanOutMessage(r)
      BY <1>0, <3>1, FannedOut DEF FanOutMessage
    <3>2. CASE inbox' = inbox
      BY <3>2
    <3> QED
      BY <1>0, <2>2, <3>1, <3>2, Drained
  <2>4. PICK to : /\ conn' = conn \/ conn' = [conn EXCEPT ![r] = to]
                  /\ to # "new" /\ (to \in {"ok", "error"} => r \notin registry')
    <3>1. CASE Receive(r)
      <4>1. CASE Head(inbox[r]) = r
        <5>1. inbox[r] \in Seq(Requests) /\ inbox[r] # <<>> /\ registry' = registry
          BY <1>0, <3>1 DEF Receive, Heard
        <5>2. 1 \in DOMAIN inbox[r] /\ inbox[r][1] = r
          BY <4>1, <5>1, Received
        <5>3. r \notin registry'
          BY <5>1, <5>2 DEF Senders
        <5> QED
          BY <3>1, <4>1, <5>3 DEF Receive, Heard
      <4>2. CASE Head(inbox[r]) # r
        <5>1. conn' = conn /\ "gone" # "new" /\ "gone" \notin {"ok", "error"}
          BY <3>1, <4>2 DEF Receive, Heard
        <5> QED
          BY <5>1
      <4> QED
        BY <4>1, <4>2
    <3>2. CASE SubscribeConnector(r) \/ AppendMessage(r) \/ FanOutMessage(r) \/ Abort(r)
      <4>1. PICK t \in {"subscribed", "stored", "waiting", "gone"} : conn' = [conn EXCEPT ![r] = t]
        BY <3>2 DEF SubscribeConnector, AppendMessage, FanOutMessage, Abort, GoTo
      <4> QED
        BY <4>1
    <3>3. CASE PublishFails(r) \/ Timeout(r)
      BY <3>3 DEF PublishFails, Timeout, GoTo
    <3> QED
      BY <1>2, <3>1, <3>2, <3>3
  <2>5. \A s \in Requests :
          /\ conn'[s] = "new" => conn[s] = "new"
          /\ conn'[s] \in {"ok", "error"} => conn[s] \in {"ok", "error"} \/ s \notin registry'
    BY <2>4 DEF TypeOK
  <2> QED
    BY <2>1, <2>3, <2>5 DEF Quiet
<1>3. ASSUME NEW p \in Procs,
             \/ Scan(p) \/ ScanFails(p) \/ RecoverNext(p) \/ RecoveryDone(p) \/ SubscribeWorker(p)
             \/ SpawnHandler(p) \/ Start(p) \/ Crash(p)
      PROVE  Quiet
  <2>1. streams' = streams /\ registry' \subseteq registry
    BY <1>3 DEF Scan, ScanFails, RecoverNext, RecoveryDone, Recovered, SubscribeWorker, SpawnHandler,
                Start, Crash
  <2>2. \A s \in Requests : conn'[s] = conn[s] \/ conn'[s] = "gone"
    BY <1>3 DEF Scan, ScanFails, RecoverNext, RecoveryDone, Recovered, SubscribeWorker, SpawnHandler,
                Start, Crash
  <2>3. \A h \in Handlers : hpc'[h] \in {hpc[h], "none", "starting"}
    <3>1. CASE RecoverNext(p)
      <4>1. PICK k \in orphans[p] : hpc' = [hpc EXCEPT ![<<p, inbound[k], "recovery">>] = "starting"]
        BY <3>1 DEF RecoverNext
      <4> QED
        BY <4>1 DEF TypeOK
    <3>2. CASE SpawnHandler(p)
      BY <3>2 DEF SpawnHandler, TypeOK
    <3>3. CASE Crash(p)
      BY <3>3 DEF Crash
    <3> QED
      BY <1>3, <3>1, <3>2, <3>3 DEF Scan, ScanFails, RecoveryDone, Recovered, SubscribeWorker, Start
  <2>4. \A s \in Requests : inbox'[s] \in {inbox[s], <<>>}
    <3>1. CASE SpawnHandler(p)
      BY <1>0, <3>1, Drained DEF SpawnHandler
    <3>2. CASE Crash(p)
      BY <1>0, <3>2 DEF Crash
    <3> QED
      BY <1>3, <3>1, <3>2 DEF Scan, ScanFails, RecoverNext, RecoveryDone, Recovered, SubscribeWorker, Start
  <2> QED
    BY <2>1, <2>2, <2>3, <2>4 DEF Quiet, Ending, Replying
<1>4. ASSUME NEW h \in Handlers,
             PublishStarted(h) \/ AgentReturns(h) \/ AppendResponse(h) \/ PublishCompleted(h)
      PROVE  Quiet
  <2>1. UNCHANGED <<streams, registry, conn, inbox>>
    BY <1>4 DEF PublishStarted, AgentReturns, AppendResponse, PublishCompleted
  <2>2. PICK to : /\ hpc' = [hpc EXCEPT ![h] = to]
                  /\ to \in Ending \ {"ready"} => hpc[h] \in Ending \ {"ready"}
    BY <1>4 DEF PublishStarted, AgentReturns, AppendResponse, PublishCompleted, Step, Ending, Replying
  <2>3. \A g \in Handlers : hpc'[g] \in Ending \ {"ready"} => hpc[g] \in Ending \ {"ready"}
    BY <2>2 DEF TypeOK
  <2> QED
    BY <2>1, <2>3 DEF Quiet
<1>5. ASSUME NEW h \in Handlers, TakeSender(h) PROVE Senders'
  <2> DEFINE r == ReqOf(h)
  <2>1. /\ UNCHANGED <<conn, inbox>> /\ hpc' = [hpc EXCEPT ![h] = "running"] /\ r \in Requests
        /\ IF HasSender(h) THEN /\ streams' = [streams EXCEPT ![r] = @ \cup {h}]
                                /\ registry' = registry \ {r}
                           ELSE UNCHANGED <<streams, registry>>
    BY <1>0, <1>5 DEF TakeSender, Taken, Step
  <2>2. \A g \in Handlers : g # h => hpc'[g] = hpc[g]
    BY <2>1 DEF TypeOK
  <2>3. HasSender(h) => r \in registry /\ streams[r] = {} /\ streams'[r] = {h} /\ conn[r] # "new"
    BY <2>1 DEF HasSender, Senders, TypeOK
  <2>4. \A s \in Requests : s # r => streams'[s] = streams[s] /\ (s \in registry' <=> s \in registry)
    BY SMTT(30), <2>1 DEF TypeOK
  <2>5. registry' \subseteq registry /\ (ProcOf(h) = HomeOf[r] => r \notin registry')
    BY <2>1 DEF HasSender
  <2>6. ASSUME NEW s \in Requests
        PROVE  /\ streams'[s] = {} \/ \E g \in Handlers : streams'[s] = {g}
               /\ conn'[s] = "new" => s \notin registry' /\ streams'[s] = {}
               /\ s \in registry' => streams'[s] = {}
    <3>1. CASE s # r
      BY <2>1, <2>4, <3>1 DEF Senders
    <3>2. CASE s = r /\ HasSender(h)
      BY <2>1, <2>3, <3>2
    <3>3. CASE s = r /\ ~HasSender(h)
      BY <2>1, <3>3 DEF Senders
    <3> QED
      BY <3>1, <3>2, <3>3
  <2>7. \A s \in Requests :
          /\ conn'[s] \in {"ok", "error"} => s \notin registry'
          /\ \A k \in DOMAIN inbox'[s] : inbox'[s][k] = s => s \notin registry'
    BY <2>1, <2>5 DEF Senders
  <2>8. \A s \in Requests : \A g \in Handlers :
          ReqOf(g) = s /\ ProcOf(g) = HomeOf[s] /\ hpc'[g] \in Ending \ {"ready"} => s \notin registry'
    BY <2>2, <2>5 DEF Senders
  <2> QED
    BY <2>6, <2>7, <2>8 DEF Senders
<1>6. ASSUME NEW h \in Handlers, FanOutResponse(h) PROVE Senders'
  <2>1. /\ UNCHANGED <<conn, streams, registry>> /\ hpc[h] = "answered"
        /\ hpc' = [hpc EXCEPT ![h] = "closing"] /\ ReqOf(h) \in Requests
    BY <1>0, <1>6 DEF FanOutResponse, Step
  <2>2. \A s \in Requests : \/ inbox'[s] = inbox[s]
                           \/ (HomeOf[s] = ProcOf(h) /\ inbox'[s] = Append(inbox[s], ReqOf(h)))
    BY <1>0, <1>6, FannedOut DEF FanOutResponse
  <2>3. ProcOf(h) = HomeOf[ReqOf(h)] => ReqOf(h) \notin registry
    BY <2>1 DEF Senders, Ending
  <2>4. ASSUME NEW s \in Requests, NEW k \in DOMAIN inbox'[s], inbox'[s][k] = s PROVE s \notin registry
    <3>1. CASE inbox'[s] = inbox[s]
      BY <2>4, <3>1 DEF Senders
    <3>2. CASE HomeOf[s] = ProcOf(h) /\ inbox'[s] = Append(inbox[s], ReqOf(h))
      <4>1. inbox[s] \in Seq(Requests)
        BY <1>0
      <4>2. (k \in DOMAIN inbox[s] /\ inbox[s][k] = s) \/ ReqOf(h) = s
        BY <2>1, <2>4, <3>2, <4>1, Queued
      <4> QED
        BY <2>3, <3>2, <4>2 DEF Senders
    <3> QED
      BY <2>2, <3>1, <3>2
  <2>5. \A g \in Handlers : hpc'[g] \in Ending \ {"ready"} => hpc[g] \in Ending \ {"ready"}
    BY <2>1 DEF Ending, TypeOK
  <2> QED
    BY <2>1, <2>4, <2>5 DEF Senders
<1>7. CASE UNCHANGED vars
  <2>1. streams' = streams /\ registry' = registry /\ conn' = conn /\ inbox' = inbox /\ hpc' = hpc
    BY <1>7 DEF vars
  <2> QED
    BY <2>1, QuietSenders DEF Quiet
<1> QED
  BY <1>1, <1>2, <1>3, <1>4, <1>5, <1>6, <1>7, QuietSenders
     DEF Next, ConnectorStep, WorkerStep, HandlerStep

-----------------------------------------------------------------------------
(* A request that loses ways, or exchanges one for another, has one at     *)
(* most again; a response uses up the only one.                            *)
LEMMA WayKept ==
  ASSUME NEW r \in Requests, OneWayFor(r), overlap \subseteq overlap', replies'[r] = replies[r],
         Chances(r)' \subseteq Chances(r)
  PROVE  OneWayFor(r)'
BY DEF OneWayFor

LEMMA WayMoved ==
  ASSUME NEW r \in Requests, OneWayFor(r), overlap \subseteq overlap', replies'[r] = replies[r],
         NEW c \in Chances(r), NEW d, Chances(r)' \subseteq (Chances(r) \ {c}) \cup {d}
  PROVE  OneWayFor(r)'
BY DEF OneWayFor

LEMMA WayUsed ==
  ASSUME TypeOK, NEW r \in Requests, OneWayFor(r), overlap \subseteq overlap',
         replies'[r] = replies[r] + 1, NEW c \in Chances(r), Chances(r)' \subseteq Chances(r) \ {c}
  PROVE  OneWayFor(r)'
<1>1. replies[r] \in Nat
  BY DEF TypeOK
<1>2. CASE r \notin overlap
  <2>1. replies'[r] = 1 /\ Chances(r)' = {}
    BY <1>1, <1>2 DEF OneWayFor
  <2> QED
    BY <2>1 DEF OneWayFor
<1> QED
  BY <1>2 DEF OneWayFor

LEMMA WayOpened ==
  ASSUME NEW r \in Requests, replies'[r] = 0, NEW d, Chances(r)' \subseteq {d}
  PROVE  OneWayFor(r)'
BY DEF OneWayFor

LEMMA PlaceOf ==
  ASSUME NEW c \in Places
  PROVE  \E k \in {"fanout", "channel", "orphan"} \cup Ways, p \in Procs : c = <<k, p>>
<1>1. c[1] \in {"fanout", "channel", "orphan"} \cup Ways /\ c[2] \in Procs /\ c = <<c[1], c[2]>>
  BY DEF Places
<1> QED
  BY <1>1

(* Where the ways of a request are, place by place.                        *)
LEMMA WaysOf ==
  ASSUME NEW r \in Requests, NEW p \in Procs
  PROVE  /\ <<"fanout", HomeOf[r]>> \in Chances(r) <=> conn[r] = "stored"
         /\ <<"channel", p>> \in Chances(r) <=> InChannel(p, r)
         /\ <<"orphan", p>> \in Chances(r) <=> ToRecover(p, r)
         /\ \A w \in Ways : <<w, p>> \in Chances(r) <=> AtWork(<<p, r, w>>)
<1>1. HomeOf[r] \in Procs
  BY PipelineAssumption
<1>2. "fanout" \notin Ways /\ "channel" \notin Ways /\ "orphan" \notin Ways
  BY DEF Ways
<1>3. ASSUME NEW k \in {"fanout", "channel", "orphan"} \cup Ways, NEW q \in Procs
      PROVE  /\ <<k, q>> \in Chances(r) <=> At(r, <<k, q>>)
             /\ <<k, q>>[1] = k /\ <<k, q>>[2] = q
  BY DEF Chances, Places
<1>4. <<"fanout", HomeOf[r]>> \in Chances(r) <=> conn[r] = "stored"
  <2>1. <<"fanout", HomeOf[r]>> \in Chances(r) <=> At(r, <<"fanout", HomeOf[r]>>)
    BY <1>1, <1>3
  <2> QED
    BY <1>2, <2>1 DEF At
<1>5. <<"channel", p>> \in Chances(r) <=> InChannel(p, r)
  BY <1>2, <1>3 DEF At
<1>6. <<"orphan", p>> \in Chances(r) <=> ToRecover(p, r)
  BY <1>2, <1>3 DEF At
<1>7. ASSUME NEW w \in Ways PROVE <<w, p>> \in Chances(r) <=> AtWork(<<p, r, w>>)
  <2>1. w # "fanout" /\ w # "channel" /\ w # "orphan"
    BY <1>2
  <2> QED
    BY <1>3, <2>1 DEF At
<1> QED
  BY <1>4, <1>5, <1>6, <1>7

(* Whatever ways a request has next are in C, place by place.              *)
LEMMA WaysWithin ==
  ASSUME NEW r \in Requests, NEW C,
         conn'[r] = "stored" => <<"fanout", HomeOf[r]>> \in C,
         \A p \in Procs : InChannel(p, r)' => <<"channel", p>> \in C,
         \A p \in Procs : ToRecover(p, r)' => <<"orphan", p>> \in C,
         \A p \in Procs, w \in Ways : AtWork(<<p, r, w>>)' => <<w, p>> \in C
  PROVE  Chances(r)' \subseteq C
<1>1. SUFFICES ASSUME NEW k \in {"fanout", "channel", "orphan"} \cup Ways, NEW p \in Procs,
                      At(r, <<k, p>>)'
               PROVE  <<k, p>> \in C
  BY PlaceOf DEF Chances
<1>2. <<k, p>>[1] = k /\ <<k, p>>[2] = p
  OBVIOUS
<1>3. \/ k = "fanout" /\ p = HomeOf[r] /\ conn'[r] = "stored"
      \/ k = "channel" /\ InChannel(p, r)'
      \/ k = "orphan" /\ ToRecover(p, r)'
      \/ k \in Ways /\ AtWork(<<p, r, k>>)'
  BY <1>1, <1>2 DEF At
<1> QED
  BY <1>3

LEMMA FewerWays ==
  ASSUME NEW r \in Requests, OneWayFor(r), overlap \subseteq overlap', replies'[r] = replies[r],
         conn'[r] = "stored" => conn[r] = "stored",
         \A p \in Procs : InChannel(p, r)' => InChannel(p, r),
         \A p \in Procs : ToRecover(p, r)' => ToRecover(p, r),
         \A h \in Handlers : AtWork(h)' => AtWork(h)
  PROVE  OneWayFor(r)'
<1>1. \A p \in Procs, w \in Ways : AtWork(<<p, r, w>>)' => AtWork(<<p, r, w>>)
  BY DEF Handlers
<1> DEFINE C == Chances(r)
<1>2. /\ conn'[r] = "stored" => <<"fanout", HomeOf[r]>> \in C
      /\ \A p \in Procs : InChannel(p, r)' => <<"channel", p>> \in C
      /\ \A p \in Procs : ToRecover(p, r)' => <<"orphan", p>> \in C
      /\ \A p \in Procs, w \in Ways : AtWork(<<p, r, w>>)' => <<w, p>> \in C
  <2>1. conn'[r] = "stored" => <<"fanout", HomeOf[r]>> \in C
    BY PipelineAssumption, WaysOf
  <2>2. ASSUME NEW p \in Procs
        PROVE  /\ InChannel(p, r)' => <<"channel", p>> \in C
               /\ ToRecover(p, r)' => <<"orphan", p>> \in C
    <3>1. /\ InChannel(p, r) => <<"channel", p>> \in C
          /\ ToRecover(p, r) => <<"orphan", p>> \in C
      BY WaysOf
    <3> QED
      BY <3>1
  <2>3. ASSUME NEW p \in Procs, NEW w \in Ways
        PROVE  AtWork(<<p, r, w>>)' => <<w, p>> \in C
    <3>1. AtWork(<<p, r, w>>) => <<w, p>> \in C
      BY WaysOf
    <3> QED
      BY <1>1, <3>1
  <2> QED
    BY <2>1, <2>2, <2>3
<1> HIDE DEF C
<1>3. Chances(r)' \subseteq C
  BY <1>2, WaysWithin
<1> QED
  BY <1>3, WayKept DEF C

(* A channel that is not filled brings nobody's event.                     *)
LEMMA ChannelsOf ==
  ASSUME TypeOK, NEW p \in Procs,
         inbox'[p] \in {inbox[p], <<>>} \/ (inbox[p] # <<>> /\ inbox'[p] = Tail(inbox[p]))
  PROVE  \A r : InChannel(p, r)' => InChannel(p, r)
<1>1. inbox[p] \in Seq(Requests)
  BY DEF TypeOK, Receivers
<1>2. CASE inbox'[p] \in {inbox[p], <<>>}
  BY <1>2 DEF InChannel
<1>3. CASE inbox[p] # <<>> /\ inbox'[p] = Tail(inbox[p])
  BY <1>1, <1>3, Received DEF InChannel
<1> QED
  BY <1>2, <1>3

(* A request without a row has no way yet, and no response.                *)
LEMMA NoRowNoWay ==
  ASSUME TypeOK, Placed, Answers, Books, NEW r \in Requests, r \notin Inbound
  PROVE  Chances(r) = {} /\ replies[r] = 0
<1>1. begun[r] = 0 /\ replies[r] \in Nat /\ begun[r] \in Nat
  BY DEF Answers, TypeOK
<1>2. /\ Cardinality(Working(r, Replying)) \in Nat
      /\ replies[r] + Cardinality(Working(r, Replying)) <= begun[r]
  BY FS_CardinalityType DEF Books
<1>3. replies[r] = 0
  BY <1>1, <1>2
<1>4. conn[r] # "stored"
  BY DEF Placed, Reached
<1>5. \A p \in Procs : ~InChannel(p, r) /\ ~ToRecover(p, r)
  <2>1. \A p \in Procs : \A k \in orphans[p] : inbound[k] \in Inbound
    BY DEF TypeOK, Inbound
  <2> QED
    BY <2>1 DEF Placed, InChannel, ToRecover
<1>6. \A p \in Procs, w \in Ways : ~AtWork(<<p, r, w>>)
  <2>1. \A p \in Procs, w \in Ways : <<p, r, w>> \in Handlers /\ ReqOf(<<p, r, w>>) = r
    BY DEF Handlers, ReqOf
  <2> QED
    BY <2>1 DEF Placed, Active, AtWork, Ahead, Replying
<1>7. ASSUME NEW c \in Chances(r) PROVE FALSE
  <2>1. PICK k \in {"fanout", "channel", "orphan"} \cup Ways, p \in Procs : c = <<k, p>>
    BY PlaceOf DEF Chances
  <2>2. \/ k = "fanout" /\ p = HomeOf[r]
        \/ k = "channel" \/ k = "orphan" \/ k \in Ways
    BY <1>7, <2>1 DEF Chances, At
  <2>3. CASE k \in Ways
    BY <1>6, <1>7, <2>1, <2>3, WaysOf
  <2>4. CASE k = "channel" \/ k = "orphan"
    BY <1>5, <1>7, <2>1, <2>4, WaysOf
  <2>5. CASE k = "fanout" /\ p = HomeOf[r]
    BY <1>4, <1>7, <2>1, <2>5, WaysOf
  <2> QED
    BY <2>2, <2>3, <2>4, <2>5
<1> QED
  BY <1>3, <1>7

-----------------------------------------------------------------------------
(* The steps that open a way, exchange one, or use one up.                 *)
LEMMA OneWayAppended ==
  ASSUME TypeOK, Placed, Answers, Books, OneWay, NEW r \in Requests, AppendMessage(r)
  PROVE  OneWay'
<1>1. /\ conn[r] = "subscribed" /\ conn' = [conn EXCEPT ![r] = "stored"]
      /\ inbound' = Append(inbound, r) /\ UNCHANGED <<replies, inbox, orphans, hpc, overlap>>
  BY DEF AppendMessage, GoTo
<1>2. Chances(r) = {} /\ replies[r] = 0
  BY <1>1, NoRowNoWay DEF Placed, Unsent
<1>3. \A p \in Procs, s \in Requests : /\ InChannel(p, s)' <=> InChannel(p, s)
                                       /\ ToRecover(p, s)' <=> ToRecover(p, s)
  <2>1. inbound \in Seq(Requests) /\ \A p \in Procs : orphans[p] \subseteq DOMAIN inbound
    BY DEF TypeOK
  <2>2. \A p \in Procs : \A k \in orphans[p] : inbound'[k] = inbound[k]
    BY <1>1, <2>1, Queued
  <2> QED
    BY <1>1, <2>2 DEF InChannel, ToRecover
<1>4. \A h \in Handlers : AtWork(h)' <=> AtWork(h)
  BY <1>1 DEF AtWork
<1>5. OneWayFor(r)'
  <2> DEFINE C == {<<"fanout", HomeOf[r]>>}
  <2>1. \A p \in Procs : ~InChannel(p, r)' /\ ~ToRecover(p, r)'
    BY <1>2, <1>3, WaysOf
  <2>2. ASSUME NEW p \in Procs, NEW w \in Ways PROVE ~AtWork(<<p, r, w>>)'
    BY <1>2, <1>4, WaysOf DEF Handlers
  <2>3. Chances(r)' \subseteq C
    BY <2>1, <2>2, WaysWithin
  <2> QED
    BY <1>1, <1>2, <2>3, WayOpened
<1>6. ASSUME NEW s \in Requests, s # r PROVE OneWayFor(s)'
  <2>1. conn'[s] = conn[s]
    BY <1>1, <1>6 DEF TypeOK
  <2> QED
    BY <1>1, <1>3, <1>4, <2>1, FewerWays DEF OneWay
<1> QED
  BY <1>5, <1>6 DEF OneWay

LEMMA OneWayFannedOut ==
  ASSUME TypeOK, OneWay, NEW r \in Requests, FanOutMessage(r)
  PROVE  OneWay'
<1>0. HomeOf \in [Requests -> Procs] /\ Procs \subseteq Receivers
  BY PipelineAssumption DEF Receivers
<1>1. /\ conn[r] = "stored" /\ conn' = [conn EXCEPT ![r] = "waiting"]
      /\ UNCHANGED <<inbound, replies, orphans, hpc, overlap>>
      /\ \A x \in Receivers : \/ inbox'[x] = inbox[x]
                              \/ (x = HomeOf[r] /\ inbox'[x] = Append(inbox[x], r))
  BY FannedOut DEF FanOutMessage, GoTo, store
<1>2. conn'[r] = "waiting" /\ \A s \in Requests : s # r => conn'[s] = conn[s]
  BY <1>1 DEF TypeOK
<1>3. ASSUME NEW p \in Procs, NEW s \in Requests, InChannel(p, s)'
      PROVE  InChannel(p, s) \/ (p = HomeOf[r] /\ s = r)
  <2>1. CASE inbox'[p] = inbox[p]
    BY <1>3, <2>1 DEF InChannel
  <2>2. CASE p = HomeOf[r] /\ inbox'[p] = Append(inbox[p], r)
    <3>1. inbox[p] \in Seq(Requests)
      BY <1>0 DEF TypeOK
    <3> QED
      BY <1>3, <2>2, <3>1, Queued DEF InChannel
  <2> QED
    BY <1>0, <1>1, <2>1, <2>2
<1>4. /\ \A p \in Procs, s \in Requests : ToRecover(p, s)' <=> ToRecover(p, s)
      /\ \A h \in Handlers : AtWork(h)' <=> AtWork(h)
  BY <1>1 DEF ToRecover, AtWork
<1>5. OneWayFor(r)'
  <2> DEFINE c == <<"fanout", HomeOf[r]>>
             d == <<"channel", HomeOf[r]>>
             C == (Chances(r) \ {c}) \cup {d}
  <2>1. c \in Chances(r)
    BY <1>0, <1>1, WaysOf
  <2>2. ASSUME NEW p \in Procs
        PROVE  /\ InChannel(p, r)' => <<"channel", p>> \in C
               /\ ToRecover(p, r)' => <<"orphan", p>> \in C
               /\ \A w \in Ways : AtWork(<<p, r, w>>)' => <<w, p>> \in C
    <3>1. /\ InChannel(p, r) => <<"channel", p>> \in Chances(r)
          /\ ToRecover(p, r) => <<"orphan", p>> \in Chances(r)
          /\ \A w \in Ways : AtWork(<<p, r, w>>) => <<w, p>> \in Chances(r)
      BY WaysOf
    <3>2. InChannel(p, r)' => <<"channel", p>> \in C
      BY <1>3, <3>1
    <3>3. ToRecover(p, r)' => <<"orphan", p>> \in C
      BY <1>4, <3>1
    <3>4. ASSUME NEW w \in Ways, AtWork(<<p, r, w>>)' PROVE <<w, p>> \in C
      <4>1. AtWork(<<p, r, w>>) /\ w # "fanout"
        BY <1>4, <3>4 DEF Handlers, Ways
      <4> QED
        BY <3>1, <4>1
    <3> QED
      BY <3>2, <3>3, <3>4
  <2> HIDE DEF C
  <2>3. Chances(r)' \subseteq C
    BY <1>2, <2>2, WaysWithin
  <2> QED
    BY <1>1, <2>1, <2>3, WayMoved DEF OneWay, C
<1>6. ASSUME NEW s \in Requests, s # r PROVE OneWayFor(s)'
  BY <1>1, <1>2, <1>3, <1>4, <1>6, FewerWays DEF OneWay
<1> QED
  BY <1>5, <1>6 DEF OneWay

LEMMA OneWayScanned ==
  ASSUME TypeOK, OneWay, NEW p \in Procs, Scan(p)
  PROVE  OneWay'
<1> DEFINE Missed(r) == \E k \in Unmatched : inbound[k] = r
<1>1. /\ orphans' = [orphans EXCEPT ![p] = Unmatched]
      /\ overlap' = overlap \cup { r \in UnderWay : Missed(r) }
      /\ UNCHANGED <<inbound, replies, conn, inbox, hpc>>
  BY DEF Scan, store
<1>2. /\ \A q \in Procs, r \in Requests : InChannel(q, r)' <=> InChannel(q, r)
      /\ \A h \in Handlers : AtWork(h)' <=> AtWork(h)
  BY <1>1 DEF InChannel, AtWork
<1>3. \A q \in Procs, r \in Requests :
        ToRecover(q, r)' <=> IF q = p THEN Missed(r) ELSE ToRecover(q, r)
  <2>1. orphans'[p] = Unmatched /\ \A q \in Procs : q # p => orphans'[q] = orphans[q]
    BY <1>1 DEF TypeOK
  <2> QED
    BY <1>1, <2>1 DEF ToRecover
<1>4. ASSUME NEW r \in Requests, ~Missed(r) PROVE OneWayFor(r)'
  <2>1. \A q \in Procs : ToRecover(q, r)' => ToRecover(q, r)
    BY <1>3, <1>4
  <2> QED
    BY <1>1, <1>2, <2>1, FewerWays DEF OneWay
<1>5. ASSUME NEW r \in Requests, Missed(r), r \notin UnderWay PROVE OneWayFor(r)'
  <2>1. replies[r] = 0
    BY <1>5 DEF Unmatched
  <2>2. conn[r] # "stored" /\ \A q \in Procs : ~Picked(q, r)
    BY <1>5 DEF UnderWay
  <2>3. \A q \in Procs : ~InChannel(q, r) /\ ~ToRecover(q, r)
    BY <2>2 DEF Picked, InChannel, ToRecover
  <2>4. \A q \in Procs, w \in Ways : ~AtWork(<<q, r, w>>)
    BY <2>2 DEF Picked, Active, AtWork, Ahead, Replying
  <2> DEFINE C == {<<"orphan", p>>}
  <2>5. \A q \in Procs : ~InChannel(q, r)' /\ (ToRecover(q, r)' => <<"orphan", q>> \in C)
    BY <1>2, <1>3, <2>3
  <2>6. ASSUME NEW q \in Procs, NEW w \in Ways PROVE ~AtWork(<<q, r, w>>)'
    BY <1>2, <2>4 DEF Handlers
  <2>7. conn'[r] # "stored"
    BY <1>1, <2>2
  <2> HIDE DEF C
  <2>8. Chances(r)' \subseteq C
    BY <2>5, <2>6, <2>7, WaysWithin
  <2> QED
    BY <1>1, <2>1, <2>8, WayOpened DEF C
<1>6. ASSUME NEW r \in Requests, Missed(r), r \in UnderWay PROVE OneWayFor(r)'
  <2>1. r \in overlap'
    BY <1>1, <1>6
  <2> QED
    BY <2>1 DEF OneWayFor
<1> QED
  BY <1>4, <1>5, <1>6 DEF OneWay

(* A handler is called for a request: for its orphan row, or its event.    *)
LEMMA OneWayCalled ==
  ASSUME OneWay, NEW p \in Procs, NEW r \in Requests, NEW w \in Ways,
         DOMAIN hpc = Handlers, hpc' = [hpc EXCEPT ![<<p, r, w>>] = "starting"],
         UNCHANGED <<replies, overlap, conn>>,
         NEW c \in {<<"orphan", p>>, <<"channel", p>>}, c \in Chances(r),
         \A q \in Procs, s \in Requests : InChannel(q, s)' => InChannel(q, s),
         \A q \in Procs, s \in Requests : ToRecover(q, s)' => ToRecover(q, s),
         c = <<"orphan", p>> => ~ToRecover(p, r)',
         c = <<"channel", p>> => ~InChannel(p, r)'
  PROVE  OneWay'
<1>1. \A h \in Handlers : h # <<p, r, w>> => (AtWork(h)' <=> AtWork(h))
  BY DEF AtWork
<1>2. OneWayFor(r)'
  <2> DEFINE d == <<w, p>>
             C == (Chances(r) \ {c}) \cup {d}
  <2>1. ASSUME NEW q \in Procs
        PROVE  /\ InChannel(q, r)' => <<"channel", q>> \in C
               /\ ToRecover(q, r)' => <<"orphan", q>> \in C
               /\ \A v \in Ways : AtWork(<<q, r, v>>)' => <<v, q>> \in C
    <3>1. /\ InChannel(q, r) => <<"channel", q>> \in Chances(r)
          /\ ToRecover(q, r) => <<"orphan", q>> \in Chances(r)
          /\ \A v \in Ways : AtWork(<<q, r, v>>) => <<v, q>> \in Chances(r)
      BY WaysOf
    <3>2. InChannel(q, r)' => <<"channel", q>> \in C
      BY <3>1
    <3>3. ToRecover(q, r)' => <<"orphan", q>> \in C
      BY <3>1
    <3>4. ASSUME NEW v \in Ways, AtWork(<<q, r, v>>)' PROVE <<v, q>> \in C
      <4>1. v # "orphan" /\ v # "channel"
        BY DEF Ways
      <4>2. CASE q = p /\ v = w
        BY <4>2
      <4>3. CASE ~(q = p /\ v = w)
        <5>1. <<q, r, v>> \in Handlers /\ <<q, r, v>> # <<p, r, w>>
          BY <4>3 DEF Handlers
        <5>2. AtWork(<<q, r, v>>)
          BY <1>1, <3>4, <5>1
        <5> QED
          BY <3>1, <4>1, <5>2
      <4> QED
        BY <4>2, <4>3
    <3> QED
      BY <3>2, <3>3, <3>4
  <2>2. conn'[r] = "stored" => <<"fanout", HomeOf[r]>> \in C
    <3>1. conn[r] = "stored" => <<"fanout", HomeOf[r]>> \in Chances(r)
      BY WaysOf
    <3> QED
      BY <3>1
  <2> HIDE DEF C
  <2>3. Chances(r)' \subseteq C
    BY <2>1, <2>2, WaysWithin
  <2> QED
    BY <2>3, WayMoved DEF OneWay, C
<1>3. ASSUME NEW s \in Requests, s # r PROVE OneWayFor(s)'
  <2>1. ASSUME NEW q \in Procs, NEW v \in Ways PROVE AtWork(<<q, s, v>>)' => AtWork(<<q, s, v>>)
    <3>1. <<q, s, v>> \in Handlers /\ <<q, s, v>> # <<p, r, w>>
      BY <1>3 DEF Handlers
    <3> QED
      BY <1>1, <3>1
  <2> DEFINE C == Chances(s)
  <2>2. ASSUME NEW q \in Procs
        PROVE  /\ InChannel(q, s)' => <<"channel", q>> \in C
               /\ ToRecover(q, s)' => <<"orphan", q>> \in C
               /\ \A v \in Ways : AtWork(<<q, s, v>>)' => <<v, q>> \in C
    BY <2>1, WaysOf
  <2>3. conn'[s] = "stored" => <<"fanout", HomeOf[s]>> \in C
    BY WaysOf
  <2> HIDE DEF C
  <2>4. Chances(s)' \subseteq C
    BY <2>2, <2>3, WaysWithin
  <2> QED
    BY <2>4, WayKept DEF OneWay, C
<1> QED
  BY <1>2, <1>3 DEF OneWay

LEMMA OneWayAnswered ==
  ASSUME TypeOK, OneWay, NEW h \in Handlers, AppendResponse(h)
  PROVE  OneWay'
<1> DEFINE r == ReqOf(h)
<1>1. /\ UNCHANGED <<conn, inbox, orphans, inbound, overlap>> /\ hpc[h] = "answering"
      /\ hpc' = [hpc EXCEPT ![h] = "closing"] \/ hpc' = [hpc EXCEPT ![h] = "answered"]
      /\ replies' = replies \/ replies' = [replies EXCEPT ![r] = @ + 1]
  BY DEF AppendResponse, AppendFails, Step, store
<1>2. PICK p \in Procs, w \in Ways : h = <<p, r, w>> /\ r \in Requests
  <2>1. h = <<h[1], h[2], h[3]>> /\ h[1] \in Procs /\ h[2] \in Requests /\ h[3] \in Ways
    BY DEF Handlers
  <2> QED
    BY <2>1 DEF ReqOf
<1>3. AtWork(h) /\ ~AtWork(h)' /\ \A g \in Handlers : AtWork(g)' => AtWork(g)
  BY <1>1 DEF AtWork, Ahead, Replying, TypeOK
<1>4. /\ \A q \in Procs, s \in Requests : InChannel(q, s)' <=> InChannel(q, s)
      /\ \A q \in Procs, s \in Requests : ToRecover(q, s)' <=> ToRecover(q, s)
  BY <1>1 DEF InChannel, ToRecover
<1>5. ASSUME NEW s \in Requests, replies'[s] = replies[s] PROVE OneWayFor(s)'
  BY <1>1, <1>3, <1>4, <1>5, FewerWays DEF OneWay
<1>6. ASSUME replies' = [replies EXCEPT ![r] = @ + 1] PROVE OneWayFor(r)'
  <2> DEFINE c == <<w, p>>
             C == Chances(r) \ {c}
  <2>1. c \in Chances(r)
    BY <1>2, <1>3, WaysOf
  <2>2. replies'[r] = replies[r] + 1
    BY <1>2, <1>6 DEF TypeOK
  <2>3. ASSUME NEW q \in Procs
        PROVE  /\ InChannel(q, r)' => <<"channel", q>> \in C
               /\ ToRecover(q, r)' => <<"orphan", q>> \in C
               /\ \A v \in Ways : AtWork(<<q, r, v>>)' => <<v, q>> \in C
    <3>1. /\ InChannel(q, r) => <<"channel", q>> \in Chances(r)
          /\ ToRecover(q, r) => <<"orphan", q>> \in Chances(r)
          /\ \A v \in Ways : AtWork(<<q, r, v>>) => <<v, q>> \in Chances(r)
      BY <1>2, WaysOf
    <3>2. w # "channel" /\ w # "orphan"
      BY DEF Ways
    <3>3. ASSUME NEW v \in Ways, AtWork(<<q, r, v>>)' PROVE <<v, q>> \in C
      <4>1. <<q, r, v>> \in Handlers
        BY <1>2 DEF Handlers
      <4>2. ~(q = p /\ v = w)
        BY <1>2, <1>3, <3>3
      <4> QED
        BY <1>3, <3>1, <3>3, <4>1, <4>2
    <3> QED
      BY <1>4, <1>2, <3>1, <3>2, <3>3
  <2>4. conn'[r] = "stored" => <<"fanout", HomeOf[r]>> \in C
    <3>1. conn[r] = "stored" => <<"fanout", HomeOf[r]>> \in Chances(r)
      BY <1>2, WaysOf
    <3>2. w # "fanout"
      BY DEF Ways
    <3> QED
      BY <1>1, <3>1, <3>2
  <2> HIDE DEF C
  <2>5. Chances(r)' \subseteq C
    BY <1>2, <2>3, <2>4, WaysWithin
  <2> QED
    BY <1>1, <1>2, <2>1, <2>2, <2>5, WayUsed DEF OneWay, C
<1>7. \A s \in Requests : s # r => replies'[s] = replies[s]
  BY <1>1 DEF TypeOK
<1>8. OneWayFor(r)'
  BY <1>1, <1>2, <1>5, <1>6
<1> QED
  BY <1>5, <1>7, <1>8 DEF OneWay

(* No step brings a second way to a response, nor one after the response.  *)
LEMMA KeepsOneWay ==
  ASSUME TypeOK, TypeOK', Placed, Answers, Books, OneWay, [Next]_vars
  PROVE  OneWay'
<1>0. /\ Requests \subseteq Receivers /\ Procs \subseteq Receivers
      /\ \A r \in Requests : r \notin Procs
      /\ \A x \in Receivers : inbox[x] \in Seq(Requests)
      /\ inbound \in Seq(Requests) /\ DOMAIN hpc = Handlers
  BY PipelineAssumption DEF Receivers, TypeOK
<1>1. ASSUME UNCHANGED <<inbound, replies>>, overlap \subseteq overlap',
             \A r \in Requests : conn'[r] = "stored" => conn[r] = "stored",
             \A p \in Procs : inbox'[p] \in {inbox[p], <<>>},
             \A p \in Procs : orphans'[p] \subseteq orphans[p],
             \A h \in Handlers : AtWork(h)' => AtWork(h)
      PROVE  OneWay'
  <2>1. \A p \in Procs, r \in Requests : InChannel(p, r)' => InChannel(p, r)
    BY <1>1, ChannelsOf
  <2>2. \A p \in Procs, r \in Requests : ToRecover(p, r)' => ToRecover(p, r)
    BY <1>1 DEF ToRecover
  <2> QED
    BY <1>1, <2>1, <2>2, FewerWays DEF OneWay
<1>2. ASSUME NEW r \in Requests,
             \/ Register(r) \/ SubscribeConnector(r) \/ PublishFails(r) \/ Receive(r)
             \/ Timeout(r) \/ Abort(r)
      PROVE  OneWay'
  <2>1. UNCHANGED <<inbound, replies, overlap, orphans, hpc>>
    BY <1>2 DEF Register, SubscribeConnector, PublishFails, AppendFails, Receive, Heard, Timeout,
                Abort, store
  <2>2. conn' = conn \/ \E to \in {"registered", "subscribed", "error", "ok", "gone"} :
                           conn' = [conn EXCEPT ![r] = to]
    BY <1>2 DEF Register, SubscribeConnector, PublishFails, Receive, Heard, Timeout, Abort, GoTo
  <2>3. \A s \in Requests : conn'[s] = "stored" => conn[s] = "stored"
    BY <2>2 DEF TypeOK
  <2>4. \A p \in Procs : inbox'[p] = inbox[p]
    <3>1. \/ inbox' = inbox
          \/ inbox' = [inbox EXCEPT ![r] = <<>>]
          \/ inbox[r] # <<>> /\ inbox' = [inbox EXCEPT ![r] = Tail(@)]
      BY <1>2 DEF Register, SubscribeConnector, PublishFails, Receive, Heard, Timeout, Abort,
                  Unsubscribe
    <3> QED
      BY <1>0, <3>1, Drained
  <2> QED
    BY <1>1, <2>1, <2>3, <2>4 DEF AtWork
<1>3. ASSUME NEW p \in Procs,
             ScanFails(p) \/ RecoveryDone(p) \/ SubscribeWorker(p) \/ Start(p)
      PROVE  OneWay'
  <2>1. UNCHANGED <<inbound, replies, overlap, conn, inbox, hpc>>
    BY <1>3 DEF ScanFails, RecoveryDone, Recovered, SubscribeWorker, Start, store
  <2>2. \A q \in Procs : orphans'[q] \subseteq orphans[q]
    BY ZenonT(30), <1>3 DEF ScanFails, RecoveryDone, Recovered, SubscribeWorker, Start, TypeOK
  <2> QED
    BY <1>1, <2>1, <2>2 DEF AtWork
<1>4. ASSUME NEW p \in Procs, Crash(p) PROVE OneWay'
  <2>1. UNCHANGED <<inbound, replies, overlap>>
    BY <1>4 DEF Crash, store
  <2>2. \A q \in Procs : inbox'[q] \in {inbox[q], <<>>}
    BY <1>0, <1>4 DEF Crash
  <2>3. \A q \in Procs : orphans'[q] \subseteq orphans[q]
    BY <1>4 DEF Crash, TypeOK
  <2>4. \A r \in Requests : conn'[r] = "stored" => conn[r] = "stored"
    BY <1>4 DEF Crash
  <2>5. \A h \in Handlers : AtWork(h)' => AtWork(h)
    BY <1>4 DEF Crash, AtWork, Ahead, Replying
  <2> QED
    BY <1>1, <2>1, <2>2, <2>3, <2>4, <2>5
<1>5. ASSUME NEW p \in Procs, RecoverNext(p) PROVE OneWay'
  <2>1. PICK k \in orphans[p] :
          /\ hpc' = [hpc EXCEPT ![<<p, inbound[k], "recovery">>] = "starting"]
          /\ orphans' = [orphans EXCEPT ![p] = @ \ {k}]
    BY <1>5 DEF RecoverNext
  <2>2. UNCHANGED <<inbound, replies, overlap, conn, inbox>>
    BY <1>5 DEF RecoverNext, store
  <2>3. /\ orphans'[p] = orphans[p] \ {k} /\ \A q \in Procs : q # p => orphans'[q] = orphans[q]
        /\ \A q \in Procs : orphans[q] \subseteq DOMAIN inbound
    BY <2>1 DEF TypeOK
  <2>4. PICK r \in Requests : r = inbound[k]
    BY <1>0, <2>3
  <2>5. \A q \in Procs, s \in Requests : /\ InChannel(q, s)' => InChannel(q, s)
                                         /\ ToRecover(q, s)' => ToRecover(q, s)
    BY <2>2, <2>3 DEF InChannel, ToRecover
  <2>6. ~ToRecover(p, r)'
    BY <2>2, <2>3, <2>4 DEF ToRecover, Placed
  <2>7. <<"orphan", p>> \in Chances(r)
    BY <2>4, WaysOf DEF ToRecover
  <2>8. "recovery" \in Ways /\ <<"orphan", p>> # <<"channel", p>>
    BY DEF Ways
  <2> QED
    BY <1>0, <2>1, <2>2, <2>4, <2>5, <2>6, <2>7, <2>8, OneWayCalled
<1>6. ASSUME NEW p \in Procs, SpawnHandler(p) PROVE OneWay'
  <2>1. /\ inbox[p] # <<>> /\ inbox' = [inbox EXCEPT ![p] = Tail(@)]
        /\ hpc' = [hpc EXCEPT ![<<p, Head(inbox[p]), "live">>] = "starting"]
        /\ UNCHANGED <<inbound, replies, overlap, conn, orphans>>
    BY <1>6 DEF SpawnHandler, store
  <2>2. PICK r \in Requests :
          /\ r = Head(inbox[p]) /\ 1 \in DOMAIN inbox[p] /\ r = inbox[p][1]
          /\ \A k \in DOMAIN Tail(inbox[p]) : /\ k \in Nat /\ k >= 1 /\ k + 1 \in DOMAIN inbox[p]
                                             /\ Tail(inbox[p])[k] = inbox[p][k + 1]
    BY <1>0, <2>1, Received
  <2>3. inbox'[p] = Tail(inbox[p]) /\ \A q \in Procs : q # p => inbox'[q] = inbox[q]
    BY <1>0, <2>1 DEF TypeOK
  <2>4. \A q \in Procs, s \in Requests : /\ InChannel(q, s)' => InChannel(q, s)
                                         /\ ToRecover(q, s)' => ToRecover(q, s)
    BY <2>1, <2>3, ChannelsOf DEF ToRecover
  <2>5. ~InChannel(p, r)'
    <3>1. SUFFICES ASSUME NEW k \in DOMAIN Tail(inbox[p]), Tail(inbox[p])[k] = r PROVE FALSE
      BY <2>3 DEF InChannel
    <3>2. k + 1 \in DOMAIN inbox[p] /\ inbox[p][k + 1] = inbox[p][1] /\ k + 1 # 1
      BY <2>2, <3>1
    <3> QED
      BY <2>2, <3>2 DEF Placed
  <2>6. <<"channel", p>> \in Chances(r)
    BY <2>2, WaysOf DEF InChannel
  <2>7. "live" \in Ways /\ <<"orphan", p>> # <<"channel", p>>
    BY DEF Ways
  <2> QED
    BY <1>0, <2>1, <2>2, <2>4, <2>5, <2>6, <2>7, OneWayCalled
<1>7. ASSUME NEW h \in Handlers,
             \/ PublishStarted(h) \/ TakeSender(h) \/ AgentReturns(h) \/ FanOutResponse(h)
             \/ PublishCompleted(h)
      PROVE  OneWay'
  <2>1. UNCHANGED <<inbound, replies, overlap, conn, orphans>>
    BY <1>7 DEF PublishStarted, TakeSender, Taken, AgentReturns, FanOutResponse, PublishCompleted,
                AppendFails, store
  <2>2. \A p \in Procs : inbox'[p] = inbox[p]
    <3>1. CASE FanOutResponse(h)
      <4>1. ReqOf(h) \in Requests
        BY DEF Handlers, ReqOf
      <4> QED
        BY <1>0, <3>1, <4>1, FannedOut DEF FanOutResponse
    <3> QED
      BY <1>7, <3>1 DEF PublishStarted, TakeSender, Taken, AgentReturns, PublishCompleted
  <2>3. PICK to : hpc' = [hpc EXCEPT ![h] = to] /\ (to \in Ahead => hpc[h] \in Ahead)
    BY <1>7 DEF PublishStarted, TakeSender, Taken, AgentReturns, FanOutResponse, PublishCompleted,
                Step, Ahead, Replying
  <2>4. \A g \in Handlers : AtWork(g)' => AtWork(g)
    BY <1>0, <2>3 DEF AtWork
  <2> QED
    BY <1>1, <2>1, <2>2, <2>4
<1>8. CASE UNCHANGED vars
  <2>1. UNCHANGED <<inbound, replies, overlap, conn, orphans, inbox, hpc>>
    BY <1>8 DEF vars, store
  <2> QED
    BY <1>1, <2>1 DEF AtWork
<1> QED
  BY <1>2, <1>3, <1>4, <1>5, <1>6, <1>7, <1>8, OneWayAppended, OneWayFannedOut, OneWayScanned,
     OneWayAnswered
     DEF Next, ConnectorStep, WorkerStep, HandlerStep

-----------------------------------------------------------------------------
PipelineInv == TypeOK /\ Placed /\ Answers /\ Books /\ Senders /\ OneWay

(* The inductive invariant, whatever processes crash and restart, whatever *)
(* publishes fail and whichever submits time out or are aborted.           *)
THEOREM PipelineInvariant == Spec => []PipelineInv
<1>1. Init => PipelineInv
  BY PipelineInit DEF PipelineInv
<1>2. PipelineInv /\ [Next]_vars => PipelineInv'
  BY KeepsTypes, KeepsPlaced, KeepsAnswers, KeepsBooks, KeepsSenders, KeepsOneWay DEF PipelineInv
<1> QED
  BY <1>1, <1>2, PTL DEF Spec

(* Types, and the bound on every channel of the pipeline.                  *)
THEOREM PipelineTypeCorrect == Spec => []TypeOK
<1>1. PipelineInv => TypeOK
  BY DEF PipelineInv
<1> QED
  BY <1>1, PipelineInvariant, PTL

(* submit_and_wait returns the response to its own request, which is in    *)
(* the store; no request is answered that was not asked and begun.         *)
THEOREM PipelineOwnAnswer == Spec => []OwnAnswer
<1>1. PipelineInv => OwnAnswer
  <2> SUFFICES ASSUME PipelineInv, NEW r \in Requests
               PROVE  replies[r] <= begun[r] /\ ended[r] <= begun[r]
    BY DEF PipelineInv, OwnAnswer, Answers
  <2>1. /\ Cardinality(Working(r, Replying)) \in Nat /\ Cardinality(Working(r, Ending)) \in Nat
        /\ replies[r] + Cardinality(Working(r, Replying)) <= begun[r]
        /\ ended[r] + Cardinality(Working(r, Ending)) <= begun[r]
    BY FS_CardinalityType DEF PipelineInv, Books
  <2>2. replies[r] \in Nat /\ ended[r] \in Nat /\ begun[r] \in Nat
    BY DEF PipelineInv, TypeOK
  <2> QED
    BY <2>1, <2>2
<1> QED
  BY <1>1, PipelineInvariant, PTL

(* take() is one-shot (stream_registry.rs:13): one handler at most streams *)
(* to a caller, and no sender outlives its submit in the registry.         *)
THEOREM PipelineOneStream == Spec => []OneStream
<1>1. PipelineInv => OneStream
  <2> SUFFICES ASSUME PipelineInv, NEW r \in Requests
               PROVE  /\ Cardinality(streams[r]) <= 1
                      /\ conn[r] \in {"ok", "error"} => r \notin registry
    BY DEF OneStream
  <2>1. Cardinality(streams[r]) = 0 \/ Cardinality(streams[r]) = 1
    BY ZenonT(30), FS_EmptySet, FS_Singleton DEF PipelineInv, Senders
  <2> QED
    BY <2>1 DEF PipelineInv, Senders
<1> QED
  BY <1>1, PipelineInvariant, PTL

(* A second response can only come from a scan that met the request while  *)
(* it was being submitted, or handled by another process's worker.         *)
THEOREM PipelineNoSecondAnswer == Spec => []NoSecondAnswer
<1>1. PipelineInv => NoSecondAnswer
  <2> SUFFICES ASSUME PipelineInv, NEW r \in Requests, r \notin overlap
               PROVE  ~(replies[r] > 1)
    BY DEF NoSecondAnswer
  <2>1. replies[r] \in Nat /\ replies[r] <= 1
    BY DEF PipelineInv, TypeOK, OneWay, OneWayFor
  <2> QED
    BY <2>1
<1> QED
  BY <1>1, PipelineInvariant, PTL

=============================================================================
