------------------------------ MODULE EventLog ------------------------------
(***************************************************************************)
(* What the event store promises its users (trait EventStore in            *)
(* src/events/store.rs): "Append-only event store. Events are immutable    *)
(* once written."  An append is one indivisible step that puts a new event *)
(* at the end of its stream; the position in the stream is the event's     *)
(* sequence number.  EventStore refines this module; EventBus and          *)
(* EdaPipeline are built on it.                                            *)
(***************************************************************************)
EXTENDS EventStreams, Naturals, Sequences

VARIABLE log          \* log[s]: the events of stream s, in sequence order

Stored == UNION { {log[s][k] : k \in DOMAIN log[s]} : s \in Streams }

LogTypeOK == log \in [Streams -> Seq(Events)]

LogInit == log = [s \in Streams |-> <<>>]

(* An append either takes effect as a whole ...                            *)
AppendEvent(e) ==
  /\ e \notin Stored
  /\ log' = [log EXCEPT ![StreamOf[e]] = Append(@, e)]

LogNext == \E e \in Events : AppendEvent(e)

LogSpec == LogInit /\ [][LogNext]_log
=============================================================================
