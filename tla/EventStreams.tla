----------------------------- MODULE EventStreams -----------------------------
(***************************************************************************)
(* The events of the program and the streams they belong to                *)
(* (src/events/mod.rs): every event has a uuid and the id of one stream,   *)
(* the conversation it is about.                                           *)
(***************************************************************************)

CONSTANTS Events,     \* the events that may ever be published (one uuid each)
          Streams,    \* stream ids: the conversations
          StreamOf    \* the stream each event belongs to

ASSUME StreamOfType == StreamOf \in [Events -> Streams]
==============================================================================
