------------------------------ MODULE LlmStream ------------------------------
(***************************************************************************)
(* One streamed answer of a model, as the ChatGPT provider puts it         *)
(* together from the bytes of a server-sent event stream                   *)
(* (send_streaming_request in core/chatgpt.rs) and the OpenAI provider     *)
(* from the deltas its library hands it (chat_stream in core/openai.rs).   *)
(*                                                                         *)
(* A line of the ChatGPT stream is two halves; the network cuts the bytes  *)
(* anywhere, and every chunk is decoded by itself.  The deltas of OpenAI's *)
(* calls may come interleaved.  A stream may break or end early.           *)
(***************************************************************************)
EXTENDS Naturals, Sequences, SequencesExt, FiniteSets

CONSTANTS Pieces,   \* pieces of texts and arguments
          Answers,  \* what models answer: text and arguments of calls in pieces;
                    \* full: the end of a call repeats its name and its id;
                    \* late: its arguments come at the end only
          Wide,     \* pieces with characters of several bytes
          Damaged   \* what a piece becomes when such a character is cut

ASSUME AnswersAssumption ==
  /\ Damaged \notin Pieces
  /\ \A a \in Answers : a \in [text : Seq(Pieces), calls : Seq(Seq(Pieces)),
                              full : BOOLEAN, late : BOOLEAN]

VARIABLES
  api,      \* "chatgpt" or "openai"
  answer,   \* what the model says
  left,     \* events to come: of ChatGPT a sequence, of OpenAI one per call
  half,     \* the first half of the next line in line_buf: "no", "whole", "hurt"
  got,      \* content, tool calls and what is accumulated for the next one
  shown,    \* pieces sent to the screen
  ended,    \* "no", "ok" or "err"
  damaged   \* history: a character was cut

streamVars == <<api, answer, left, half, got, shown, ended, damaged>>

-----------------------------------------------------------------------------
(* The servers (external).  The k-th call is named k and numbered k.       *)
Text(a) == [i \in DOMAIN a.text |-> [type |-> "text", delta |-> a.text[i]]]

Deltas(a, k) ==
  IF a.late THEN <<>>
  ELSE [i \in DOMAIN a.calls[k] |-> [type |-> "args", delta |-> a.calls[k][i]]]
Done(a, k) == [type |-> "args_done", call |-> IF a.full THEN k ELSE 0, args |-> a.calls[k]]

(* What comes from the k-th call on.                                       *)
EventsFrom(a) ==
  LET from[k \in 1 .. Len(a.calls) + 1] ==
        IF k > Len(a.calls) THEN <<[type |-> "DONE"]>>
        ELSE <<[type |-> "added", call |-> k]>> \o (Deltas(a, k) \o (<<Done(a, k)>> \o from[k + 1]))
  IN  from

ChatgptEvents(a) == Text(a) \o EventsFrom(a)[1]

(* OpenAI's first delta of a call has its id and its name.                 *)
CallDeltas(a, k) ==
  <<[type |-> "call", index |-> k, call |-> k, delta |-> <<>>]>>
  \o [i \in DOMAIN a.calls[k] |->
        [type |-> "call", index |-> k, call |-> 0, delta |-> <<a.calls[k][i]>>]]

OpenaiEvents(a) == <<Text(a)>> \o [k \in DOMAIN a.calls |-> CallDeltas(a, k)]

Nothing == [content |-> <<>>, calls |-> <<>>, args |-> <<>>, call |-> 0, map |-> <<>>]

InitStream ==
  /\ answer \in Answers /\ api \in {"chatgpt", "openai"}
  /\ left = IF api = "chatgpt" THEN ChatgptEvents(answer) ELSE OpenaiEvents(answer)
  /\ half = "no" /\ got = Nothing /\ shown = <<>> /\ ended = "no" /\ damaged = FALSE

-----------------------------------------------------------------------------
\* Mutant: the accumulated arguments stay for the next call.
ArgsDoneKeeps(g, e) ==
  [g EXCEPT !.calls = Append(@, [call |-> IF e.call # 0 THEN e.call ELSE g.call,
                                 args |-> IF g.args # <<>> THEN g.args ELSE e.args])]

(* A call is complete: its id and name are the event's, or those of the    *)
(* item that was added last; its arguments the deltas, or the event's.     *)
ArgsDone(g, e) ==
  [g EXCEPT !.calls = Append(@, [call |-> IF e.call # 0 THEN e.call ELSE g.call,
                                 args |-> IF g.args # <<>> THEN g.args ELSE e.args]),
            !.args = <<>>,
            !.call = IF e.call # 0 THEN @ ELSE 0]

Handle(g, e) ==
  CASE e.type = "added" -> [g EXCEPT !.call = e.call]
    [] e.type = "text" -> [g EXCEPT !.content = Append(@, e.delta)]
    [] e.type = "args" -> [g EXCEPT !.args = Append(@, e.delta)]
    [] e.type = "args_done" -> ArgsDone(g, e)
    [] e.type = "DONE" -> g

(* The lines of a chunk, one after the other.                              *)
Handled(g, lines) ==
  LET after[n \in 0 .. Len(lines)] == IF n = 0 THEN g ELSE Handle(after[n - 1], lines[n])
  IN  after

(* from_utf8_lossy of a chunk that ends, or begins, within a character.    *)
HasWide(e) == \/ "delta" \in DOMAIN e /\ e.delta \in Wide
              \/ "args" \in DOMAIN e /\ Range(e.args) \cap Wide # {}
Hurt(e) == CASE "delta" \in DOMAIN e -> [e EXCEPT !.delta = Damaged]
             [] "args" \in DOMAIN e -> [e EXCEPT !.args = <<Damaged>>]

(* A chunk of bytes arrives: the lines it completes are handled, its rest  *)
(* waits in line_buf.                                                      *)
Chunk ==
  /\ api = "chatgpt" /\ ended = "no"
  /\ \E lines \in 0 .. Len(left), rest \in {"no", "whole", "hurt"} :
       /\ lines > 0 \/ (rest # "no" /\ half = "no")
       /\ rest # "no" => lines < Len(left)
       /\ rest = "hurt" => HasWide(left[lines + 1])
       /\ LET whole == [i \in 1 .. lines |->
                          IF i = 1 /\ half = "hurt" THEN Hurt(left[i]) ELSE left[i]]
          IN  /\ got' = Handled(got, whole)[lines]
              /\ ended' = IF [type |-> "DONE"] \in Range(whole) THEN "ok" ELSE "no"
              /\ shown' = got'.content
              /\ left' = SubSeq(left, lines + 1, Len(left))
       /\ half' = rest
       /\ damaged' = (damaged \/ rest = "hurt")
  /\ UNCHANGED <<api, answer>>

(* The server closes the connection early: what came counts as the answer, *)
(* but for the line that is not complete.                                  *)
EndsEarly ==
  /\ api = "chatgpt" /\ ended = "no"
  /\ ended' = "ok"
  /\ UNCHANGED <<api, answer, left, half, got, shown, damaged>>

-----------------------------------------------------------------------------
(* An OpenAI delta: text, or a part of the call with its index.            *)
Accumulate(g, e) ==
  IF e.type = "text" THEN [g EXCEPT !.content = Append(@, e.delta)]
  ELSE LET old == IF e.index \in DOMAIN g.map THEN g.map[e.index]
                  ELSE [call |-> 0, args |-> <<>>]
           new == [call |-> IF e.call # 0 THEN e.call ELSE old.call, args |-> old.args \o e.delta]
       IN  [g EXCEPT !.map = [i \in DOMAIN g.map \cup {e.index} |->
                                IF i = e.index THEN new ELSE g.map[i]]]

Delta ==
  /\ api = "openai" /\ ended = "no"
  /\ \E k \in DOMAIN left :
       /\ left[k] # <<>>
       /\ got' = Accumulate(got, Head(left[k]))
       /\ left' = [left EXCEPT ![k] = Tail(@)]
  /\ shown' = got'.content
  /\ UNCHANGED <<api, answer, half, ended, damaged>>

(* The calls in the order of their indices.                                *)
ByIndex(map) == [n \in 1 .. Cardinality(DOMAIN map) |->
                   map[CHOOSE i \in DOMAIN map : Cardinality({k \in DOMAIN map : k <= i}) = n]]

Completed ==
  /\ api = "openai" /\ ended = "no" /\ \A k \in DOMAIN left : left[k] = <<>>
  /\ got' = [got EXCEPT !.calls = ByIndex(got.map)]
  /\ ended' = "ok"
  /\ UNCHANGED <<api, answer, left, half, shown, damaged>>

(* The connection breaks: the call fails.                                  *)
Breaks ==
  /\ ended = "no" /\ ended' = "err"
  /\ UNCHANGED <<api, answer, left, half, got, shown, damaged>>

NextStream == Chunk \/ EndsEarly \/ Delta \/ Completed \/ Breaks

StreamSpec == InitStream /\ [][NextStream]_streamVars

-----------------------------------------------------------------------------
(* However the stream is cut, interleaved or ended, the agent gets the     *)
(* model's text up to some point and the model's calls up to some point,   *)
(* each with its own name and its whole arguments, and all of it when the  *)
(* stream was complete; and the screen has shown just this text.  (Unless  *)
(* a chunk ended within a character.)                                      *)
AnswerIsTheModels ==
  (ended = "ok" /\ ~damaged) =>
    LET calls == [k \in DOMAIN answer.calls |-> [call |-> k, args |-> answer.calls[k]]]
    IN  /\ IsPrefix(got.content, answer.text) /\ shown = got.content
        /\ IsPrefix(got.calls, calls)
        /\ api = "openai" \/ left = <<>> => got.content = answer.text /\ got.calls = calls
==============================================================================
