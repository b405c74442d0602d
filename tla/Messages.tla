------------------------------- MODULE Messages -------------------------------
(***************************************************************************)
(* The messages of a conversation, and what is computed of sequences of    *)
(* them: the repair of a stored history (core/history.rs), and the request *)
(* each provider makes of one (core/anthropic.rs, chatgpt.rs, openai.rs).  *)
(* Messages are numbered by the run they belong to; a call is              *)
(* <<run, iteration, position>>.                                           *)
(***************************************************************************)
EXTENDS Naturals, Sequences, SequencesExt

CONSTANT Runs   \* the runs of a conversation, with one message of the user each

User(r)        == [role |-> "user", run |-> r]
Revision(r, i) == [role |-> "revision", run |-> r, iter |-> i]
Assistant(r, i, n) == [role |-> "assistant", run |-> r, iter |-> i, calls |-> n]
ToolResult(c)  == [role |-> "result", of |-> c]
Final(r)       == [role |-> "final", run |-> r]

CallsOf(m) == IF m.role = "assistant"
              THEN { <<m.run, m.iter, k>> : k \in 1 .. m.calls } ELSE {}

AllCalls(h) == UNION { CallsOf(h[i]) : i \in DOMAIN h }
AnsweredAfter(h, i) == { h[j].of : j \in { j \in DOMAIN h : j > i /\ h[j].role = "result" } }

IsBroken(h, i) == CallsOf(h[i]) # {} /\ ~ CallsOf(h[i]) \subseteq AnsweredAfter(h, i)

(* retain: the messages at some indices, in their order.                   *)
Picks(h, I) ==
  LET p[n \in 0 .. Len(h)] ==
        IF n = 0 THEN <<>> ELSE IF n \in I THEN Append(p[n - 1], h[n]) ELSE p[n - 1]
  IN  p
Retain(h, I) == Picks(h, I)[Len(h)]

(* The results of unknown calls go.                                        *)
RetainKnown(h) ==
  Retain(h, { i \in DOMAIN h : h[i].role = "result" => h[i].of \in AllCalls(h) })

(* From the end, assistant messages with unanswered calls go, and the      *)
(* results they have, up to the first one whose calls are all answered.    *)
RetainAnswered(h) ==
  LET broken == { i \in DOMAIN h :
                    /\ IsBroken(h, i)
                    /\ \A j \in DOMAIN h :
                         j > i /\ CallsOf(h[j]) # {} => IsBroken(h, j) }
      gone   == UNION { CallsOf(h[i]) : i \in broken }
  IN  Retain(h, { i \in DOMAIN h : /\ h[i].role = "result" => h[i].of \notin gone
                                  /\ CallsOf(h[i]) \cap gone = {} })

\* Mutant: only the first pass.
SanitizeResults(h) == RetainKnown(h)

(* sanitize_history(): a function of what the first pass leaves, which TLC *)
(* so computes once.                                                       *)
Sanitize(h) ==
  LET second[known \in { RetainKnown(h) }] == RetainAnswered(known)
  IN  second[RetainKnown(h)]

(* Tool calls and results pair up: the results of an assistant message     *)
(* follow it at once, in order, and no result stands alone.                *)
WellFormed(h) ==
  \A i \in DOMAIN h :
    /\ h[i].role = "assistant" =>
         \A k \in 1 .. h[i].calls :
           i + k \in DOMAIN h /\ h[i + k] = ToolResult(<<h[i].run, h[i].iter, k>>)
    /\ h[i].role = "result" => h[i].of \in AllCalls(SubSeq(h, 1, i - 1))

-----------------------------------------------------------------------------
(* To Anthropic go turns with blocks: the results that follow one another  *)
(* make up one turn of the user.                                           *)
Speaker(m) == IF m.role \in {"assistant", "final"} THEN "assistant" ELSE "user"

\* Mutant: every message is a turn of its own.
TurnPerMessage(turns, m) == Append(turns, [role |-> Speaker(m), blocks |-> <<m>>])

(* A text of the user is not a list of blocks, and takes no result in.     *)
Joins(turns, m) ==
  /\ m.role = "result" /\ turns # <<>>
  /\ Last(turns).role = "user" /\ Last(turns).blocks[1].role = "result"

AddTurn(turns, m) ==
  IF Joins(turns, m)
  THEN [turns EXCEPT ![Len(turns)].blocks = Append(@, m)]
  ELSE Append(turns, [role |-> Speaker(m), blocks |-> <<m>>])

TurnsUpTo(h) ==
  LET turns[n \in 0 .. Len(h)] == IF n = 0 THEN <<>> ELSE AddTurn(turns[n - 1], h[n])
  IN  turns
Turns(h) == TurnsUpTo(h)[Len(h)]

(* Anthropic's rule (external): the turn after one with calls answers      *)
(* exactly these, and nothing else is answered.                            *)
TurnsPairUp(turns) ==
  \A i \in DOMAIN turns :
    LET asked == UNION { CallsOf(turns[i].blocks[k]) : k \in DOMAIN turns[i].blocks }
        next  == IF i < Len(turns) THEN turns[i + 1].blocks ELSE <<>>
    IN  /\ asked = { next[k].of : k \in { k \in DOMAIN next : next[k].role = "result" } }
        /\ i = 1 => turns[i].blocks[1].role # "result"

(* To ChatGPT go items: every call is one.                                 *)
ItemsOf(m) ==
  IF m.role = "assistant"
  THEN [k \in 1 .. m.calls |-> [role |-> "call", of |-> <<m.run, m.iter, k>>]]
  ELSE <<m>>

Items(h) == FlattenSeq([i \in DOMAIN h |-> ItemsOf(h[i])])

ItemsPairUp(items) ==
  \A i \in DOMAIN items :
    /\ items[i].role = "call" => \E j \in DOMAIN items : j > i /\ items[j] = ToolResult(items[i].of)
    /\ items[i].role = "result" => \E j \in DOMAIN items :
                                    j < i /\ items[j] = [role |-> "call", of |-> items[i].of]

(* The context a prompt begins with: system messages to OpenAI, joined for *)
(* ChatGPT; Anthropic is sent one, the last.                               *)
Request(api, context, h) ==
  CASE api = "openai" -> [system |-> Range(context), body |-> h]
    [] api = "chatgpt" -> [system |-> Range(context), body |-> Items(h)]
    [] api = "anthropic" -> [system |-> {Last(context)}, body |-> Turns(h)]
==============================================================================
