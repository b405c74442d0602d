------------------------------- MODULE MCMemory -------------------------------
(* What zymi keeps in memory/, and what the models are sent and answer.      *)
(* The models, the policy, the conversation, the streamed answer and the     *)
(* MCP servers are explored one at a time.                                   *)
EXTENDS Settings, Conversation, LlmStream

VARIABLE part  \* the part that moves

(* Saves and refreshes apart, no two kinds of overlap, and no state beyond   *)
(* one of saves or refreshes.                                                *)
NoSaves == \A s \in Savers : saver[s].at = "idle"
NoRefresh == Refreshing = {} /\ live <= 1
OneOverlap == (mixed => ~raced /\ ~crossed /\ ~lost) /\ (raced => ~crossed /\ ~lost) /\ ~(crossed /\ lost)
Separate == ~raced /\ ~crossed
ModelsApart == (NoSaves \/ NoRefresh) /\ OneOverlap

(* Facts and summaries apart, and no state beyond a disturbance.  One        *)
(* message is cut off, or one summary not read, with one task at a time and  *)
(* no failure besides.                                                       *)
NoFacts == facts = {} /\ extracting = {}
NoSummary == ~Overlaps /\ summary = {} /\ Len(table) <= Threshold + 1
Whole(j) == job[j].cut = {} /\ (job[j].at = "asked" => summary \subseteq job[j].covers)
TasksApart == Cardinality({j \in Jobs : job[j].at # "idle"}) <= 1
CutOnce ==
  /\ \A j \in Jobs : Cardinality(job[j].cut) <= 1 /\ (unread = {} \/ Whole(j))
  /\ unread = {} \/ upsets = 0
  /\ TasksApart \/ (unread = {} /\ \A j \in Jobs : job[j].cut = {})
ConversationApart == (NoFacts \/ NoSummary) /\ CutOnce
Undisturbed == ~upset /\ ~stale

Two(full, late) ==
  [text |-> <<"a", "wide">>, calls |-> <<<<"x", "wide">>, <<>>, <<"z">>>>,
   full |-> full, late |-> late]
MCAnswers == {Two(f, l) : f \in BOOLEAN, l \in BOOLEAN}
MCPieces == {"a", "wide", "x", "z"}
MCWide == {"wide"}

MCOffers == <<{"search", "read"}, {"search"}, {"read", "write"}>>

MCSymmetry == Permutations(Jobs)

MCInit ==
  /\ InitModels /\ InitPolicy /\ InitMemory /\ InitStream /\ InitMcp
  /\ part \in {"models", "policy", "conversation", "stream", "servers"}
  /\ part = "models" \/ file = Saved(Absent)
  /\ part = "stream" \/ (api = "openai" /\ answer = Two(TRUE, TRUE))

MCNext ==
  /\ \/ part = "models" /\ Separate /\ NextModels /\ ModelsApart'
        /\ UNCHANGED <<policyVars, memoryVars, streamVars, mcpVars>>
     \/ part = "policy" /\ NextPolicy /\ UNCHANGED <<modelsVars, memoryVars, streamVars, mcpVars>>
     \/ part = "conversation" /\ Undisturbed /\ NextMemory /\ ConversationApart'
        /\ UNCHANGED <<modelsVars, policyVars, streamVars, mcpVars>>
     \/ part = "stream" /\ NextStream /\ UNCHANGED <<modelsVars, policyVars, memoryVars, mcpVars>>
     \/ part = "servers" /\ ~muddled /\ NextMcp
        /\ UNCHANGED <<modelsVars, policyVars, memoryVars, streamVars>>
  /\ UNCHANGED part

MCSpec == MCInit /\ [][MCNext]_<<part, modelsVars, policyVars, memoryVars, streamVars, mcpVars>>

Plain == {Words(<<"ls">>), Words(<<"rm", "-rf", "/">>)}
Bracketed == {Quoted(<<"echo">>, <<"(", ")">>)}
OneBracket == {Quoted(<<"echo">>, <<"(">>), Quoted(<<"echo">>, <<")", ";">>)}
Simple == Plain \cup {Words(<<"echo", "$", "HOME">>),
                     Quoted(<<"echo">>, <<";", "$", "HOME">>)}
Both(A, separators, B) == {Joined(a, s, b) : a \in A, s \in separators, b \in B}
Substitutions(A) == {Substituted(<<"echo">>, a) : a \in A}
Wraps(A) == {Wrapped("sh", a) : a \in A}

Pairs == Both(Simple, {<<";">>, <<"&", "&">>}, Simple)
Nested == Substitutions(Simple \cup Both(Plain, {<<";">>, <<"&", "&">>}, Plain))
          \cup {Ticked(<<"echo">>, a.text) : a \in Plain}
Brackets == Bracketed \cup OneBracket
MCCases == Simple \cup Brackets \cup Both(Brackets, {<<";">>}, Plain) \cup Both(Plain, {<<"|">>}, Brackets)
           \cup Wraps(Brackets) \cup Substitutions(Bracketed \cup Both(Bracketed, {<<";">>}, Plain))
           \cup Pairs \cup Nested \cup Both(Nested, {<<"|">>}, Plain) \cup Substitutions(Nested)
           \cup Wraps(Nested \cup Pairs \cup Plain) \cup Both(Wraps(Plain), {<<"&">>, <<"|", "|">>}, Plain)
==============================================================================
