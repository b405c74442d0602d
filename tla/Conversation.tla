----------------------------- MODULE Conversation -----------------------------
(***************************************************************************)
(* The memory of a conversation: its history table, the summary that a     *)
(* background task writes when the table has grown (core/history.rs), the  *)
(* facts extracted from the user's messages (core/extraction.rs), and the  *)
(* prompts made of them (prepare_messages in core/agent.rs).  One run      *)
(* follows the other; summaries and extractions go on meanwhile.           *)
(***************************************************************************)
EXTENDS Messages, FiniteSets

CONSTANTS Jobs,       \* summarization tasks
          MaxCalls,   \* calls in one reply
          KeepRecent, \* KEEP_RECENT_MESSAGES
          Threshold,  \* summary_threshold
          MaxUpsets   \* bound: crashes, storage errors and clears

ASSUME ConversationAssumption ==
  /\ Runs \subseteq Nat /\ MaxCalls \in Nat /\ MaxUpsets \in Nat
  /\ KeepRecent \in Nat \ {0} /\ Threshold \in Nat /\ KeepRecent < Threshold

VARIABLES
  table,      \* the stored history
  prompt,     \* the history of the current run, or of the last one
  turn,       \* step of the run, its number, iteration, calls, how many of
              \* them are pending, and what its repair has yet to add again
  context,    \* the system messages of the current run
  summary,    \* the messages the summary file stands for
  job,        \* job[j]: step of a summarization, messages kept, summarized
              \* and cut off, facts read
  facts,      \* runs of which facts.md has facts
  extracting, \* runs whose message is being analysed
  upsets,     \* crashes, storage errors and clears so far
  ever,       \* history: the messages stored, but those repaired away
  unread,     \* history: messages lost that no summary's model was shown
  learned,    \* history: facts written
  upset,      \* history: a summary was disturbed
  stale       \* history: facts were written during a consolidation

tableVars == <<table, ever>>
promptVars == <<prompt, turn, context>>
factVars == <<facts, extracting, learned, stale>>
summaryVars == <<summary, unread>>
memoryVars == <<tableVars, promptVars, summaryVars, job, factVars, upsets, upset>>

NoJob == [at |-> "idle", keep |-> <<>>, covers |-> {}, cut |-> {}, facts |-> {}]
NoTurn == [at |-> "free", run |-> 0, iter |-> 0, calls |-> 0, pending |-> 0, back |-> <<>>]

InitMemory ==
  /\ table = <<>> /\ prompt = <<>> /\ turn = NoTurn /\ context = <<"prompt", "info">>
  /\ summary = {} /\ job = [j \in Jobs |-> NoJob]
  /\ facts = {} /\ extracting = {} /\ upsets = 0
  /\ ever = {} /\ unread = {} /\ learned = {} /\ upset = FALSE /\ stale = FALSE

(* Between the read of the history and the last message added again.       *)
Summarizing(j) == job[j].at \in {"asked", "write", "clear", "restore"}
Overlaps == \E j \in Jobs : Summarizing(j)

Add(m) == table' = Append(table, m) /\ ever' = ever \cup {m}

-----------------------------------------------------------------------------
(* prepare_messages: the history is loaded, repaired and extended; the     *)
(* files that are there and not empty make up the context.                 *)
LoadFacts == IF facts # {} THEN <<"facts">> ELSE <<>>
LoadSummary == IF summary # {} THEN <<"summary">> ELSE <<>>
Context == <<"prompt", "info">> \o LoadFacts \o LoadSummary

(* Facts are looked for in every message but short ones, trivial ones and  *)
(* those that come soon after another.                                     *)
SpawnExtract(r) == extracting' \in {extracting, extracting \cup {r}}

(* What the repair drops for good reason: calls that were never answered,  *)
(* with the results they have.                                             *)
Dropped(h) == { m \in Range(h) \ Range(Sanitize(h)) :
                  m.role = "result" => m.of \in AllCalls(h) }

(* A step of a run that writes the table, or is about to.                  *)
RunStep == upset' = (upset \/ Overlaps)

(* A repaired history takes the place of the stored one.                   *)
LoadHistory ==
  /\ turn.at = "free" /\ turn.run + 1 \in Runs
  /\ LET h == Sanitize(table)
         new == [NoTurn EXCEPT !.run = turn.run + 1]
     IN  /\ prompt' = h
         /\ turn' = IF Len(h) # Len(table) THEN [new EXCEPT !.at = "clear", !.back = h]
                                           ELSE [new EXCEPT !.at = "store"]
  /\ RunStep
  /\ UNCHANGED <<tableVars, context, summaryVars, job, factVars, upsets>>

AfterRepair(back) == IF back = <<>> THEN "store" ELSE "again"

RepairClear ==
  /\ turn.at = "clear" /\ turn' = [turn EXCEPT !.at = AfterRepair(turn.back)]
  /\ table' = <<>> /\ ever' = ever \ Dropped(table)
  /\ RunStep
  /\ UNCHANGED <<prompt, context, summaryVars, job, factVars, upsets>>

AddAgain ==
  /\ turn.at = "again"
  /\ turn' = [turn EXCEPT !.at = AfterRepair(Tail(turn.back)), !.back = Tail(@)]
  /\ table' = Append(table, Head(turn.back))
  /\ RunStep
  /\ UNCHANGED <<ever, prompt, context, summaryVars, job, factVars, upsets>>

StoreUser ==
  /\ turn.at = "store" /\ turn' = [turn EXCEPT !.at = "busy"]
  /\ Add(User(turn.run)) /\ prompt' = Append(prompt, User(turn.run))
  /\ SpawnExtract(turn.run) /\ context' = Context
  /\ RunStep
  /\ UNCHANGED <<summaryVars, job, facts, learned, stale, upsets>>

(* An error of the storage or of the model ends the run where it is.  What *)
(* a repair had yet to add again is lost.                                  *)
CutShort(t) == [t EXCEPT !.at = "free", !.pending = 0, !.back = <<>>]

RunFails ==
  /\ turn.at # "free" /\ turn' = CutShort(turn)
  /\ upsets < MaxUpsets /\ upsets' = upsets + 1
  /\ upset' = (upset \/ turn.at = "again")
  /\ UNCHANGED <<tableVars, prompt, context, summaryVars, job, factVars>>

(* The run's messages go to its prompt and to the table.                   *)
Says(m) ==
  /\ Add(m) /\ prompt' = Append(prompt, m)
  /\ RunStep
  /\ UNCHANGED <<context, summaryVars, factVars, upsets>>

CallTools ==
  /\ turn.at = "busy" /\ turn.pending = 0 /\ turn.iter = 0
  /\ \E n \in 1 .. MaxCalls :
       /\ Says(Assistant(turn.run, turn.iter, n))
       /\ turn' = [turn EXCEPT !.calls = n, !.pending = n]
  /\ UNCHANGED job

StoreResult ==
  /\ turn.pending > 0
  /\ Says(ToolResult(<<turn.run, turn.iter, turn.calls - turn.pending + 1>>))
  /\ turn' = [turn EXCEPT !.pending = @ - 1, !.iter = IF turn.pending = 1 THEN @ + 1 ELSE @]
  /\ UNCHANGED job

(* finalize_response, and the summary it spawns.                           *)
SpawnSummarize(j) == job[j].at = "idle" /\ job' = [job EXCEPT ![j].at = "spawned"]

Finalize(j) ==
  /\ turn.at = "busy" /\ turn.pending = 0
  /\ Says(Final(turn.run))
  /\ turn' = [turn EXCEPT !.at = "free"]
  /\ SpawnSummarize(j)

-----------------------------------------------------------------------------
\* Mutant: the results of a call that is summarized may stay behind.
SplitAnywhere(h) == IF Len(h) > KeepRecent THEN Len(h) - KeepRecent ELSE 0

(* How many messages are summarized: all but the last ones, but never a    *)
(* call without its results.                                               *)
SplitPoint(h) ==
  LET recent == IF Len(h) > KeepRecent THEN Len(h) - KeepRecent ELSE 0
      IsCut(n) == n = 0 \/ h[n + 1].role # "result"
  IN  CHOOSE n \in 0 .. recent : IsCut(n) /\ \A k \in n + 1 .. recent : ~IsCut(k)

(* The model is shown the last summary, if it can be read, and the older   *)
(* part up to 8000 characters: here, its first messages.                   *)
Covered(last, k) == last \cup Range(SubSeq(table, 1, k))

(* summarize_conversation reads the history and the last summary, and asks *)
(* the model for a summary of the older part and of the last summary.      *)
ReadHistory(j) ==
  /\ job[j].at = "spawned"
  /\ IF Len(table) < Threshold
     THEN job' = [job EXCEPT ![j] = NoJob]
     ELSE LET n == SplitPoint(table)
          IN  \E k \in 0 .. n, last \in {summary, {}} :
                job' = [job EXCEPT ![j] = [at |-> "asked",
                   keep |-> SubSeq(table, n + 1, Len(table)), covers |-> Covered(last, k),
                   cut |-> Range(SubSeq(table, k + 1, n)), facts |-> {}]]
  /\ upset' = (upset \/ (job'[j].at = "asked" /\ (Overlaps \/ turn.at \in {"clear", "again"})))
  /\ UNCHANGED <<tableVars, promptVars, summaryVars, factVars, upsets>>

JobStep(j, from, to) == job[j].at = from /\ job' = [job EXCEPT ![j].at = to]

(* The model answers, or fails and everything stays as it is.              *)
Summarized(j) ==
  /\ JobStep(j, "asked", "write") \/ JobStep(j, "asked", "facts")
  /\ UNCHANGED <<tableVars, promptVars, summaryVars, factVars, upsets, upset>>

(* Errors of clear and of add_message are not looked at.                   *)
Fails == upsets < MaxUpsets /\ upsets' = upsets + 1 /\ upset' = TRUE

(* The file is written in place.  A failed write leaves the history alone, *)
(* but it may have emptied the file.                                       *)
WriteSummary(j) ==
  /\ \/ /\ JobStep(j, "write", "clear") /\ summary' = job[j].covers
        /\ unread' = unread \cup (summary \ job[j].covers) /\ UNCHANGED <<upsets, upset>>
     \/ /\ JobStep(j, "write", "facts")
        /\ \/ UNCHANGED <<summary, upsets, upset>>
           \/ Fails /\ summary' = {}
        /\ UNCHANGED unread
  /\ UNCHANGED <<tableVars, promptVars, factVars>>

ClearTable(j) ==
  /\ JobStep(j, "clear", "restore")
  /\ \/ table' = <<>> /\ unread' = unread \cup job[j].cut /\ UNCHANGED <<upsets, upset>>
     \/ Fails /\ UNCHANGED <<table, unread>>
  /\ UNCHANGED <<ever, promptVars, summary, factVars>>

Restore(j) ==
  /\ job[j].at = "restore"
  /\ IF job[j].keep = <<>>
     THEN /\ job' = [job EXCEPT ![j] = [NoJob EXCEPT !.at = "facts"]]
          /\ UNCHANGED <<table, upsets, upset>>
     ELSE /\ job' = [job EXCEPT ![j].keep = Tail(@)]
          /\ \/ table' = Append(table, Head(job[j].keep)) /\ UNCHANGED <<upsets, upset>>
             \/ Fails /\ UNCHANGED table
  /\ UNCHANGED <<ever, promptVars, summaryVars, factVars>>

-----------------------------------------------------------------------------
(* Then facts.md, when it is long, is read, condensed by the model and     *)
(* written back.                                                           *)
ReadFacts(j) ==
  /\ job[j].at = "facts"
  /\ \/ facts # {} /\ job' = [job EXCEPT ![j].at = "condense", ![j].facts = facts]
     \/ job' = [job EXCEPT ![j] = NoJob]
  /\ UNCHANGED <<tableVars, promptVars, summaryVars, factVars, upsets, upset>>

(* A failed write may have emptied the file.                               *)
Consolidate(j) ==
  /\ job[j].at = "condense" /\ job' = [job EXCEPT ![j] = NoJob]
  /\ \/ facts' \in {facts, job[j].facts} /\ UNCHANGED <<stale, upsets>>
     \/ facts' = {} /\ stale' = TRUE /\ upsets < MaxUpsets /\ upsets' = upsets + 1
  /\ UNCHANGED <<tableVars, promptVars, summaryVars, extracting, learned, upset>>

(* extract_facts: the model found facts, which are appended.               *)
AppendFacts(r) ==
  /\ r \in extracting /\ extracting' = extracting \ {r}
  /\ facts' = facts \cup {r} /\ learned' = learned \cup {r}
  /\ stale' = (stale \/ \E j \in Jobs : job[j].at = "condense")
  /\ UNCHANGED <<tableVars, promptVars, summaryVars, job, upsets, upset>>

FindsNone(r) ==
  /\ r \in extracting /\ extracting' = extracting \ {r}
  /\ UNCHANGED <<tableVars, promptVars, summaryVars, job, facts, learned, stale, upsets, upset>>

-----------------------------------------------------------------------------
(* clear_history: the summary stays.                                       *)
Forget ==
  /\ turn.at = "free" /\ upsets < MaxUpsets /\ upsets' = upsets + 1
  /\ table' = <<>> /\ ever' = ever \ Range(table)
  /\ upset' = (upset \/ Overlaps)
  /\ UNCHANGED <<promptVars, summaryVars, job, factVars>>

(* A crash may tear the summary, or the facts, being written.              *)
CrashMemory ==
  /\ upsets < MaxUpsets /\ upsets' = upsets + 1
  /\ turn' = CutShort(turn)
  /\ job' = [j \in Jobs |-> NoJob] /\ extracting' = {}
  /\ upset' = (upset \/ turn.at = "again" \/ \E j \in Jobs : job[j].at \in {"write", "restore"})
  /\ summary' \in {summary} \cup {{} : j \in {j \in Jobs : job[j].at = "write"}}
  /\ facts' \in {facts} \cup {{} : j \in {j \in Jobs : job[j].at = "condense"}}
  /\ stale' = (stale \/ \E j \in Jobs : job[j].at = "condense")
  /\ UNCHANGED <<tableVars, prompt, context, learned, unread>>

NextMemory ==
  \/ LoadHistory \/ RepairClear \/ AddAgain \/ StoreUser
  \/ CallTools \/ StoreResult \/ RunFails
  \/ \E j \in Jobs : \/ Finalize(j) \/ ReadHistory(j) \/ Summarized(j) \/ WriteSummary(j)
                     \/ ClearTable(j) \/ Restore(j) \/ ReadFacts(j) \/ Consolidate(j)
  \/ \E r \in Runs : AppendFacts(r) \/ FindsNone(r)
  \/ Forget \/ CrashMemory

MemorySpec == InitMemory /\ [][NextMemory]_memoryVars

-----------------------------------------------------------------------------
(* Whatever the summaries and repairs replace, every message is in the     *)
(* table, about to be added again, or covered by the summary file, except  *)
(* what no model was shown because it was cut off or the last summary      *)
(* could not be read, and as long as no run, no repair, no second summary, *)
(* no failure and no crash came between the read of the history and the    *)
(* last message added again (summarize_conversation).  And a fact that was *)
(* written stays, also when several messages are analysed at once          *)
(* (extract_facts), unless a consolidation read the file before and wrote  *)
(* it after.                                                               *)
NothingForgotten ==
  /\ upset \/ \A m \in ever :
       \/ m \in Range(table) \cup summary \cup unread
       \/ m \in Range(turn.back) \cup UNION {Range(job[j].keep) : j \in Jobs}
  /\ stale \/ learned \subseteq facts

(* A request answers every call it contains at once, and nothing else,     *)
(* also after summaries and repairs (convert_messages of each provider).   *)
RequestsPairUp ==
  (~upset /\ turn.at = "busy" /\ turn.pending = 0) =>
    /\ WellFormed(Request("openai", context, prompt).body)
    /\ ItemsPairUp(Request("chatgpt", context, prompt).body)
    /\ TurnsPairUp(Request("anthropic", context, prompt).body)

(* "System prompt for the main agent": whatever provider is used, the      *)
(* system prompt is in the request.                                        *)
SystemPromptSent ==
  \A api \in {"openai", "chatgpt", "anthropic"} :
    turn.at = "busy" => "prompt" \in Request(api, context, prompt).system
==============================================================================
