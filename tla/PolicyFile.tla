----------------------------- MODULE PolicyFile -----------------------------
(***************************************************************************)
(* The manage_policy tool (src/tools/policy.rs) changes policy.json, which *)
(* the engine reads when the process starts (load_policy), and the engine  *)
(* judges shell commands (Policy).  A user may edit the file by hand.      *)
(***************************************************************************)
EXTENDS Integers, FiniteSets, Policy, SavedFile

CONSTANTS Patterns,  \* patterns, here the base command each of them matches
          MaxChanges,  \* bound: calls of manage_policy that change something
          Cases      \* commands to judge, put together of each other

Lists == {"allow", "deny", "require_approval"}
Configs == [enabled : BOOLEAN, allow : SUBSET Patterns, deny : SUBSET Patterns,
            require_approval : SUBSET Patterns]

ASSUME PolicyFileAssumption ==
  MaxChanges \in Nat /\ \A config \in Configs : config \notin {Torn, Absent}

Default == [enabled |-> FALSE, allow |-> {}, deny |-> {}, require_approval |-> {}]

-----------------------------------------------------------------------------
(* A command to judge: its text, the commands in it, whether it expands a  *)
(* variable, and how deep the commands in it are.                          *)
Case(text, parts, expands, depth) ==
  [text |-> text, parts |-> parts, expands |-> expands, depth |-> depth]

Special == {";", "&", "|", "(", ")", "'", "\"", "\\", "tick"}
IsWords(w) == w \in Seq(STRING) \ {<<>>} /\ ToSet(w) \cap Special = {}
Named(w) == \E i \in 1 .. Len(w) - 1 : w[i] = "$" /\ w[i + 1] \in Names

Words(w) == Case(w, {w}, Named(w), 0)
Quoted(w, q) ==
  LET text == w \o <<"'">> \o q \o <<"'">> IN Case(text, {text}, Named(w), 0)
Ticked(w, v) ==
  LET text == w \o <<"tick">> \o v \o <<"tick">>
  IN  Case(text, {text, v}, Named(w) \/ Named(v), 1)
Substituted(w, a) ==
  LET text == w \o <<"$", "(">> \o a.text \o <<")">>
  IN  Case(text, {text} \cup a.parts, Named(w) \/ a.expands, a.depth + 1)
Wrapped(shell, a) ==
  LET text == <<shell, "-c", "\"">> \o a.text \o <<"\"">>
  IN  Case(text, {text} \cup a.parts, a.expands, a.depth + 1)
Joined(a, separator, b) ==
  Case(a.text \o separator \o b.text, a.parts \cup b.parts, a.expands \/ b.expands,
       IF a.depth < b.depth THEN b.depth ELSE a.depth)

Separations == {<<";">>, <<"&">>, <<"&", "&">>, <<"|">>, <<"|", "|">>}

(* Brackets pair up, as the engine counts them: those in quotes too.       *)
Balanced(c) == Nesting(c)[Len(c)] = 0 /\ \A n \in 0 .. Len(c) : Nesting(c)[n] >= 0

IsSimple(x) ==
  \/ IsWords(x.text) /\ x = Words(x.text)
  \/ \E n \in 1 .. Len(x.text) - 2 :
       LET w == SubSeq(x.text, 1, n)
           q == SubSeq(x.text, n + 2, Len(x.text) - 1)
       IN  /\ IsWords(w)
           /\ \/ IsWords(q) /\ x = Ticked(w, q)
              \/ q \in Seq(STRING) /\ "'" \notin ToSet(q) /\ x = Quoted(w, q)

IsComposed(x, A) ==
  \/ \E a \in A, b \in A, separator \in Separations : x = Joined(a, separator, b)
  \/ \E a \in A, n \in 1 .. Len(x.text) :
       /\ IsWords(SubSeq(x.text, 1, n)) /\ Balanced(a.text)
       /\ x = Substituted(SubSeq(x.text, 1, n), a)
  \/ \E a \in A, shell \in Shells :
       ToSet(a.text) \cap {"\"", "\\"} = {} /\ x = Wrapped(shell, a)

(* What is judged here: words, words with text in single quotes, backticks *)
(* or $(...) after them, the argument of sh -c in double quotes, and these *)
(* joined by separators.  Not groups in ( ), newlines, or a $(...) with    *)
(* quoted brackets in it that do not pair up: the engine does not look     *)
(* into the first, does not cut at the second, and reads the quoted        *)
(* brackets of the third as its own.                                       *)
ASSUME CasesAssumption ==
  \A x \in Cases :
    /\ x.text \in Seq(STRING) /\ x.depth < MaxDepth
    /\ IsSimple(x) \/ IsComposed(x, {a \in Cases : Len(a.text) < Len(x.text)})

-----------------------------------------------------------------------------
VARIABLES
  policy,   \* policy.json and its temporary file
  engine,   \* the configuration the engine was started with
  edits,    \* calls that changed something so far
  saving,   \* the step a call is in, what it saves and what it means
  answered, \* what the calls that returned Ok amount to
  spoiled   \* history: the file was edited by hand, or a call could not read it

policyVars == <<policy, engine, edits, saving, answered, spoiled>>

NotSaving == [at |-> "idle", config |-> Default, means |-> Default]

InitPolicy ==
  /\ policy = Saved(Absent) /\ engine = Default /\ edits = 0
  /\ saving = NotSaving /\ answered = Default /\ spoiled = FALSE

(* load_policy: no file, or one that does not parse, is no policy at all,  *)
(* and neither is one whose reading fails.                                 *)
LoadPolicy == IF policy.file \in {Torn, Absent} THEN Default ELSE policy.file
Loaded == {LoadPolicy, Default}

-----------------------------------------------------------------------------
(* A call loads the file; what it saves, and what its answer will mean.    *)
Change(loaded, config, means) ==
  /\ saving.at = "idle" /\ edits < MaxChanges /\ edits' = edits + 1
  /\ saving' = [at |-> "create", config |-> config, means |-> means]
  /\ spoiled' = (spoiled \/ loaded # LoadPolicy)
  /\ UNCHANGED <<policy, engine, answered>>

(* handle_enable and handle_disable.                                       *)
Enable(on) ==
  \E loaded \in Loaded :
    Change(loaded, [loaded EXCEPT !.enabled = on], [answered EXCEPT !.enabled = on])

(* handle_add_rule and handle_remove_rule: an error, and no change, for a  *)
(* pattern that is there already, or is not.                               *)
AddRule(list, pattern) ==
  \E loaded \in Loaded :
    /\ pattern \notin loaded[list]
    /\ Change(loaded, [loaded EXCEPT ![list] = @ \cup {pattern}],
              [answered EXCEPT ![list] = @ \cup {pattern}])

RemoveRule(list, pattern) ==
  \E loaded \in Loaded :
    /\ pattern \in loaded[list]
    /\ Change(loaded, [loaded EXCEPT ![list] = @ \ {pattern}],
              [answered EXCEPT ![list] = @ \ {pattern}])

(* save_config, and the answer; a step that fails is answered as an error. *)
SaveConfig ==
  /\ \/ /\ saving.at = "create" /\ policy' = Emptied(policy)
        /\ saving' = [saving EXCEPT !.at = "fill"] /\ UNCHANGED answered
     \/ /\ saving.at = "fill" /\ policy' = Filled(policy, saving.config)
        /\ saving' = [saving EXCEPT !.at = "rename"] /\ UNCHANGED answered
     \/ /\ saving.at = "rename" /\ policy' = Renamed(policy)
        /\ saving' = NotSaving /\ answered' = saving.means
     \/ /\ saving.at # "idle" /\ saving' = NotSaving
        /\ UNCHANGED <<policy, answered>>
  /\ UNCHANGED <<engine, edits, spoiled>>

(* The process ends at any time, and the next one reads the file.          *)
RestartPolicy ==
  /\ engine' \in Loaded /\ saving' = NotSaving
  /\ UNCHANGED <<policy, edits, answered, spoiled>>

EditByHand ==
  /\ policy' = Saved(Torn) /\ spoiled' = TRUE
  /\ UNCHANGED <<engine, edits, saving, answered>>

NextPolicy ==
  \/ \E on \in BOOLEAN : Enable(on)
  \/ \E list \in Lists, pattern \in Patterns : AddRule(list, pattern) \/ RemoveRule(list, pattern)
  \/ SaveConfig \/ RestartPolicy \/ EditByHand

PolicySpec == InitPolicy /\ [][NextPolicy]_policyVars

-----------------------------------------------------------------------------
(* The rules manage_policy answered Ok for are the ones the next start     *)
(* reads, whatever step of another call failed or the process ended in;    *)
(* unless the file was edited by hand into something that does not parse,  *)
(* or a call that could not read it put a new policy in its place.         *)
RulesSurvive == (saving.at = "idle" /\ ~spoiled) => LoadPolicy = answered

(* Verdicts are looked at when the engine has just read the file.          *)
JustStarted == engine.enabled /\ engine = LoadPolicy /\ saving.at = "idle"

(* In a command that is put together as Cases are - with no group in ( ),  *)
(* no newline, and no $(...) whose quoted brackets do not pair up - what   *)
(* is denied is not hidden by what is allowed around it: a command with    *)
(* one in it that alone would be denied is denied by the contract, and one *)
(* with a part that alone would have to be asked about is asked about, by  *)
(* the contract and by the tool.                                           *)
VerdictIsStrictest ==
  JustStarted => \A case \in Cases :
    LET least == Strictest({Single(engine, part) : part \in case.parts}
                           \cup (IF case.expands THEN {"ask"} ELSE {}))
        verdict == ShellContract(engine, case.text)
    IN  /\ least = "deny" => verdict = "denied"
        /\ least # "allow" => verdict # "allowed" /\ RequiresApprovalFor(engine, FALSE, case.text)
=============================================================================
