------------------------------- MODULE Policy -------------------------------
(***************************************************************************)
(* The policy engine (src/policy.rs): a shell command is taken apart into  *)
(* fragments, each is judged by itself, and the strictest verdict counts.  *)
(* And who asks it: the contracts (src/esaa/contracts.rs) and the shell    *)
(* tool (src/tools/shell.rs).                                              *)
(*                                                                         *)
(* A command is a sequence of tokens: words, and the characters the shell  *)
(* gives a meaning ("tick" is the backtick).  A rule is the set of base    *)
(* commands its glob matches.                                              *)
(***************************************************************************)
EXTENDS Integers, Sequences, SequencesExt, FiniteSets

CONSTANT MaxDepth  \* MAX_FRAGMENT_DEPTH, 10 in the code

ASSUME PolicyAssumption == MaxDepth \in Nat \ {0}

Separators == {";", "&", "|"}
Shells == {"sh", "bash", "zsh", "dash"}
Suspicious == {"eval", "source"}

-----------------------------------------------------------------------------
(* split_compound_commands: cut at the separators outside of quotes,       *)
(* escapes and parentheses.                                                *)
Scanned(mode, depth, ch) ==
  CASE mode = "escape" -> "normal"
    [] mode = "quoted escape" -> "double"
    [] mode = "single" -> IF ch = "'" THEN "normal" ELSE "single"
    [] mode = "double" -> IF ch = "\\" THEN "quoted escape"
                          ELSE IF ch = "\"" THEN "normal" ELSE "double"
    [] mode = "normal" /\ depth > 0 -> "normal"
    [] OTHER -> CASE ch = "\\" -> "escape" [] ch = "'" -> "single"
                  [] ch = "\"" -> "double" [] OTHER -> "normal"

Depth(mode, depth, ch) ==
  IF mode # "normal" THEN depth
  ELSE IF ch = "(" THEN depth + 1
  ELSE IF ch = ")" /\ depth > 0 THEN depth - 1 ELSE depth

Pushed(out, fragment) == IF fragment = <<>> THEN out ELSE out \cup {fragment}

\* Mutant: parentheses do not protect a separator.
CutsAnywhere(s, ch) == s.mode = "normal" /\ ch \in Separators

Cuts(s, ch) == s.mode = "normal" /\ s.depth = 0 /\ ch \in Separators

Scan(s, ch) ==
  IF Cuts(s, ch)
    THEN [s EXCEPT !.out = Pushed(@, s.fragment), !.fragment = <<>>]
    ELSE [mode |-> Scanned(s.mode, s.depth, ch), depth |-> Depth(s.mode, s.depth, ch),
          fragment |-> Append(s.fragment, ch), out |-> s.out]

ScanOf(command) ==
  LET after[n \in 0 .. Len(command)] ==
        IF n = 0 THEN [mode |-> "normal", depth |-> 0, fragment |-> <<>>, out |-> {}]
        ELSE Scan(after[n - 1], command[n])
  IN  after

Split(command) ==
  LET end == ScanOf(command)[Len(command)] IN Pushed(end.out, end.fragment)

(* How many parentheses are open, and how many single quotes (0 or 1).     *)
Opened(ch) == CASE ch = "(" -> 1 [] ch = ")" -> -1 [] OTHER -> 0

Nesting(c) ==
  LET after[n \in 0 .. Len(c)] == IF n = 0 THEN 0 ELSE after[n - 1] + Opened(c[n])
  IN  after

Quoting(c) ==
  LET after[n \in 0 .. Len(c)] ==
        IF n = 0 THEN 0 ELSE IF c[n] = "'" THEN 1 - after[n - 1] ELSE after[n - 1]
  IN  after

(* extract_subshells: the bodies of $(...) and of backticks outside single *)
(* quotes; a body that does not end is none.                               *)
First(S) == CHOOSE i \in S : \A j \in S : i <= j

BodyEnds(c, i) ==
  CASE c[i] = "$" /\ i < Len(c) /\ c[i + 1] = "(" ->
         {j \in i + 2 .. Len(c) : Nesting(c)[j] = Nesting(c)[i]}
    [] c[i] = "tick" -> {j \in i + 1 .. Len(c) : c[j] = "tick"}
    [] OTHER -> {}

Extracting(s, c, i) ==
  IF i < s.next THEN s
  ELSE IF c[i] = "'" THEN [s EXCEPT !.quoted = ~@]
  ELSE IF s.quoted \/ BodyEnds(c, i) = {} THEN s
  ELSE LET end == First(BodyEnds(c, i))
           begin == IF c[i] = "tick" THEN i + 1 ELSE i + 2
       IN  [s EXCEPT !.next = end + 1, !.bodies = @ \cup {SubSeq(c, begin, end - 1)}]

ExtractOf(c) ==
  LET after[n \in 0 .. Len(c)] ==
        IF n = 0 THEN [quoted |-> FALSE, next |-> 1, bodies |-> {}]
        ELSE Extracting(after[n - 1], c, n)
  IN  after

Subshells(c) == ExtractOf(c)[Len(c)].bodies

(* extract_shell_c_arg: what follows the first `sh -c`, less one layer of  *)
(* quotes.                                                                 *)
ShellArgs(c) ==
  LET at == {i \in 1 .. Len(c) - 2 : c[i] \in Shells /\ c[i + 1] = "-c"}
      arg == SubSeq(c, First(at) + 2, Len(c))
      bare == IF Len(arg) > 1 /\ arg[1] = arg[Len(arg)] /\ arg[1] \in {"'", "\""}
                THEN SubSeq(arg, 2, Len(arg) - 1) ELSE arg
  IN  IF at = {} \/ bare = <<>> THEN {} ELSE {bare}

(* collect_all_fragments: the parts of the command and of what is in them, *)
(* down to a depth at which a command is taken as it is.                   *)
Inside(part) == Subshells(part) \cup ShellArgs(part)
Parts(commands) == UNION {Split(c) : c \in commands}

Deeper(s) ==
  LET parts == Parts(s.commands)
  IN  [commands |-> UNION {Inside(part) : part \in parts}, fragments |-> s.fragments \cup parts]

Layers(command) ==
  LET at[depth \in 0 .. MaxDepth] ==
        IF depth = 0 THEN [commands |-> {command}, fragments |-> {}] ELSE Deeper(at[depth - 1])
  IN  at

Collect(command) ==
  LET deepest == Layers(command)[MaxDepth] IN deepest.fragments \cup deepest.commands

-----------------------------------------------------------------------------
(* normalize_command: the base, the short flags with the long ones they    *)
(* stand for, and the arguments.  What each token stands for is a table.   *)
FlagsOf(token) ==
  CASE token = "-rf" -> {"r", "f"} [] token \in {"-r", "--recursive"} -> {"r"}
    [] token \in {"-f", "--force"} -> {"f"} [] OTHER -> {}

Flags(c) == UNION {FlagsOf(c[i]) : i \in 2 .. Len(c)}

Args(c) == {c[i] : i \in {i \in 2 .. Len(c) : FlagsOf(c[i]) = {}}}
Base(c) == IF c = <<>> THEN "" ELSE c[1]

(* check_docker_escape: a flag that opens the host, or the mount of a      *)
(* sensitive path; a mount flag is followed by the path it mounts.         *)
Opening == {"--privileged", "--device", "--pid=host", "--cap-add=all",
            "--cap-add=sys_admin", "apparmor:unconfined"}
SensitivePaths == {"/", "/etc", "/root", "/proc", "/sys", "/dev", "/boot", "docker.sock"}

MountSources(c) ==
  {c[i + 1] : i \in {i \in 1 .. Len(c) - 1 : c[i] \in {"-v", "--volume", "--mount"}}}

DockerEscape(c) ==
  /\ "docker" \in ToSet(c)
  /\ ToSet(c) \cap Opening # {} \/ MountSources(c) \cap SensitivePaths # {}

(* check_dangerous: the commands that are refused without a rule.          *)
Dangerous(c) ==
  \/ ToSet(c) \cap {"fork bomb", "mkfs.", "> /dev/sda"} # {}
  \/ Base(c) = "rm" /\ {"r", "f"} \subseteq Flags(c) /\ Args(c) \cap {"/", "/*"} # {}
  \/ /\ Base(c) = "dd" /\ "of=/dev/sd" \in Args(c)
     /\ Args(c) \cap {"if=/dev/zero", "if=/dev/random"} # {}
  \/ Base(c) = "chmod" /\ "r" \in Flags(c) /\ {"777", "/"} \subseteq Args(c)
  \/ Base(c) = "chown" /\ "r" \in Flags(c) /\ "/" \in Args(c)
  \/ DockerEscape(c)
  \/ {"nsenter", "-t 1"} \subseteq ToSet(c)

(* evaluate_single, with the lists of policy.json.                         *)
Single(config, c) ==
  CASE Base(c) \in config.deny \/ Dangerous(c) -> "deny"
    [] Base(c) \in config.require_approval -> "ask"
    [] Base(c) \in config.allow -> "allow"
    [] OTHER -> "ask"

(* merge_decisions.                                                        *)
Strictest(verdicts) ==
  IF "deny" \in verdicts THEN "deny" ELSE IF "ask" \in verdicts THEN "ask" ELSE "allow"

(* has_variable_expansion: a $ outside single quotes before a name.        *)
Names == {"HOME", "{"}
Expands(c) ==
  \E i \in 1 .. Len(c) - 1 :
    c[i] = "$" /\ c[i + 1] \in Names /\ Quoting(c)[i] = 0

(* evaluate.                                                               *)
Evaluate(config, command) ==
  LET fragments == Collect(command)
      opaque == \/ Expands(command) \/ fragments = {}
                \/ \E f \in fragments : Base(f) \in Suspicious
  IN  IF ~config.enabled THEN "ask"
      ELSE Strictest({Single(config, f) : f \in fragments}
                     \cup (IF opaque THEN {"ask"} ELSE {}))

-----------------------------------------------------------------------------
(* What the contracts say: a shell command as the policy does; a write by  *)
(* the patterns that deny it, then by the directories that allow it.       *)
ShellContract(config, command) ==
  LET decision == Evaluate(config, command)
  IN  CASE decision = "allow" -> "allowed" [] decision = "ask" -> "contract" [] OTHER -> "denied"

WriteContract(denied, inAllowedDir) ==
  IF denied THEN "denied" ELSE IF inAllowedDir THEN "allowed" ELSE "contract"

(* The shell tool itself, for the agents without contracts: is a command   *)
(* that the policy does not deny asked about?                              *)
RequiresApprovalFor(config, autoApproved, command) ==
  ~autoApproved /\ Evaluate(config, command) # "allow"
=============================================================================
