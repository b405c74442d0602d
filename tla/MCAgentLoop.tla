----------------------------- MODULE MCAgentLoop -----------------------------
(* Instances of AgentLoop, with the gates the policy and the contracts give: *)
(* a shell command to be asked about, code whose tool asks by itself, a      *)
(* denied write and a question to the user.                                  *)
EXTENDS AgentLoop, TLC

CONSTANTS shell, code, write, question, MaxDepth

P == INSTANCE Policy
Rules == [enabled |-> TRUE, allow |-> {"ls"}, deny |-> {}, require_approval |-> {}]

MCGate == (shell :> P!ShellContract(Rules, <<"make">>)) @@
          (code :> IF P!RequiresApprovalFor(Rules, FALSE, <<"python">>) THEN "tool" ELSE "allowed") @@
          (write :> P!WriteContract(TRUE, TRUE)) @@ (question :> "allowed")

MCReplies == { <<question, code, write>>, <<shell, shell>> }
==============================================================================
