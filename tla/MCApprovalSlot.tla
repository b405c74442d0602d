--------------------------- MODULE MCApprovalSlot ---------------------------
(* Instances of ApprovalSlot: two requests, each with a worker that copies *)
(* the handler and a question of its workflow.                             *)
EXTENDS ApprovalSlot, TLC

CONSTANTS r1, r2, copy1, copy2, ask1, ask2

MCOwner == (copy1 :> r1) @@ (ask1 :> r1) @@ (copy2 :> r2) @@ (ask2 :> r2)
=============================================================================
