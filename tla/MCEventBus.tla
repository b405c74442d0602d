----------------------------- MODULE MCEventBus -----------------------------
(* An instance of EventBus: two publishers, two receivers, channels of one *)
(* slot, so that full and crossing fan-outs happen with few events.        *)
EXTENDS EventBus, TLC

CONSTANTS e1, e2, sA, sB

MCStreamOf == (e1 :> sA) @@ (e2 :> sB)
=============================================================================
