---------------------------- MODULE MCEventStore ----------------------------
(* An instance of EventStore: three tasks of one process.                  *)
EXTENDS EventStore, TLC

CONSTANTS e1, e2, e3, e4, sA, sB, t1, t2, t3, zymi1

MCStreamOf == (e1 :> sA) @@ (e2 :> sA) @@ (e3 :> sB) @@ (e4 :> sA)

MCOneProcess == [t \in {t1, t2, t3} |-> zymi1]
=============================================================================
