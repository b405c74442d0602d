------------------------------ MODULE MCWorkflow ------------------------------
(* Instances of Workflow.  Plans: a diamond whose last node also depends   *)
(* on the first, by an edge that only orders them; a chain; three nodes    *)
(* side by side, and one after them; two nodes that connect a server on    *)
(* one level, and one that connects a third after them; one no model       *)
(* should write: a cycle.                                                  *)
EXTENDS Workflow, TLC

CONSTANTS setup, study, slack, report, fetch, mail, old

MCKind == (setup :> "install") @@ (study :> "agent") @@ (slack :> "package")
          @@ (report :> "url") @@ (fetch :> "direct") @@ (mail :> "url")

MCMaxRetries == [n \in Nodes |-> IF n \in {setup, study, report} THEN 1 ELSE 0]

Diamond == [nodes |-> <<setup, study, slack, report>>,
            edges |-> { <<setup, study>>, <<setup, slack>>, <<setup, report>>,
                        <<study, report>>, <<slack, report>> },
            order |-> { <<setup, report>> }]
Chain == [nodes |-> <<report, fetch, study>>, edges |-> { <<fetch, report>>, <<report, study>> },
          order |-> { <<fetch, report>> }]
Wide == [nodes |-> <<report, setup, study, fetch>>,
         edges |-> { <<setup, report>>, <<study, report>>, <<fetch, report>> }, order |-> {}]
Beside == [nodes |-> <<slack, report, mail>>, edges |-> { <<slack, mail>> }, order |-> {}]
Cycle == [nodes |-> <<fetch, study>>, edges |-> { <<fetch, study>>, <<study, fetch>> }, order |-> {}]

MCReplies == { <<"guarded", "free">> }
MCPlans == { Diamond, Chain, Wide, Beside, Cycle }
==============================================================================
