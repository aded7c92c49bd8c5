------------------------------- MODULE MCGraph -------------------------------
(***************************************************************************)
(* A document and the amendment that replaces it, both naming entity e1;   *)
(* the amendment may also name e2, which is similar to e1, in one of two   *)
(* readings of the LLM.  Both are ingested, the first once more when the   *)
(* worker stops, while it is removed.                                      *)
(***************************************************************************)
EXTENDS KnowledgeGraph, TLC

CONSTANTS d1, d2, kb, e1, e2, a1, a2, c0, w1, w2, x1

local(e, n) == [entity |-> e, chunk |-> c0, names |-> n]

mcKb == [d \in Docs |-> kb]
mcHome == [e \in Entities |-> kb]
mcSupersedes == d1 :> NoDoc @@ d2 :> d1
mcExtractions ==
  d1 :> {[locals |-> {local(e1, {a1}), local(e2, {a1})}, relations |-> {<<e1, e2>>}]} @@
  d2 :> {[locals |-> {local(e1, {a2})}, relations |-> {}],
         [locals |-> {local(e1, {a2}), local(e2, {a2})}, relations |-> {<<e2, e1>>}]}
mcSimilar == {<<e2, e1>>}
mcJob == w1 :> [kind |-> "ingest", doc |-> d1] @@
         w2 :> [kind |-> "ingest", doc |-> d2] @@
         x1 :> [kind |-> "delete", doc |-> d1]
mcMaxTries == [t \in Tasks |-> IF t = w1 THEN 2 ELSE 1]

=============================================================================
