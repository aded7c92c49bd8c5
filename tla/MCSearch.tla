------------------------------- MODULE MCSearch -------------------------------
(***************************************************************************)
(* A document and the amendment that replaces it, in one knowledge base,   *)
(* ingested while a search runs; the ingestion of the first one may stop   *)
(* and be run again.  Their only chunks have the same number.              *)
(***************************************************************************)
EXTENDS HybridSearch, TLC

CONSTANTS d1, d2, kb, e1, e2, a1, c0, w1, w2, s1

local(e, n) == [entity |-> e, chunk |-> c0, names |-> n]

mcKb == [d \in Docs |-> kb]
mcHome == [e \in Entities |-> kb]
mcSupersedes == d1 :> NoDoc @@ d2 :> d1
mcExtractions ==
  d1 :> {[locals |-> {local(e1, {a1}), local(e2, {a1})}, relations |-> {<<e1, e2>>}]} @@
  d2 :> {[locals |-> {local(e1, {a1})}, relations |-> {}]}
mcJob == w1 :> [kind |-> "ingest", doc |-> d1] @@
         w2 :> [kind |-> "ingest", doc |-> d2]
mcMaxTries == w1 :> 2 @@ w2 :> 1
mcQuery == [s \in Searches |-> [kb |-> kb, include_superseded |-> FALSE]]

=============================================================================
