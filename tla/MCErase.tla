------------------------------- MODULE MCErase -------------------------------
(***************************************************************************)
(* A user with two documents, erased while they are uploaded or ingested:  *)
(* a store may fail for one document and not for the other.                 *)
(***************************************************************************)
EXTENDS DocumentSystem, TLC

CONSTANTS d1, d2, u1, r1, r2, r3

mcDocs == {d1, d2}
mcUsers == {u1}
mcRequests == {r1, r2, r3}
mcSupersedes == [d \in mcDocs |-> IF d = d2 THEN d1 ELSE NoDoc]
mcOwner == [d \in mcDocs |-> u1]
mcFaults == {"ingest", "store"}
mcOffered == {"upload", "delete", "erase"}
mcSymmetry == Permutations(mcRequests)

=============================================================================
