------------------------------- MODULE MCClaims -------------------------------
(* The instance on which the claim of DocumentClaims fails: one document   *)
(* and two overlapping calls.                                              *)
EXTENDS DocumentClaims, TLC

CONSTANTS d1, u1, r1, r2, r3

mcUsers == {u1}
mcRequests == {r1, r2, r3}
mcFaults == {}
mcDocs == {d1}
mcSupersedes == [d \in mcDocs |-> NoDoc]
mcOwner == [d \in mcDocs |-> u1]
mcOffered == {"upload", "approve", "delete"}

=============================================================================
