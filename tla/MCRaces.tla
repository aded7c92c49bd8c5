------------------------------- MODULE MCRaces -------------------------------
(***************************************************************************)
(* One document and calls that overlap in every way: two approvals, a      *)
(* rejection or a deletion against the ingestion, failures and crashes.    *)
(***************************************************************************)
EXTENDS DocumentSystem, TLC

CONSTANTS d1, u1, r1, r2, r3

mcDocs == {d1}
mcUsers == {u1}
mcRequests == {r1, r2, r3}
mcSupersedes == [d \in mcDocs |-> NoDoc]
mcOwner == [d \in mcDocs |-> u1]
mcFaults == {"api", "ingest", "store", "timeout"}
mcOffered == {"upload", "approve", "reject", "delete"}
mcSymmetry == Permutations(mcRequests)

=============================================================================
