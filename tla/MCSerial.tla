------------------------------- MODULE MCSerial -------------------------------
(***************************************************************************)
(* One API call at a time, each running to its end while the worker goes   *)
(* on: the calls no longer race with each other, only with the tasks.      *)
(* Four calls: an upload, an approval, and two that reject or delete.      *)
(***************************************************************************)
EXTENDS DocumentSystem, TLC

CONSTANTS d1, u1, r1, r2, r3, r4

mcDocs == {d1}
mcUsers == {u1}
mcRequests == {r1, r2, r3, r4}
mcSupersedes == [d \in mcDocs |-> NoDoc]
mcOwner == [d \in mcDocs |-> u1]
mcFaults == {"api", "ingest", "store", "timeout"}
mcOffered == {"upload", "approve", "reject", "delete"}
mcSymmetry == Permutations(mcRequests)

=============================================================================
