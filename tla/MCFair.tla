-------------------------------- MODULE MCFair --------------------------------
(***************************************************************************)
(* No call is lost and no task times out: what the system must then bring  *)
(* to an end.  The properties are temporal, so there is no SYMMETRY; the    *)
(* names of the calls are taken in order instead, which drops behaviours   *)
(* that differ in those names alone, and no step that fairness speaks of.  *)
(***************************************************************************)
EXTENDS DocumentSystem, TLC

CONSTANTS d1, u1, r1, r2, r3

mcDocs == {d1}
mcUsers == {u1}
mcRequests == {r1, r2, r3}
mcSupersedes == [d \in mcDocs |-> NoDoc]
mcOwner == [d \in mcDocs |-> u1]
mcFaults == {"ingest"}
mcOffered == {"upload", "approve", "reject", "delete"}

Arrived(r) == handler[r].pc # "idle"
mcInOrder == (Arrived(r2)' => Arrived(r1)) /\ (Arrived(r3)' => Arrived(r2))

=============================================================================
