---------------------------- MODULE MCCommunities ----------------------------
(***************************************************************************)
(* Three rebuilds of one knowledge base, each started twice at most.       *)
(***************************************************************************)
EXTENDS Communities

=============================================================================
