---------------------------- MODULE DocumentClaims ----------------------------
(***************************************************************************)
(* What a test says of documents and the code does not do.  The run that   *)
(* checks it shows the shortest way in which it fails.                     *)
(***************************************************************************)
EXTENDS DocumentSystem

(* test_state_machine.py:38, test_terminal_deleted_blocks_further_         *)
(* transitions: a deleted document stays deleted.                          *)
DeletedIsTerminal ==
  [][\A d \in Docs : docState[d] = "deleted" => docState'[d] = "deleted"]_docState

=============================================================================
