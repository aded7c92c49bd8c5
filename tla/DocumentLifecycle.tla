-------------------------- MODULE DocumentLifecycle --------------------------
(***************************************************************************)
(* What services/document_state.py promises of the table "documents":      *)
(* every change of a state is one of ALLOWED, from the state the row has,  *)
(* and leaves its row in document_state_transitions.                       *)
(***************************************************************************)
EXTENDS DocumentState

CONSTANT Docs

VARIABLES state, trace

lifecycleVars == <<state, trace>>

Init ==
  /\ state = [d \in Docs |-> Absent]
  /\ trace = [d \in Docs |-> {}]

(* An upload: the row appears as proposed, or goes on to approved at once. *)
Upload(d, direct) ==
  /\ state[d] = Absent
  /\ state' = [state EXCEPT ![d] = IF direct THEN "approved" ELSE "proposed"]
  /\ trace' = [trace EXCEPT ![d] = {<<"proposed", "proposed">>}
                 \cup (IF direct THEN {<<"proposed", "approved">>} ELSE {})]

Transition(d, to) ==
  /\ CanTransition(state[d], to)
  /\ state' = [state EXCEPT ![d] = to]
  /\ trace' = [trace EXCEPT ![d] = @ \cup {<<state[d], to>>}]

Next == \E d \in Docs :
  \/ \E direct \in BOOLEAN : Upload(d, direct)
  \/ \E to \in DocStates : Transition(d, to)

Spec == Init /\ [][Next]_lifecycleVars

=============================================================================
