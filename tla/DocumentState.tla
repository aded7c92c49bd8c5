---------------------------- MODULE DocumentState ----------------------------
(***************************************************************************)
(* The document state machine of backend/app/services/document_state.py:   *)
(* the states a row of "documents" can be in and the transitions that      *)
(* transition() accepts.  A transition is checked against the state the    *)
(* caller holds in memory, which need not be the state of the row.         *)
(***************************************************************************)

DocStates == {"proposed", "approved", "rejected", "ingesting", "ingested",
              "ingestion_failed", "superseded", "deleted"}

(* The row does not exist yet: the from-state None of the table. *)
Absent == "absent"

RowStates == DocStates \cup {Absent}

(* ALLOWED: the states reachable in one step from each state. *)
Allowed ==
  [ s \in DocStates |->
      CASE s = "proposed"         -> {"proposed", "approved", "rejected", "deleted"}
        [] s = "approved"         -> {"ingesting", "rejected", "deleted"}
        [] s = "ingesting"        -> {"ingested", "ingestion_failed"}
        [] s = "ingested"         -> {"superseded", "deleted"}
        [] s = "ingestion_failed" -> {"ingesting", "rejected", "deleted"}
        [] s = "superseded"       -> {"deleted"}
        [] s = "rejected"         -> {"deleted"}
        [] s = "deleted"          -> {} ]

(* The test transition() makes before it writes a trace row. *)
CanTransition(from, to) == from \in DocStates /\ to \in Allowed[from]

(* The rows of document_state_transitions that one call may add. *)
TraceRows == RowStates \X DocStates

=============================================================================
