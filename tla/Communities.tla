------------------------------ MODULE Communities ------------------------------
(***************************************************************************)
(* The rebuild of the communities of one knowledge base                    *)
(* (services/communities.py): a GDS projection with a name of its own for  *)
(* the knowledge base, Leiden over it, and one PostgreSQL transaction      *)
(* under READ COMMITTED that deletes the old rows, waits for the LLM and   *)
(* inserts the new ones.  A row is the rebuild it comes from.              *)
(***************************************************************************)
EXTENDS Naturals, FiniteSets

CONSTANTS
  Rebuilds,
  RebuildTries,  \* arq's max_tries
  NoRebuild

ASSUME RebuildAssumption == NoRebuild \notin Rebuilds /\ RebuildTries \in Nat

VARIABLES
  table,       \* the rows of communities
  projection,  \* the rebuild that made the GDS projection
  ids,         \* the projection the community_id of the entities comes from
  rebuild,     \* the rebuild_communities tasks
  together     \* history: <<r, q>> when the last try of r ran at the same time as q

vars == <<table, projection, ids, rebuild, together>>

RebuildSteps ==
  {"drop", "project", "leiden", "write", "read", "clear", "delete", "wait", "summarise"}

Init ==
  /\ table = {} /\ projection = NoRebuild /\ ids = NoRebuild
  /\ rebuild = [r \in Rebuilds |->
       [pc |-> "none", tries |-> 0, over |-> NoRebuild, doomed |-> {}]]
  /\ together = {}

RebuildAt(r, pc) == rebuild[r].pc = pc
RebuildGoto(r, pc) == rebuild' = [rebuild EXCEPT ![r].pc = pc]
RebuildRuns(r) == rebuild[r].pc \in RebuildSteps

(* POST /communities/rebuild *)
RequestRebuild(r) ==
  /\ RebuildAt(r, "none")
  /\ RebuildGoto(r, "queued")
  /\ UNCHANGED <<table, projection, ids, together>>

(* Mutant: the tries are not counted out. *)
RebuildStartUnbounded(r) ==
  LET others == {q \in Rebuilds : RebuildRuns(q)}
  IN  /\ RebuildAt(r, "queued")
      /\ rebuild' = [rebuild EXCEPT ![r].pc = "drop", ![r].tries = @ + 1]
      /\ together' = {p \in together : p[1] # r} \cup ({r} \X others) \cup (others \X {r})
      /\ UNCHANGED <<table, projection, ids>>

RebuildStart(r) ==
  LET others == {q \in Rebuilds : RebuildRuns(q)}
  IN  /\ RebuildAt(r, "queued") /\ rebuild[r].tries < RebuildTries
      /\ rebuild' = [rebuild EXCEPT ![r].pc = "drop", ![r].tries = @ + 1]
      /\ together' = {p \in together : p[1] # r} \cup ({r} \X others) \cup (others \X {r})
      /\ UNCHANGED <<table, projection, ids>>

(* The drop is a best effort: its failure is swallowed.                    *)
DropProjection(r) ==
  /\ RebuildAt(r, "drop")
  /\ projection' \in {NoRebuild, projection}
  /\ RebuildGoto(r, "project")
  /\ UNCHANGED <<table, ids, together>>

(* Mutant: a projection that has the name already will do. *)
ProjectUnlessThere(r) ==
  /\ RebuildAt(r, "project")
  /\ projection' = IF projection = NoRebuild THEN r ELSE projection
  /\ RebuildGoto(r, "leiden")
  /\ UNCHANGED <<table, ids, together>>

(* gds.graph.project.cypher refuses a name that is taken. *)
Project(r) ==
  /\ RebuildAt(r, "project") /\ projection = NoRebuild
  /\ projection' = r
  /\ RebuildGoto(r, "leiden")
  /\ UNCHANGED <<table, ids, together>>

(* Leiden runs over whatever projection has the name when it is called ... *)
LeidenStarts(r) ==
  /\ RebuildAt(r, "leiden") /\ projection # NoRebuild
  /\ rebuild' = [rebuild EXCEPT ![r].pc = "write", ![r].over = projection]
  /\ UNCHANGED <<table, projection, ids, together>>

(* ... and writes the community ids to the entities when it is through.    *)
LeidenWrites(r) ==
  /\ RebuildAt(r, "write")
  /\ ids' = rebuild[r].over
  /\ RebuildGoto(r, "read")
  /\ UNCHANGED <<table, projection, together>>

(* Whatever Leiden raises (there is no GDS, no projection, an empty graph, *)
(* or the error of the projection that the session raises late) is taken   *)
(* for a database without the plugin: the projection is dropped, as well   *)
(* as that goes, and the task ends without a word.                         *)
Skip(r) ==
  /\ rebuild[r].pc \in {"project", "leiden", "write"}
  /\ projection' \in {projection, NoRebuild}
  /\ rebuild' = [rebuild EXCEPT ![r].pc = "skipped", ![r].over = NoRebuild]
  /\ UNCHANGED <<table, ids, together>>

(* The members are those of the ids the entities have now. *)
ReadMembers(r) ==
  /\ RebuildAt(r, "read")
  /\ rebuild' = [rebuild EXCEPT ![r].pc = "clear", ![r].over = ids]
  /\ UNCHANGED <<table, projection, ids, together>>

ClearProjection(r) ==
  /\ RebuildAt(r, "clear")
  /\ projection' \in {NoRebuild, projection}
  /\ RebuildGoto(r, "delete")
  /\ UNCHANGED <<table, ids, together>>

(* DELETE FROM communities: the statement sees the rows committed when it  *)
(* starts, and waits for a transaction that is deleting one of them.       *)
DeleteRows(r) ==
  /\ RebuildAt(r, "delete")
  /\ rebuild' = [rebuild EXCEPT ![r].pc = "wait", ![r].doomed = table]
  /\ UNCHANGED <<table, projection, ids, together>>

Locked(q) == IF RebuildAt(q, "summarise") THEN rebuild[q].doomed ELSE {}

GetLocks(r) ==
  /\ RebuildAt(r, "wait")
  /\ \A q \in Rebuilds \ {r} : Locked(q) \cap rebuild[r].doomed = {}
  /\ rebuild' = [rebuild EXCEPT ![r].pc = "summarise", ![r].doomed = @ \cap table]
  /\ UNCHANGED <<table, projection, ids, together>>

(* Mutant: the rows of earlier rebuilds are not deleted. *)
InsertRowsOnly(r) ==
  /\ RebuildAt(r, "summarise")
  /\ table' = table \cup {r}
  /\ rebuild' = [rebuild EXCEPT ![r].pc = "done", ![r].over = NoRebuild, ![r].doomed = {}]
  /\ UNCHANGED <<projection, ids, together>>

(* The LLM has summarised each community: insert and commit.  A knowledge  *)
(* base without related entities has no communities.                       *)
InsertRows(r) ==
  /\ RebuildAt(r, "summarise")
  /\ \E new \in {{}, {r}} : table' = (table \ rebuild[r].doomed) \cup new
  /\ rebuild' = [rebuild EXCEPT ![r].pc = "done", ![r].over = NoRebuild, ![r].doomed = {}]
  /\ UNCHANGED <<projection, ids, together>>

(* A statement or the LLM raises: the transaction is rolled back, the      *)
(* projection stays, and arq does not run the task again.                  *)
RebuildFails(r) ==
  /\ RebuildRuns(r)
  /\ rebuild' = [rebuild EXCEPT ![r].pc = "failed", ![r].over = NoRebuild, ![r].doomed = {}]
  /\ UNCHANGED <<table, projection, ids, together>>

(* The worker stops: arq queues the rebuilds it was running again.         *)
RebuildsStop ==
  /\ rebuild' = [r \in Rebuilds |-> IF RebuildRuns(r)
       THEN [rebuild[r] EXCEPT !.pc = "queued", !.over = NoRebuild, !.doomed = {}] ELSE rebuild[r]]
  /\ UNCHANGED <<table, projection, ids, together>>

RebuildGivenUp(r) ==
  /\ RebuildAt(r, "queued") /\ rebuild[r].tries = RebuildTries
  /\ RebuildGoto(r, "failed")
  /\ UNCHANGED <<table, projection, ids, together>>

Next ==
  \/ \E r \in Rebuilds :
       \/ RequestRebuild(r) \/ RebuildStart(r)
       \/ DropProjection(r) \/ Project(r) \/ LeidenStarts(r) \/ LeidenWrites(r) \/ Skip(r)
       \/ ReadMembers(r) \/ ClearProjection(r) \/ DeleteRows(r) \/ GetLocks(r)
       \/ InsertRows(r) \/ RebuildFails(r) \/ RebuildGivenUp(r)
  \/ RebuildsStop

Spec == Init /\ [][Next]_vars

-----------------------------------------------------------------------------
TypeOK ==
  /\ table \subseteq Rebuilds /\ {projection, ids} \subseteq Rebuilds \cup {NoRebuild}
  /\ \A r \in Rebuilds :
       /\ rebuild[r].pc \in RebuildSteps \cup {"none", "queued", "done", "skipped", "failed"}
       /\ rebuild[r].over \in Rebuilds \cup {NoRebuild}
       /\ rebuild[r].doomed \subseteq Rebuilds /\ rebuild[r].tries \in 0 .. RebuildTries
  /\ together \subseteq Rebuilds \X Rebuilds

(* A rebuild never stores communities of a projection that an earlier one  *)
(* left behind: the members it has read come from a projection it made, or *)
(* from one made by a rebuild that ran at the same time, or that ran at    *)
(* the same time as such a one, whatever drops failed, whoever stopped     *)
(* before and whoever's Leiden wrote last (communities.py:38-107).         *)
MembersAreRecent ==
  \A r \in Rebuilds : rebuild[r].pc \in {"clear", "delete", "wait", "summarise"} =>
    LET by == rebuild[r].over IN
    \/ by = r \/ <<r, by>> \in together
    \/ \E q \in Rebuilds : <<r, q>> \in together /\ <<q, by>> \in together

(* "we keep only the latest run" (communities.py:110), unless two ran at    *)
(* the same time: the delete of a rebuild does not see the rows of one     *)
(* that commits while it waits, and only of such a one.                    *)
OneRunInTable ==
  \A q, r \in table : q # r => {<<q, r>>, <<r, q>>} \cap together # {}

=============================================================================
