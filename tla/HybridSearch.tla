----------------------------- MODULE HybridSearch -----------------------------
(***************************************************************************)
(* search() of retrieval/hybrid.py, over the graph and the points that     *)
(* the tasks of KnowledgeGraph change while it runs: every read is an      *)
(* await of its own, and what one read returned selects what the next one  *)
(* asks for.                                                               *)
(*                                                                         *)
(* Scores decide which of the matching points and entities come back, so   *)
(* any of them may; the limits of 20 entities and 8 timelines are not      *)
(* reached.  A date range only narrows what the reads return.              *)
(***************************************************************************)
EXTENDS KnowledgeGraph

CONSTANTS
  Searches,
  Query        \* kb_id and include_superseded of each search

VARIABLE found  \* where each search stands, and what it has read

allVars == <<vars, found>>

SearchInit ==
  found = [s \in Searches |->
    [pc |-> "idle", fulltext |-> {}, hits |-> {}, todo |-> {}, entities |-> {},
     timeline |-> {}]]

(* entity_fulltext_search; it returns nothing when Neo4j raises.           *)
Fulltext(s) ==
  /\ found[s].pc = "idle"
  /\ \E hits \in SUBSET {e \in present : Home[e] = Query[s].kb} :
       found' = [found EXCEPT ![s].pc = "vector", ![s].fulltext = hits]
  /\ UNCHANGED vars

(* _qdrant_search: the filter is the knowledge base alone. *)
VectorSearch(s) ==
  /\ found[s].pc = "vector"
  /\ \E hits \in SUBSET {p \in points : Kb[p.doc] = Query[s].kb} :
       found' = [found EXCEPT ![s].pc = "promote", ![s].hits = hits]
  /\ UNCHANGED vars

(* ENTITIES_FOR_CHUNKS matches chunk_id, which numbers the chunks of a     *)
(* document, in whatever document it finds it.                             *)
EntitiesForChunks(ids) == {m.entity : m \in {m \in mentions : m.chunk \in ids}}

Promote(s) ==
  /\ found[s].pc = "promote"
  /\ LET top == found[s].fulltext \cup EntitiesForChunks({p.chunk : p \in found[s].hits})
     IN  found' = [found EXCEPT ![s].pc = "timeline", ![s].todo = top, ![s].entities = top]
  /\ UNCHANGED vars

EntityTimeline(e, include_superseded) ==
  {f \in facts : e \in {f.src, f.dst} /\ (include_superseded \/ f \notin closed)}

(* One query for each of the top entities. *)
Timeline(s) ==
  /\ found[s].pc = "timeline"
  /\ \E e \in found[s].todo :
       found' = [found EXCEPT ![s].todo = @ \ {e},
         ![s].timeline = @ \cup EntityTimeline(e, Query[s].include_superseded)]
  /\ UNCHANGED vars

Respond(s) ==
  /\ found[s].pc = "timeline" /\ found[s].todo = {}
  /\ found' = [found EXCEPT ![s].pc = "done"]
  /\ UNCHANGED vars

SearchStep(s) ==
  Fulltext(s) \/ VectorSearch(s) \/ Promote(s) \/ Timeline(s) \/ Respond(s)

SearchNext ==
  \/ GraphStep /\ UNCHANGED found
  \/ \E s \in Searches : SearchStep(s)

Spec == Init /\ SearchInit /\ [][SearchNext]_allVars

-----------------------------------------------------------------------------
(* "promote entities mentioned in the chunk hits" (hybrid.py:52): an       *)
(* entity of the result that the full-text search did not find is          *)
(* mentioned in one of the chunks that were found.                         *)
PromotedAreMentioned ==
  \A s \in Searches : \A e \in found[s].entities \ found[s].fulltext :
    \E p \in found[s].hits :
      e \in p.entities \/ [entity |-> e, chunk |-> p.chunk, doc |-> p.doc] \in mentions

=============================================================================
