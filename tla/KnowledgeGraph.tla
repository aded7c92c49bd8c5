---------------------------- MODULE KnowledgeGraph ----------------------------
(***************************************************************************)
(* The entity graph in Neo4j and the points in Qdrant under concurrent     *)
(* tasks: what resolve_entities reads, what write_chunks_to_qdrant and     *)
(* write_graph write, and what delete_chunks_for_doc and                   *)
(* delete_doc_cascade remove.  IngestionWorker sees a document as one      *)
(* node, one fact and one point; here it has entities, which documents     *)
(* share and which a sweep of the knowledge base removes.                  *)
(*                                                                         *)
(* Every statement is a transaction of its own, so each is an action.  A   *)
(* task may stop between two of them: the call raised, or the worker       *)
(* stopped and arq starts the task again.                                  *)
(***************************************************************************)
EXTENDS Naturals

CONSTANTS
  Docs, Kbs, Entities, Names, ChunkIds,
  NoDoc,
  Kb,          \* the knowledge base of a document
  Home,        \* the knowledge base in the id of an entity
  Supersedes,
  Extractions, \* what the LLM may find in a document, see ExtractionOf
  Similar,     \* <<new, existing>>: same type and cosine >= HIGH
  Tasks,
  Job,         \* what each task is and for which document
  MaxTries     \* bounds how often each task starts

(* locals: one record per entity and chunk, with the names the chunk gives *)
(* it, its canonical name included; relations: pairs of entities.          *)
Locals == [entity : Entities, chunk : ChunkIds, names : SUBSET Names]
ExtractionOf == [locals : SUBSET Locals, relations : SUBSET (Entities \X Entities)]

ASSUME GraphAssumption ==
  /\ Kb \in [Docs -> Kbs]
  /\ Home \in [Entities -> Kbs]
  /\ NoDoc \notin Docs
  /\ Supersedes \in [Docs -> Docs \cup {NoDoc}]
  /\ Extractions \in [Docs -> SUBSET ExtractionOf]
  /\ Similar \subseteq Entities \X Entities
  /\ Job \in [Tasks -> [kind : {"ingest", "delete"}, doc : Docs]]
  /\ MaxTries \in [Tasks -> Nat]

VARIABLES
  present,   \* Entity nodes
  aliases,   \* e.aliases, {} where there is no node
  docNodes,  \* Document nodes
  mentions,  \* MENTIONED_IN edges
  facts,     \* RELATED_TO edges
  closed,    \* the facts whose tx_to is set
  points,    \* Qdrant points: one for each chunk of a document
  writer,    \* the tasks
  missed,    \* history: entities another task upserted since a task resolved
  disturbed  \* history: tasks that lost something they had written, see Sweep

graph == <<present, aliases, docNodes, mentions, facts, closed>>
history == <<missed, disturbed>>
vars == <<graph, points, writer, history>>

Mention == [entity : Entities, chunk : ChunkIds, doc : Docs]
Fact    == [src : Entities, dst : Entities, doc : Docs]
Point   == [doc : Docs, chunk : ChunkIds, entities : SUBSET Entities]

IngestSteps == {"points", "node", "link", "entities", "mentions", "relations"}
DeleteSteps == {"cascade", "sweep"}

(* found is what the extraction gave, canon the entity each of its         *)
(* entities is resolved to, names the aliases to write.                    *)
Nothing == [locals |-> {}, relations |-> {}]
IdleTask == [pc |-> "idle", tries |-> 0, found |-> Nothing,
             canon |-> [e \in Entities |-> e], names |-> [e \in Entities |-> {}],
             todo |-> {}]

Init ==
  /\ present = {} /\ aliases = [e \in Entities |-> {}]
  /\ docNodes = {} /\ mentions = {} /\ facts = {} /\ closed = {}
  /\ points = {}
  /\ writer = [t \in Tasks |-> IdleTask]
  /\ missed = [t \in Tasks |-> {}]
  /\ disturbed = {}

At(t, pc) == writer[t].pc = pc
Doc(t) == Job[t].doc
Goto(t, pc) == writer' = [writer EXCEPT ![t].pc = pc]

(* The entities of an extraction, the canonical ids, and the edges to write. *)
Extracted(x) == {l.entity : l \in x.locals}
Canonical(t) == {writer[t].canon[e] : e \in Extracted(writer[t].found)}
MentionsOf(t) ==
  {[entity |-> writer[t].canon[l.entity], chunk |-> l.chunk, doc |-> Doc(t)] :
     l \in writer[t].found.locals}
FactsOf(t) ==
  {[src |-> writer[t].canon[r[1]], dst |-> writer[t].canon[r[2]], doc |-> Doc(t)] :
     r \in {r \in writer[t].found.relations :
              r[1] \in Extracted(writer[t].found) /\ r[2] \in Extracted(writer[t].found)}}

-----------------------------------------------------------------------------
(* Where resolve_entities may take an entity of x: to itself when its id   *)
(* exists, else to one that exists, is named by the same document and is   *)
(* similar, else to itself as a new one.                                   *)
Resolutions(x) ==
  LET existing == Extracted(x) \cap present
      similar(e) == {y \in existing : <<e, y>> \in Similar}
  IN  {c \in [Entities -> Entities] : \A e \in Entities :
         IF e \in Extracted(x) \ existing /\ similar(e) # {}
         THEN c[e] \in similar(e) ELSE c[e] = e}

(* Mutant: the aliases that were read are dropped. *)
NameChoicesForget(x, c) ==
  {n \in [Entities -> SUBSET Names] : \A y \in Entities :
     LET mine == {l \in x.locals : c[l.entity] = y}
     IN  IF mine = {} THEN n[y] = {} ELSE \E l \in mine : n[y] = l.names}

(* The aliases write_graph will write: several locals of one canonical id  *)
(* overwrite each other in "seen", so one of them decides; a local whose   *)
(* entity exists brings the aliases read with it.                          *)
NameChoices(x, c) ==
  {n \in [Entities -> SUBSET Names] : \A y \in Entities :
     LET mine == {l \in x.locals : c[l.entity] = y}
     IN  IF mine = {} THEN n[y] = {}
         ELSE \E l \in mine : n[y] = l.names \cup aliases[l.entity]}

(* Step 3 of the saga: the lookup is one query, the result is used until   *)
(* the graph is written.                                                   *)
Resolve(t) ==
  /\ At(t, "idle") /\ writer[t].tries < MaxTries[t]
  /\ Job[t].kind = "ingest"
  /\ \E x \in Extractions[Doc(t)] : \E c \in Resolutions(x) : \E n \in NameChoices(x, c) :
       writer' = [writer EXCEPT ![t] = [pc |-> "points", tries |-> @.tries + 1, found |-> x,
                                        canon |-> c, names |-> n, todo |-> {}]]
  /\ missed' = [missed EXCEPT ![t] = {}]
  /\ disturbed' = disturbed \ {t}
  /\ UNCHANGED <<graph, points>>

(* Mutant: the payload names the entities as they were extracted. *)
WriteChunksUnresolved(t) ==
  /\ At(t, "points")
  /\ LET locals(c) == {l \in writer[t].found.locals : l.chunk = c}
         new == {[doc |-> Doc(t), chunk |-> c, entities |-> {l.entity : l \in locals(c)}] :
                   c \in ChunkIds}
     IN  points' = {p \in points : p.doc # Doc(t)} \cup new
  /\ Goto(t, "node")
  /\ UNCHANGED <<graph, history>>

(* Step A.  Points are keyed by document and chunk: a second write replaces.*)
WriteChunks(t) ==
  /\ At(t, "points")
  /\ LET new == {[doc |-> Doc(t), chunk |-> c,
                  entities |-> {m.entity : m \in {m \in MentionsOf(t) : m.chunk = c}}] :
                   c \in ChunkIds}
     IN  points' = {p \in points : p.doc # Doc(t)} \cup new
  /\ Goto(t, "node")
  /\ UNCHANGED <<graph, history>>

(* The statements still to run, of the first kind that has any. *)
StartEntities(t) ==
  writer' = [writer EXCEPT ![t].pc = IF Canonical(t) = {} THEN "done" ELSE "entities",
                           ![t].todo = Canonical(t)]

(* Mutant: the edges are written before all of the entities are. *)
AfterEntityEarly(t, e) == [writer[t] EXCEPT !.pc = "mentions", !.todo = MentionsOf(t)]

AfterEntity(t, e) ==
  IF writer[t].todo # {e} THEN [writer[t] EXCEPT !.todo = @ \ {e}]
  ELSE [writer[t] EXCEPT !.pc = "mentions", !.todo = MentionsOf(t)]

AfterMention(t, m) ==
  IF writer[t].todo # {m} THEN [writer[t] EXCEPT !.todo = @ \ {m}]
  ELSE [writer[t] EXCEPT !.pc = IF FactsOf(t) = {} THEN "done" ELSE "relations",
                         !.todo = FactsOf(t)]

AfterRelation(t, f) ==
  [writer[t] EXCEPT !.pc = IF writer[t].todo = {f} THEN "done" ELSE @, !.todo = @ \ {f}]

(* Step B, statement by statement. *)
UpsertDocument(t) ==
  /\ At(t, "node")
  /\ docNodes' = docNodes \cup {Doc(t)}
  /\ IF Supersedes[Doc(t)] # NoDoc THEN Goto(t, "link") ELSE StartEntities(t)
  /\ UNCHANGED <<present, aliases, mentions, facts, closed, points, history>>

(* CLOSE_TX_FOR_DOC_FACTS *)
LinkSupersedes(t) ==
  /\ At(t, "link")
  /\ closed' = closed \cup {f \in facts : f.doc = Supersedes[Doc(t)]}
  /\ StartEntities(t)
  /\ UNCHANGED <<present, aliases, docNodes, mentions, facts, points, history>>

(* MERGE_ENTITY_NOAPOC: the aliases are replaced. *)
UpsertEntity(t) ==
  /\ At(t, "entities")
  /\ \E e \in writer[t].todo :
       /\ present' = present \cup {e}
       /\ aliases' = [aliases EXCEPT ![e] = writer[t].names[e]]
       /\ writer' = [writer EXCEPT ![t] = AfterEntity(t, e)]
       /\ missed' = [u \in Tasks |-> IF u = t THEN missed[u] ELSE missed[u] \cup {e}]
  /\ UNCHANGED <<docNodes, mentions, facts, closed, points, disturbed>>

(* MERGE_MENTIONED_IN: without both nodes nothing is written, silently.    *)
LinkMention(t) ==
  /\ At(t, "mentions")
  /\ \E m \in writer[t].todo :
       /\ mentions' = IF m.entity \in present /\ m.doc \in docNodes
                      THEN mentions \cup {m} ELSE mentions
       /\ writer' = [writer EXCEPT ![t] = AfterMention(t, m)]
  /\ UNCHANGED <<present, aliases, docNodes, facts, closed, points, history>>

(* Mutant: tx_to is reset on every MERGE. *)
UpsertRelationReopens(t) ==
  /\ At(t, "relations")
  /\ \E f \in writer[t].todo :
       /\ facts' = IF {f.src, f.dst} \subseteq present THEN facts \cup {f} ELSE facts
       /\ closed' = closed \ {f}
       /\ writer' = [writer EXCEPT ![t] = AfterRelation(t, f)]
  /\ UNCHANGED <<present, aliases, docNodes, mentions, points, history>>

(* MERGE_RELATED_TO: tx_to is null ON CREATE and left alone on a match.    *)
UpsertRelation(t) ==
  /\ At(t, "relations")
  /\ \E f \in writer[t].todo :
       /\ facts' = IF {f.src, f.dst} \subseteq present THEN facts \cup {f} ELSE facts
       /\ writer' = [writer EXCEPT ![t] = AfterRelation(t, f)]
  /\ UNCHANGED <<present, aliases, docNodes, mentions, closed, points, history>>

-----------------------------------------------------------------------------
(* cleanup_document and erase_user, the stores one after the other. *)
DeleteChunks(t) ==
  /\ At(t, "idle") /\ writer[t].tries < MaxTries[t]
  /\ Job[t].kind = "delete"
  /\ points' = {p \in points : p.doc # Doc(t)}
  /\ writer' = [writer EXCEPT ![t].pc = "cascade", ![t].tries = @ + 1]
  /\ UNCHANGED <<graph, history>>

(* The tasks that write the graph of d, or have written it. *)
HasWritten(d) ==
  {t \in Tasks : Job[t] = [kind |-> "ingest", doc |-> d]
                 /\ writer[t].pc \in {"link", "entities", "mentions", "relations", "done"}}

(* Mutant: the facts are deleted, what closed them is not. *)
CascadeKeepsClosed(t) ==
  LET d == Doc(t)
  IN  /\ At(t, "cascade")
      /\ docNodes' = docNodes \ {d}
      /\ mentions' = {m \in mentions : m.doc # d}
      /\ facts' = {f \in facts : f.doc # d}
      /\ Goto(t, "sweep")
      /\ disturbed' = disturbed \cup HasWritten(d)
      /\ UNCHANGED <<present, aliases, closed, points, missed>>

(* DELETE_DOC_CASCADE: nothing at all without the Document node. *)
Cascade(t) ==
  LET d == Doc(t)
  IN  /\ At(t, "cascade")
      /\ IF d \in docNodes
         THEN /\ docNodes' = docNodes \ {d}
              /\ mentions' = {m \in mentions : m.doc # d}
              /\ facts' = {f \in facts : f.doc # d}
              /\ closed' = {f \in closed : f.doc # d}
         ELSE UNCHANGED <<docNodes, mentions, facts, closed>>
      /\ Goto(t, "sweep")
      /\ disturbed' = disturbed \cup HasWritten(d)
      /\ UNCHANGED <<present, aliases, points, missed>>

(* Mutant: entities that are in facts are orphans too. *)
OrphansInFacts(kb) ==
  {e \in present : Home[e] = kb /\ \A m \in mentions : m.entity # e}

(* Entities without an edge to a document and without a fact. *)
Orphans(kb) ==
  {e \in present : /\ Home[e] = kb
                   /\ \A m \in mentions : m.entity # e
                   /\ \A f \in facts : f.src # e /\ f.dst # e}

(* CLEANUP_ORPHAN_ENTITIES, for the whole knowledge base: DETACH DELETE    *)
(* takes whatever edges the entities have with them.  A task that is still *)
(* linking the entities it upserted may lose them here.                    *)
Sweep(t) ==
  LET gone == Orphans(Kb[Doc(t)])
  IN  /\ At(t, "sweep")
      /\ present' = present \ gone
      /\ aliases' = [e \in Entities |-> IF e \in gone THEN {} ELSE aliases[e]]
      /\ mentions' = {m \in mentions : m.entity \notin gone}
      /\ facts' = {f \in facts : {f.src, f.dst} \cap gone = {}}
      /\ closed' = {f \in closed : {f.src, f.dst} \cap gone = {}}
      /\ Goto(t, "done")
      /\ disturbed' = disturbed \cup
           {u \in Tasks : /\ writer[u].pc \in {"entities", "mentions", "relations"}
                          /\ Canonical(u) \cap gone # {}}
      /\ UNCHANGED <<docNodes, points, missed>>

(* A statement raises, or the worker stops, the last steps of the saga     *)
(* after the graph is written included: the task may start again.          *)
Stop(t) ==
  /\ \/ writer[t].pc \in IngestSteps \cup DeleteSteps
     \/ At(t, "done") /\ Job[t].kind = "ingest"
  /\ writer' = [writer EXCEPT ![t] = [IdleTask EXCEPT !.tries = writer[t].tries]]
  /\ UNCHANGED <<graph, points, history>>

-----------------------------------------------------------------------------
IngestStep(t) ==
  \/ Resolve(t) \/ WriteChunks(t) \/ UpsertDocument(t) \/ LinkSupersedes(t)
  \/ UpsertEntity(t) \/ LinkMention(t) \/ UpsertRelation(t)

DeleteStep(t) == DeleteChunks(t) \/ Cascade(t) \/ Sweep(t)

GraphStep == \E t \in Tasks : IngestStep(t) \/ DeleteStep(t) \/ Stop(t)

GraphSpec == Init /\ [][GraphStep]_vars

-----------------------------------------------------------------------------
GraphTypeOK ==
  /\ present \subseteq Entities /\ docNodes \subseteq Docs
  /\ aliases \in [Entities -> SUBSET Names]
  /\ \A e \in Entities \ present : aliases[e] = {}
  /\ mentions \subseteq Mention /\ facts \subseteq Fact /\ closed \subseteq facts
  /\ points \subseteq Point
  /\ \A t \in Tasks :
       /\ writer[t].pc \in {"idle", "done"} \cup IngestSteps \cup DeleteSteps
       /\ writer[t].found \in ExtractionOf
       /\ writer[t].canon \in [Entities -> Entities]
  /\ disturbed \subseteq Tasks

(* An ingestion that has come to its end has all its mentions and facts in *)
(* the graph, whatever other documents wrote and removed since, unless one *)
(* of two things happened while it wrote or after: its own document was    *)
(* removed, or the sweep of a removal came between its entities and the    *)
(* edges to them (temporal_model.py:97, writers.py:120-151).               *)
CompleteUnlessDisturbed ==
  \A t \in Tasks :
    At(t, "done") /\ Job[t].kind = "ingest" /\ t \notin disturbed =>
      MentionsOf(t) \subseteq mentions /\ FactsOf(t) \subseteq facts

(* The entities Qdrant shows for a chunk are mentioned by it in Neo4j, once *)
(* every ingestion of the document has ended and none was disturbed        *)
(* (pipeline.py:134-170).                                                  *)
PayloadIsMentioned ==
  \A p \in points :
    LET ingestions == {t \in Tasks : Job[t] = [kind |-> "ingest", doc |-> p.doc]
                                     /\ writer[t].tries > 0}
    IN  (\A t \in ingestions : At(t, "done") /\ t \notin disturbed) =>
          \A e \in p.entities : [entity |-> e, chunk |-> p.chunk, doc |-> p.doc] \in mentions

(* What a document says is removed from the graph only by the cascade of   *)
(* its own removal.  The sweep, which detaches every edge of the nodes it  *)
(* takes, finds none there, also between the statements of a running       *)
(* ingestion and after a cascade that came too early                       *)
(* (temporal_model.py:86-102).                                             *)
RemovedOnlyByOwnCascade ==
  [][\A x \in (mentions \ mentions') \cup (facts \ facts') :
       \E t \in Tasks : Doc(t) = x.doc /\ Cascade(t)]_vars

(* A fact that was closed by an amendment is not opened again by a second  *)
(* ingestion of the document it comes from (temporal_model.py:72-83).      *)
ClosedStaysClosed ==
  [][closed \cap facts' \subseteq closed']_vars

(* An entity loses aliases only to a task that wrote a stale list, because *)
(* another task upserted the entity after its lookup, or that merged a     *)
(* similar entity into it (resolver.py:73-117, temporal_model.py:57).      *)
AliasesLostOnlyIfStale ==
  [][\A e \in present \cap present' :
       aliases[e] \subseteq aliases'[e]
       \/ \E t \in Tasks :
            /\ At(t, "entities") /\ writer'[t] # writer[t]
            /\ \/ e \in missed[t]
               \/ \E n \in Extracted(writer[t].found) \ {e} : writer[t].canon[n] = e]_vars

=============================================================================
