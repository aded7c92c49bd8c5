------------------------------ MODULE ChatService ------------------------------
(***************************************************************************)
(* The server's side of a conversation (routers/chat.py and                *)
(* services/chat_service.py): a question is committed, then the generator  *)
(* of the response searches, reads the history, calls the LLM, commits the *)
(* answer and only then sends it.                                          *)
(*                                                                         *)
(* A question is named by its request.  What is said, the citations, the   *)
(* instructions of a gem are left out; the search is the one of            *)
(* HybridSearch and only ends or raises here.  created_at is now() of the  *)
(* database, the moment the transaction of the row has begun: for a        *)
(* question, when the token is looked up.                                  *)
(***************************************************************************)
EXTENDS Naturals, FiniteSets

CONSTANTS
  Convs, Questions, NoConv,
  HistoryLength   \* how many messages of the history the LLM is given

ASSUME ConvAssumption == NoConv \notin Convs
ASSUME HistoryAssumption == HistoryLength \in Nat \ {0}

VARIABLES
  convs,     \* chat_conversations
  messages,  \* chat_messages
  begun,     \* the messages whose transaction has begun
  before,    \* <<m, n>>: created_at of message m is before that of n
  feedback,  \* the messages with a row in feedback
  stream     \* the POST requests and the generators of their responses

serverVars == <<convs, messages, begun, before, feedback, stream>>

Message == [role : {"user", "assistant"}, of : Questions, conv : Convs]
Of(role, q) == [role |-> role, of |-> q, conv |-> stream[q].conv]

(* seen: the answers that were on the screen when the question was asked,  *)
(* history: the rows that were read, given: those the LLM gets.            *)
NoStream == [pc |-> "none", conv |-> NoConv, token |-> FALSE, gone |-> FALSE,
             seen |-> {}, history |-> {}, given |-> {}]

ServerInit ==
  /\ convs = {} /\ messages = {} /\ begun = {} /\ before = {} /\ feedback = {}
  /\ stream = [q \in Questions |-> NoStream]

Running == {"search", "history", "generate", "persist", "yield"}

StreamAt(q, pc) == stream[q].pc = pc
StreamGoto(q, pc) == stream' = [stream EXCEPT ![q].pc = pc]

(* The request has been served, or its generator is left. *)
StreamStops(q, pc) ==
  stream' = [stream EXCEPT ![q] = [NoStream EXCEPT !.pc = pc, !.conv = stream[q].conv]]

(* Requests and generators whose client is gone. *)
ClientGone(Q) ==
  stream' = [q \in Questions |->
    IF q \in Q /\ stream[q].pc \in Running \cup {"sent", "post"}
    THEN [stream[q] EXCEPT !.gone = TRUE] ELSE stream[q]]

StreamRuns(q) == stream[q].pc \in Running

(* The transaction of message m begins. *)
Stamp(m) == begun' = begun \cup {m} /\ before' = before \cup (begun \X {m})

(* The look-up of the token; without a valid one the question is refused.  *)
Authenticate(q) ==
  /\ StreamAt(q, "sent")
  /\ \/ /\ stream[q].token /\ StreamGoto(q, "post")
        /\ Stamp(Of("user", q))
     \/ /\ StreamStops(q, "refused")
        /\ UNCHANGED <<begun, before>>
  /\ UNCHANGED <<convs, messages, feedback>>

(* The question is committed before the response starts, or refused when   *)
(* the conversation is not there for the user or a statement raises.       *)
PostMessage(q) ==
  /\ StreamAt(q, "post")
  /\ \/ /\ stream[q].conv \in convs
        /\ messages' = messages \cup {Of("user", q)}
        /\ StreamGoto(q, "search")
     \/ /\ StreamStops(q, "refused")
        /\ UNCHANGED messages
  /\ UNCHANGED <<convs, begun, before, feedback>>

Search(q) ==
  /\ StreamAt(q, "search") /\ StreamGoto(q, "history")
  /\ UNCHANGED <<convs, messages, begun, before, feedback>>

RowsOf(c) == {m \in messages : m.conv = c}

(* All the rows of the conversation, read in a session of their own.       *)
ReadHistory(q) ==
  /\ StreamAt(q, "history")
  /\ stream' = [stream EXCEPT ![q].pc = "generate",
       ![q].history = RowsOf(stream[q].conv)]
  /\ UNCHANGED <<convs, messages, begun, before, feedback>>

Later(rows, m) == {n \in rows : <<m, n>> \in before}

(* Mutant: one message less. *)
GenerateOneLess(q) ==
  /\ StreamAt(q, "generate")
  /\ stream' = [stream EXCEPT ![q].pc = "persist",
       ![q].given = {m \in stream[q].history :
                       Cardinality(Later(stream[q].history, m)) < HistoryLength - 1}]
  /\ UNCHANGED <<convs, messages, begun, before, feedback>>

(* history[-10:], the question itself among them, goes to the LLM. *)
Generate(q) ==
  /\ StreamAt(q, "generate")
  /\ stream' = [stream EXCEPT ![q].pc = "persist",
       ![q].given = {m \in stream[q].history :
                       Cardinality(Later(stream[q].history, m)) < HistoryLength}]
  /\ UNCHANGED <<convs, messages, begun, before, feedback>>

(* Mutant: the answer is sent and never committed. *)
PersistNothing(q) ==
  /\ StreamAt(q, "persist") /\ StreamGoto(q, "yield")
  /\ UNCHANGED <<convs, messages, begun, before, feedback>>

Persist(q) ==
  /\ StreamAt(q, "persist") /\ StreamGoto(q, "yield")
  /\ messages' = messages \cup {Of("assistant", q)} /\ Stamp(Of("assistant", q))
  /\ UNCHANGED <<convs, feedback>>

SendAnswer(q) ==
  /\ StreamAt(q, "yield") /\ StreamStops(q, "answered")
  /\ UNCHANGED <<convs, messages, begun, before, feedback>>

(* The search, the LLM or a statement raises: the response has begun, so   *)
(* it breaks off.                                                          *)
StreamBreaks(q) ==
  /\ StreamRuns(q) /\ StreamStops(q, "broken")
  /\ UNCHANGED <<convs, messages, begun, before, feedback>>

(* The client is gone: the generator is cancelled where it stands.         *)
StreamCancelled(q) ==
  /\ StreamRuns(q) /\ stream[q].gone /\ StreamStops(q, "cancelled")
  /\ UNCHANGED <<convs, messages, begun, before, feedback>>

ServerStep(q) ==
  \/ Authenticate(q) \/ PostMessage(q) \/ Search(q) \/ ReadHistory(q) \/ Generate(q)
  \/ Persist(q) \/ SendAnswer(q) \/ StreamBreaks(q) \/ StreamCancelled(q)

ServerTypeOK ==
  /\ convs \subseteq Convs /\ messages \subseteq Message /\ feedback \subseteq Questions
  /\ begun \subseteq Message /\ before \subseteq begun \X begun
  /\ \A q \in Questions :
       /\ stream[q].pc \in Running \cup {"none", "sent", "post",
                                        "answered", "refused", "broken", "cancelled"}
       /\ stream[q].conv \in Convs \cup {NoConv}
       /\ UNION {stream[q].seen, stream[q].history, stream[q].given} \subseteq Message

=============================================================================
