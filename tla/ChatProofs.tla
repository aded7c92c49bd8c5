------------------------------ MODULE ChatProofs ------------------------------
(***************************************************************************)
(* Theorems of ChatPage, for any number of conversations, questions,       *)
(* instances of the page and clicks.                                       *)
(***************************************************************************)
EXTENDS ChatPage, FiniteSetTheorems, TLAPS

StreamStages == Running \cup {"none", "sent", "post", "answered", "refused", "broken", "cancelled"}

Stream == [pc : StreamStages, conv : Convs \cup {NoConv}, token : BOOLEAN, gone : BOOLEAN,
           seen : SUBSET Message, history : SUBSET Message, given : SUBSET Message]

PageStages == {"none", "loading", "ready", "empty"}

Instance == [pc : PageStages, convs : SUBSET Convs, conv : Convs \cup {NoConv}, input : BOOLEAN,
             loads : SUBSET Convs, creating : Convs \cup {NoConv}, asked : SUBSET Questions,
             placeholder : BOOLEAN]

(* The types, with the domains TypeOK takes for granted. *)
ServerTypes ==
  /\ convs \subseteq Convs /\ messages \subseteq Message /\ feedback \subseteq Questions
  /\ begun \in SUBSET Message /\ before \subseteq begun \X begun
  /\ stream \in [Questions -> Stream]

RouterTypes ==
  /\ token \in BOOLEAN /\ hash \in Hash /\ screen \in Screens
  /\ changes \in Nat /\ kbLoads \in Nat

PageTypes ==
  /\ boot \in BOOLEAN /\ login \in {"no", "login", "me"} /\ clicks \in 0 .. MaxClicks
  /\ page \in [Pages -> Instance]

(* A question is of a conversation, and once its answer may be sent, the   *)
(* answer is stored.                                                       *)
AnswerStored ==
  \A q \in Questions :
    /\ stream[q].pc \in Running \cup {"sent", "post", "answered"} => stream[q].conv \in Convs
    /\ stream[q].pc \in {"yield", "answered"} => Of("assistant", q) \in messages

(* What was on the screen for a question is stored in its conversation,    *)
(* and among the rows that were read; what is not given to the LLM has     *)
(* enough later rows.                                                      *)
HistoryOf(q) ==
  /\ stream[q].seen \subseteq RowsOf(stream[q].conv)
  /\ StreamAt(q, "generate") =>
       /\ stream[q].seen \subseteq stream[q].history
       /\ stream[q].history \subseteq RowsOf(stream[q].conv)
  /\ stream[q].pc \in {"persist", "yield"} =>
       \A m \in stream[q].seen \ stream[q].given :
         Cardinality(Later(RowsOf(stream[q].conv), m)) >= HistoryLength

Histories == \A q \in Questions : HistoryOf(q)

(* NoTokenNoPage is kept by a stronger fact: a page of the user may be on  *)
(* the screen under the hash of the login page, as it may be without a     *)
(* token, only while a hashchange is to come.                              *)
Cleared ==
  (~token \/ hash = At("login")) /\ changes = 0 => screen.kind \in {"blank", "login", "kb"}

ServerInv == ServerTypes /\ IsFiniteSet(messages) /\ AnswerStored /\ Histories /\ ShownIsStored
ClientInv == RouterTypes /\ PageTypes /\ Cleared

-----------------------------------------------------------------------------
(* The server. *)
LEMMA StreamUpdate ==
  ASSUME NEW s \in Stream, NEW stage \in StreamStages
  PROVE  /\ [s EXCEPT !.pc = stage] \in Stream
         /\ \A h \in SUBSET Message : /\ [s EXCEPT !.pc = stage, !.history = h] \in Stream
                                      /\ [s EXCEPT !.pc = stage, !.given = h] \in Stream
         /\ [NoStream EXCEPT !.pc = stage, !.conv = s.conv] \in Stream
BY DEF Stream, NoStream

LEMMA InitServer == Init => ServerInv
BY FS_EmptySet
DEF Init, ServerInit, ServerInv, ServerTypes, Stream, StreamStages, NoStream, AnswerStored,
    Histories, HistoryOf, ShownIsStored, StreamRuns, StreamAt, Running

(* A larger finite set has no fewer elements. *)
LEMMA NoFewer ==
  ASSUME NEW R, NEW S, R \subseteq S, IsFiniteSet(S)
  PROVE  /\ Cardinality(R) \in Nat /\ Cardinality(S) \in Nat
         /\ Cardinality(R) <= Cardinality(S)
BY FS_Subset, FS_CardinalityType

(* Rows that are added, with their place in the order, and steps to a      *)
(* stage that promises nothing new leave a question's history as it is.    *)
LEMMA HistoryStays ==
  ASSUME IsFiniteSet(messages'), messages \subseteq messages', before \subseteq before',
         NEW q \in Questions, HistoryOf(q),
         stream'[q].conv = stream[q].conv, stream'[q].seen = stream[q].seen,
         stream'[q].history = stream[q].history, stream'[q].given = stream[q].given,
         \/ stream'[q].pc = stream[q].pc
         \/ stream'[q].pc \notin {"generate", "persist", "yield"}
         \/ stream[q].pc = "persist" /\ stream'[q].pc = "yield"
  PROVE  HistoryOf(q)'
<1> DEFINE c == stream[q].conv
<1>1. RowsOf(c) \subseteq RowsOf(c)'
  BY DEF RowsOf
<1>2. ASSUME stream'[q].pc \in {"persist", "yield"}, NEW m \in stream[q].seen \ stream[q].given
      PROVE  Cardinality(Later(RowsOf(c), m)') >= HistoryLength
  <2>1. Cardinality(Later(RowsOf(c), m)) >= HistoryLength
    BY <1>2 DEF HistoryOf
  <2>2. IsFiniteSet(Later(RowsOf(c), m)')
    <3>1. Later(RowsOf(c), m)' \subseteq messages'
      BY DEF Later, RowsOf
    <3> QED
      BY <3>1, FS_Subset
  <2>3. Later(RowsOf(c), m) \subseteq Later(RowsOf(c), m)'
    BY <1>1 DEF Later
  <2>4. /\ Cardinality(Later(RowsOf(c), m)) \in Nat /\ Cardinality(Later(RowsOf(c), m)') \in Nat
        /\ Cardinality(Later(RowsOf(c), m)) <= Cardinality(Later(RowsOf(c), m)')
    BY <2>2, <2>3, NoFewer
  <2> QED
    BY <2>1, <2>4, HistoryAssumption
<1> QED
  BY <1>1, <1>2 DEF HistoryOf, StreamAt

(* A question whose request has been served, or broken off. *)
LEMMA StopKeeps ==
  ASSUME ServerInv, NEW q \in Questions,
         NEW stage \in {"answered", "refused", "broken", "cancelled"},
         StreamStops(q, stage), UNCHANGED <<convs, messages, feedback, shown>>,
         stage = "answered" => StreamAt(q, "yield"),
         begun' \in SUBSET Message, before' \subseteq begun' \X begun', before \subseteq before'
  PROVE  ServerInv'
<1> DEFINE new == [NoStream EXCEPT !.pc = stage, !.conv = stream[q].conv]
<1>1. new \in Stream /\ stream[q] \in Stream
  BY StreamUpdate DEF ServerInv, ServerTypes, StreamStages
<1>2. new.pc = stage /\ new.conv = stream[q].conv /\ new.seen = {}
  BY DEF NoStream
<1>3. stream' = [stream EXCEPT ![q] = new]
  BY DEF StreamStops
<1> HIDE DEF new
<1>4. ServerTypes'
  BY <1>1, <1>3 DEF ServerInv, ServerTypes
<1>5. \A p \in Questions : stream'[p] = IF p = q THEN new ELSE stream[p]
  BY <1>3 DEF ServerInv, ServerTypes
<1>6. AnswerStored'
  BY <1>2, <1>5 DEF ServerInv, AnswerStored, StreamRuns, Running, StreamAt, Of
<1>7. ASSUME NEW p \in Questions PROVE HistoryOf(p)'
  <2>1. CASE p = q
    BY <1>2, <1>5, <2>1 DEF HistoryOf, StreamAt
  <2>2. CASE p # q
    BY <1>5, <2>2, HistoryStays DEF ServerInv, Histories
  <2> QED
    BY <2>1, <2>2
<1> QED
  BY <1>4, <1>6, <1>7 DEF ServerInv, Histories, ShownIsStored

(* A step of the server that moves a question on, stamps and stores rows.  *)
LEMMA MoveOn ==
  ASSUME ServerInv, NEW q \in Questions, NEW stage \in {"post", "search", "history", "yield"},
         StreamGoto(q, stage), UNCHANGED <<convs, feedback, shown>>,
         stream[q].pc \in Running \cup {"sent", "post"},
         messages' \in SUBSET Message, messages \subseteq messages', IsFiniteSet(messages'),
         begun' \in SUBSET Message, before' \subseteq begun' \X begun', before \subseteq before',
         stage = "yield" => StreamAt(q, "persist") /\ Of("assistant", q) \in messages'
  PROVE  ServerInv'
<1>1. [stream[q] EXCEPT !.pc = stage] \in Stream
  BY StreamUpdate DEF ServerInv, ServerTypes, StreamStages, Running
<1>2. ServerTypes'
  BY <1>1 DEF ServerInv, ServerTypes, StreamGoto
<1>3. \A p \in Questions :
        /\ stream'[p] = IF p = q THEN [stream[p] EXCEPT !.pc = stage] ELSE stream[p]
        /\ stream[p] \in Stream
  BY DEF ServerInv, ServerTypes, StreamGoto
<1>4. /\ stream'[q].pc = stage
      /\ \A p \in Questions :
           /\ p # q => stream'[p] = stream[p]
           /\ stream'[p].conv = stream[p].conv /\ stream'[p].seen = stream[p].seen
           /\ stream'[p].history = stream[p].history /\ stream'[p].given = stream[p].given
  BY <1>3 DEF Stream
<1>5. AnswerStored'
  BY <1>4 DEF ServerInv, AnswerStored, StreamAt, Of
<1>6. ASSUME NEW p \in Questions PROVE HistoryOf(p)'
  BY <1>4, HistoryStays DEF ServerInv, Histories, StreamAt
<1> QED
  BY <1>2, <1>5, <1>6 DEF ServerInv, Histories, ShownIsStored

(* What the LLM is given and what is kept from it. *)
LEMMA GenerateKeeps ==
  ASSUME ServerInv, NEW q \in Questions, Generate(q), shown' = shown
  PROVE  ServerInv'
<1> DEFINE rows == {m \in stream[q].history : Cardinality(Later(stream[q].history, m))
                                                < HistoryLength}
           new == [stream[q] EXCEPT !.pc = "persist", !.given = rows]
<1>0. stream[q] \in Stream /\ StreamAt(q, "generate") /\ HistoryOf(q)
  BY DEF Generate, ServerInv, ServerTypes, Histories
<1>1. new \in Stream
  BY <1>0, StreamUpdate DEF StreamStages, Running, Stream
<1>2. /\ new.pc = "persist" /\ new.conv = stream[q].conv /\ new.seen = stream[q].seen
      /\ new.given = rows
  BY <1>0 DEF Stream
<1>3. ASSUME NEW m \in stream[q].seen \ rows
      PROVE  Cardinality(Later(RowsOf(stream[q].conv), m)) >= HistoryLength
  <2>1. m \in stream[q].history /\ stream[q].history \subseteq RowsOf(stream[q].conv)
    BY <1>0, <1>3 DEF HistoryOf
  <2>2. ~(Cardinality(Later(stream[q].history, m)) < HistoryLength)
    BY <1>3, <2>1
  <2>3. Later(stream[q].history, m) \subseteq Later(RowsOf(stream[q].conv), m)
    BY <2>1 DEF Later
  <2>4. IsFiniteSet(Later(RowsOf(stream[q].conv), m))
    <3>1. Later(RowsOf(stream[q].conv), m) \subseteq messages
      BY DEF Later, RowsOf
    <3> QED
      BY <3>1, FS_Subset DEF ServerInv
  <2> QED
    BY <2>2, <2>3, <2>4, NoFewer, HistoryAssumption
<1>4. stream' = [stream EXCEPT ![q] = new] /\ UNCHANGED <<convs, messages, begun, before, feedback>>
  BY DEF Generate
<1> HIDE DEF new, rows
<1>5. ServerTypes'
  BY <1>1, <1>4 DEF ServerInv, ServerTypes
<1>6. \A p \in Questions : stream'[p] = IF p = q THEN new ELSE stream[p]
  BY <1>4 DEF ServerInv, ServerTypes
<1>7. AnswerStored'
  BY <1>0, <1>2, <1>4, <1>6 DEF ServerInv, AnswerStored, StreamAt, Of, Running
<1>8. ASSUME NEW p \in Questions PROVE HistoryOf(p)'
  <2>1. CASE p = q
    BY <1>0, <1>2, <1>3, <1>4, <1>6, <2>1 DEF HistoryOf, StreamAt, RowsOf, Later
  <2>2. CASE p # q
    BY <1>4, <1>6, <2>2, HistoryStays DEF ServerInv, Histories
  <2> QED
    BY <2>1, <2>2
<1> QED
  BY <1>4, <1>5, <1>7, <1>8 DEF ServerInv, Histories, ShownIsStored

LEMMA ReadHistoryKeeps ==
  ASSUME ServerInv, NEW q \in Questions, ReadHistory(q), shown' = shown
  PROVE  ServerInv'
<1> DEFINE rows == RowsOf(stream[q].conv)
           new == [stream[q] EXCEPT !.pc = "generate", !.history = rows]
<1>0. stream[q] \in Stream /\ StreamAt(q, "history") /\ HistoryOf(q) /\ rows \in SUBSET Message
  BY DEF ReadHistory, ServerInv, ServerTypes, Histories, RowsOf
<1>1. new \in Stream
  BY <1>0, StreamUpdate DEF StreamStages, Running
<1>2. /\ new.pc = "generate" /\ new.conv = stream[q].conv /\ new.seen = stream[q].seen
      /\ new.history = rows
  BY <1>0 DEF Stream
<1>3. /\ stream' = [stream EXCEPT ![q] = new]
      /\ UNCHANGED <<convs, messages, begun, before, feedback>>
  BY DEF ReadHistory
<1> HIDE DEF new
<1>4. ServerTypes'
  BY <1>1, <1>3 DEF ServerInv, ServerTypes
<1>5. \A p \in Questions : stream'[p] = IF p = q THEN new ELSE stream[p]
  BY <1>3 DEF ServerInv, ServerTypes
<1>6. AnswerStored'
  BY <1>0, <1>2, <1>3, <1>5 DEF ServerInv, AnswerStored, StreamAt, Of, Running
<1>7. ASSUME NEW p \in Questions PROVE HistoryOf(p)'
  <2>1. CASE p = q
    BY <1>0, <1>2, <1>3, <1>5, <2>1 DEF HistoryOf, StreamAt, RowsOf
  <2>2. CASE p # q
    BY <1>3, <1>5, <2>2, HistoryStays DEF ServerInv, Histories
  <2> QED
    BY <2>1, <2>2
<1> QED
  BY <1>3, <1>4, <1>6, <1>7 DEF ServerInv, Histories, ShownIsStored

LEMMA ServerKeeps ==
  ASSUME ServerInv, NEW q \in Questions, ServerStep(q), UNCHANGED clientVars
  PROVE  ServerInv'
<1> USE DEF ServerInv, ServerTypes, StreamAt
<1>0. shown' = shown /\ stream[q] \in Stream
  BY DEF clientVars
<1>1. \A role \in {"user", "assistant"} :
        stream[q].pc \in Running \cup {"sent", "post"} => Of(role, q) \in Message
  BY DEF AnswerStored, Of, Message
<1>2. ASSUME NEW m \in Message, Stamp(m)
      PROVE  /\ begun' \in SUBSET Message /\ before' \subseteq begun' \X begun'
             /\ before \subseteq before'
  BY <1>2 DEF Stamp
<1>3. CASE Authenticate(q)
  <2>1. CASE StreamStops(q, "refused") /\ UNCHANGED <<begun, before>>
    BY <1>0, <1>3, <2>1, StopKeeps DEF Authenticate
  <2>2. CASE StreamGoto(q, "post") /\ Stamp(Of("user", q))
    BY <1>0, <1>1, <1>2, <1>3, <2>2, MoveOn DEF Authenticate
  <2> QED
    BY <1>3, <2>1, <2>2 DEF Authenticate
<1>4. CASE PostMessage(q)
  <2>1. CASE StreamStops(q, "refused") /\ UNCHANGED messages
    BY <1>0, <1>4, <2>1, StopKeeps DEF PostMessage
  <2>2. CASE messages' = messages \cup {Of("user", q)} /\ StreamGoto(q, "search")
    <3>1. messages' \in SUBSET Message /\ IsFiniteSet(messages')
      BY <1>1, <1>4, <2>2, FS_AddElement DEF PostMessage
    <3> QED
      BY <1>0, <1>4, <2>2, <3>1, MoveOn DEF PostMessage
  <2> QED
    BY <1>4, <2>1, <2>2 DEF PostMessage
<1>5. CASE Search(q)
  BY <1>0, <1>5, MoveOn DEF Search, Running
<1>6. CASE ReadHistory(q)
  BY <1>0, <1>6, ReadHistoryKeeps
<1>7. CASE Generate(q)
  BY <1>0, <1>7, GenerateKeeps
<1>8. CASE Persist(q)
  <2>1. messages' \in SUBSET Message /\ IsFiniteSet(messages') /\ Of("assistant", q) \in Message
    BY <1>1, <1>8, FS_AddElement DEF Persist, Running
  <2> QED
    BY <1>0, <1>2, <1>8, <2>1, MoveOn DEF Persist, Running
<1>9. CASE SendAnswer(q)
  BY <1>0, <1>9, StopKeeps DEF SendAnswer
<1>10. CASE StreamBreaks(q)
  BY <1>0, <1>10, StopKeeps DEF StreamBreaks
<1>11. CASE StreamCancelled(q)
  BY <1>0, <1>11, StopKeeps DEF StreamCancelled
<1> QED
  BY <1>3, <1>4, <1>5, <1>6, <1>7, <1>8, <1>9, <1>10, <1>11 DEF ServerStep

-----------------------------------------------------------------------------
(* What the browser does to the server's invariant. *)
LEMMA OnlyShown ==
  ASSUME ServerInv, UNCHANGED serverVars, shown' \subseteq messages
  PROVE  ServerInv'
BY DEF serverVars, ServerInv, ServerTypes, AnswerStored, Histories, HistoryOf, ShownIsStored,
       StreamAt, Of, RowsOf, Later

(* Requests whose clients are gone. *)
LEMMA ClientsGone ==
  ASSUME ServerInv, NEW Q \in SUBSET Questions, ClientGone(Q),
         UNCHANGED <<convs, messages, begun, before, feedback, shown>>
  PROVE  ServerInv'
<1>1. ServerTypes'
  <2>1. \A q \in Questions : [stream[q] EXCEPT !.gone = TRUE] \in Stream
    BY DEF ServerInv, ServerTypes, Stream
  <2> QED
    BY <2>1 DEF ServerInv, ServerTypes, ClientGone
<1>2. \A q \in Questions :
        /\ stream'[q].pc = stream[q].pc /\ stream'[q].conv = stream[q].conv
        /\ stream'[q].seen = stream[q].seen /\ stream'[q].history = stream[q].history
        /\ stream'[q].given = stream[q].given
  BY DEF ServerInv, ServerTypes, Stream, ClientGone
<1>3. ASSUME NEW q \in Questions PROVE HistoryOf(q)'
  BY <1>2, HistoryStays DEF ServerInv, Histories
<1> QED
  BY <1>1, <1>2, <1>3 DEF ServerInv, AnswerStored, Histories, ShownIsStored, StreamAt, Of

LEMMA SendMessageServer ==
  ASSUME ServerInv, ClientInv, NEW i \in Pages, NEW q \in Questions, SendMessage(i, q)
  PROVE  ServerInv'
<1> DEFINE new == [NoStream EXCEPT !.pc = "sent", !.conv = page[i].conv, !.token = token,
                                   !.seen = {m \in shown : m.conv = page[i].conv}]
<1>1. new \in Stream
  BY DEF ServerInv, ServerTypes, ShownIsStored, ClientInv, RouterTypes, PageTypes, Instance,
         NoStream, Stream, StreamStages
<1>2. /\ stream' = [stream EXCEPT ![q] = new]
      /\ UNCHANGED <<convs, messages, begun, before, feedback, shown>>
  BY DEF SendMessage
<1>3. /\ new.pc = "sent" /\ new.conv = page[i].conv /\ page[i].conv \in Convs
      /\ new.seen = {m \in shown : m.conv = page[i].conv}
  BY DEF NoStream, SendMessage, ClientInv, PageTypes, Instance
<1> HIDE DEF new
<1>4. ServerTypes'
  BY <1>1, <1>2 DEF ServerInv, ServerTypes
<1>5. \A p \in Questions : stream'[p] = IF p = q THEN new ELSE stream[p]
  BY <1>2 DEF ServerInv, ServerTypes
<1>6. AnswerStored'
  BY <1>2, <1>3, <1>5 DEF ServerInv, AnswerStored, Of
<1>7. ASSUME NEW p \in Questions PROVE HistoryOf(p)'
  <2>1. CASE p = q
    BY <1>2, <1>3, <1>5, <2>1 DEF ServerInv, ShownIsStored, HistoryOf, StreamAt, RowsOf
  <2>2. CASE p # q
    BY <1>2, <1>5, <2>2, HistoryStays DEF ServerInv, Histories
  <2> QED
    BY <2>1, <2>2
<1> QED
  BY <1>2, <1>4, <1>6, <1>7 DEF ServerInv, Histories, ShownIsStored

LEMMA ServerStepInv ==
  ASSUME ServerInv, ClientInv, [Next]_vars
  PROVE  ServerInv'
<1> USE DEF ServerInv, ServerTypes, ShownIsStored
<1>1. CASE \/ Boot \/ HashChange \/ FollowLink \/ Logout \/ Visit
           \/ SubmitLogin \/ LoginAnswered \/ MeAnswered \/ KbAnswered \/ CallUnauthorized
  <2>1. UNCHANGED serverVars /\ shown' = shown
    BY <1>1 DEF Boot, HashChange, FollowLink, Logout, Visit, SubmitLogin, LoginAnswered,
                MeAnswered, KbAnswered, CallUnauthorized
  <2> QED
    BY <2>1, OnlyShown
<1>2. CASE Reload
  BY <1>2, ClientsGone DEF Reload
<1>3. ASSUME NEW i \in Pages, Loaded(i) \/ ConversationCreated(i) PROVE ServerInv'
  BY <1>3, OnlyShown DEF Loaded, ConversationCreated
<1>4. ASSUME NEW i \in Pages, NEW c \in Convs, MessagesLoaded(i, c) PROVE ServerInv'
  <2>1. UNCHANGED serverVars /\ shown' \subseteq messages
    BY <1>4 DEF MessagesLoaded, AnswersIn
  <2> QED
    BY <2>1, OnlyShown
<1>5. ASSUME NEW i \in Pages, NEW q \in Questions, AnswerArrives(i, q) PROVE ServerInv'
  <2>1. UNCHANGED serverVars /\ shown' \subseteq messages
    BY <1>5 DEF AnswerArrives, AnswerStored, StreamAt
  <2> QED
    BY <2>1, OnlyShown
<1>6. ASSUME NEW i \in Pages, NEW q \in Questions, StreamEnds(i, q) PROVE ServerInv'
  BY <1>6, OnlyShown DEF StreamEnds
<1>7. ASSUME NEW i \in Pages, NEW c \in Convs, OpenConversation(i, c) PROVE ServerInv'
  BY <1>7, OnlyShown DEF OpenConversation
<1>8. ASSUME NEW i \in Pages, NEW c \in Convs, CreateConversation(i, c) PROVE ServerInv'
  <2>1. convs' \subseteq Convs
    BY <1>8 DEF CreateConversation
  <2>2. ASSUME NEW q \in Questions PROVE HistoryOf(q)'
    BY <1>8, HistoryStays DEF CreateConversation, Histories
  <2> QED
    BY <1>8, <2>1, <2>2 DEF CreateConversation, AnswerStored, Histories, StreamAt, Of
<1>9. ASSUME NEW i \in Pages, NEW q \in Questions, SendMessage(i, q) PROVE ServerInv'
  BY <1>9, SendMessageServer
<1>10. ASSUME NEW i \in Pages, NEW q \in Questions, ConnectionLost(i, q) PROVE ServerInv'
  BY <1>10, ClientsGone DEF ConnectionLost
<1>11. ASSUME NEW q \in Questions, ServerStep(q), UNCHANGED clientVars PROVE ServerInv'
  BY <1>11, ServerKeeps
<1>12. ASSUME NEW m \in Message, Feedback(m) PROVE ServerInv'
  <2>1. feedback' \subseteq Questions
    BY <1>12 DEF Feedback, Message
  <2>2. ASSUME NEW q \in Questions PROVE HistoryOf(q)'
    BY <1>12, HistoryStays DEF Feedback, Histories
  <2> QED
    BY <1>12, <2>1, <2>2 DEF Feedback, AnswerStored, Histories, StreamAt, Of
<1>13. ASSUME NEW i \in Pages, FeedbackPlaceholder(i) PROVE ServerInv'
  BY <1>13, OnlyShown DEF FeedbackPlaceholder
<1>14. CASE UNCHANGED vars
  BY <1>14, OnlyShown DEF vars, clientVars
<1> QED
  BY <1>1, <1>2, <1>3, <1>4, <1>5, <1>6, <1>7, <1>8, <1>9, <1>10, <1>11, <1>12, <1>13, <1>14
  DEF Next, Await, Sending

-----------------------------------------------------------------------------
(* The browser.  Paths are all that the proofs need of a hash.             *)
LEMMA Hashes ==
  /\ \A path \in {"login", "root", "chat", "kb", "kbs", "chat?kb"} :
       At(path) \in Hash /\ At(path).path = path
  /\ \A c \in Convs : [path |-> "chat?conv", conv |-> c] \in Hash
                       /\ [path |-> "chat?conv", conv |-> c] # At("login")
  /\ \A h \in Hash : h.path \in {"login", "root", "chat", "kb", "kbs", "chat?kb", "chat?conv"}
  /\ \A kind \in {"blank", "login", "kb", "kbs"} :
       Screen(kind) \in Screens /\ Screen(kind).kind = kind
BY DEF Hash, At, Screen, Screens

(* Whatever handleRoute() does, the login page is on the screen or another *)
(* hashchange is to come when nobody is logged in.                         *)
LEMMA HandleRouteKeeps ==
  ASSUME RouterTypes, page \in [Pages -> Instance], NEW h \in Hash, NEW n \in Nat,
         NEW signedIn \in BOOLEAN, HandleRoute(h, n, signedIn), token' = signedIn
  PROVE  RouterTypes' /\ page' \in [Pages -> Instance] /\ Cleared'
<1> USE Hashes DEF RouterTypes, Cleared, RequireAuth
<1>1. CASE /\ h.path \in {"login", "chat?kb", "chat?conv"}
           /\ hash' = h /\ changes' = n /\ screen' = Screen("login")
           /\ UNCHANGED <<kbLoads, page>>
  BY <1>1
<1>2. CASE /\ h.path \in {"root", "chat", "kb", "kbs"} /\ ~signedIn
           /\ hash' = At("login") /\ changes' = n + 1
           /\ UNCHANGED <<screen, kbLoads, page>>
  BY <1>2
<1>3. CASE /\ h.path = "root" /\ signedIn
           /\ hash' = At("chat") /\ changes' = n + 1
           /\ UNCHANGED <<screen, kbLoads, page>>
  BY <1>3
<1>4. ASSUME h.path = "chat", signedIn, NEW i \in Pages,
             screen' = [kind |-> "chat", page |-> i],
             page' = [page EXCEPT ![i] = [NoPage EXCEPT !.pc = "loading", !.input = TRUE]],
             hash' = h, changes' = n, UNCHANGED kbLoads
      PROVE  RouterTypes' /\ page' \in [Pages -> Instance] /\ Cleared'
  <2>1. [NoPage EXCEPT !.pc = "loading", !.input = TRUE] \in Instance
    BY DEF NoPage, Instance, PageStages
  <2>2. [kind |-> "chat", page |-> i] \in Screens
    BY DEF Screens
  <2> QED
    BY <1>4, <2>1, <2>2
<1>5. CASE /\ h.path = "kb" /\ signedIn /\ kbLoads' = kbLoads + 1
           /\ hash' = h /\ changes' = n /\ UNCHANGED <<screen, page>>
  BY <1>5
<1>6. CASE /\ h.path = "kbs" /\ signedIn
           /\ hash' = h /\ changes' = n /\ screen' = Screen("kbs")
           /\ UNCHANGED <<kbLoads, page>>
  BY <1>6
<1> QED
  BY <1>1, <1>2, <1>3, <1>4, <1>5, <1>6 DEF HandleRoute

LEMMA SetHashKeeps ==
  ASSUME RouterTypes, Cleared, NEW h \in Hash, SetHash(h), token' \in BOOLEAN,
         token' = token \/ h = At("login")
  PROVE  RouterTypes' /\ Cleared'
BY DEF RouterTypes, Cleared, SetHash

LEMMA NavigateKeeps ==
  ASSUME RouterTypes, Cleared, page \in [Pages -> Instance], NEW h \in Hash,
         Navigate(h, token'), token' \in BOOLEAN, token' = token \/ h = At("login")
  PROVE  RouterTypes' /\ page' \in [Pages -> Instance] /\ Cleared'
<1>1. CASE hash = h
  <2>1. HandleRoute(h, changes, token')
    BY <1>1 DEF Navigate
  <2> QED
    BY <2>1, HandleRouteKeeps DEF RouterTypes
<1>2. CASE hash # h
  BY <1>2, SetHashKeeps DEF Navigate
<1> QED
  BY <1>1, <1>2

LEMMA UnauthorizedKeeps ==
  ASSUME RouterTypes, Cleared, Unauthorized
  PROVE  RouterTypes' /\ Cleared'
<1>1. CASE token
  BY <1>1, SetHashKeeps, Hashes DEF Unauthorized
<1>2. CASE ~token
  BY <1>2 DEF Unauthorized, routerVars, RouterTypes, Cleared
<1> QED
  BY <1>1, <1>2

(* Nothing of the router changes. *)
LEMMA SignedKeeps ==
  ASSUME RouterTypes, Cleared, Signed
  PROVE  RouterTypes' /\ Cleared'
BY DEF Signed, routerVars, RouterTypes, Cleared

-----------------------------------------------------------------------------
LEMMA InitClient == Init => ClientInv
<1> SUFFICES ASSUME Init PROVE ClientInv
  OBVIOUS
<1>1. RouterTypes /\ Cleared
  BY Hashes DEF Init, RouterTypes, Cleared
<1>2. NoPage \in Instance
  BY DEF NoPage, Instance, PageStages
<1>3. PageTypes
  BY <1>2, ClicksAssumption DEF Init, PageTypes
<1> QED
  BY <1>1, <1>3 DEF ClientInv

(* The steps that move through the application. *)
LEMMA NavigationInv ==
  ASSUME ClientInv,
         \/ Boot \/ HashChange \/ FollowLink \/ Logout \/ Visit \/ Reload
         \/ SubmitLogin \/ LoginAnswered \/ MeAnswered \/ KbAnswered \/ CallUnauthorized
  PROVE  ClientInv'
<1>0. RouterTypes /\ PageTypes /\ Cleared /\ MaxClicks \in Nat
  BY ClicksAssumption DEF ClientInv
<1>1. CASE Boot
  <2>1. CASE token /\ HandleRoute(hash, changes, TRUE) /\ UNCHANGED token
    BY <1>0, <1>1, <2>1, HandleRouteKeeps DEF Boot, ClientInv, RouterTypes, PageTypes
  <2>2. CASE /\ token' = FALSE
             /\ HandleRoute(At("login"), changes + (IF hash = At("login") THEN 0 ELSE 1), FALSE)
    <3>1. changes + (IF hash = At("login") THEN 0 ELSE 1) \in Nat
      BY <1>0 DEF RouterTypes
    <3>2. RouterTypes' /\ page' \in [Pages -> Instance] /\ Cleared'
      BY <1>0, <2>2, <3>1, Hashes, HandleRouteKeeps DEF PageTypes
    <3> QED
      BY <1>0, <1>1, <3>2 DEF Boot, ClientInv, PageTypes
  <2> QED
    BY <1>1, <2>1, <2>2 DEF Boot
<1>2. CASE HashChange
  <2>1. changes - 1 \in Nat
    BY <1>0, <1>2 DEF HashChange, RouterTypes
  <2>2. RouterTypes' /\ page' \in [Pages -> Instance] /\ Cleared'
    BY <1>0, <1>2, <2>1, HandleRouteKeeps DEF HashChange, RouterTypes, PageTypes
  <2> QED
    BY <1>0, <1>2, <2>2 DEF HashChange, ClientInv, PageTypes
<1>3. CASE FollowLink
  <2>1. \E path \in {"chat", "kbs", "kb", "chat?kb"} : Navigate(At(path), token)
    BY <1>3 DEF FollowLink
  <2>2. RouterTypes' /\ page' \in [Pages -> Instance] /\ Cleared'
    BY <1>0, <1>3, <2>1, Hashes, NavigateKeeps DEF FollowLink, RouterTypes, PageTypes
  <2> QED
    BY <1>0, <1>3, <2>2 DEF FollowLink, Click, ClientInv, PageTypes
<1>4. CASE Logout
  <2>1. RouterTypes' /\ page' \in [Pages -> Instance] /\ Cleared'
    BY <1>0, <1>4, Hashes, NavigateKeeps DEF Logout, PageTypes
  <2> QED
    BY <1>0, <1>4, <2>1 DEF Logout, Click, ClientInv, PageTypes
<1>5. CASE Visit
  <2>1. RouterTypes' /\ Cleared'
    BY <1>0, <1>5, SetHashKeeps DEF Visit, RouterTypes
  <2> QED
    BY <1>0, <1>5, <2>1 DEF Visit, Click, ClientInv, PageTypes
<1>6. CASE Reload
  <2>1. NoPage \in Instance
    BY DEF NoPage, Instance, PageStages
  <2>2. RouterTypes' /\ Cleared'
    BY <1>0, <1>6, Hashes DEF Reload, RouterTypes, Cleared
  <2> QED
    BY <1>0, <1>6, <2>1, <2>2 DEF Reload, Click, ClientInv, PageTypes
<1>7. CASE SubmitLogin
  BY <1>0, <1>7 DEF SubmitLogin, Click, routerVars, ClientInv, RouterTypes, PageTypes, Cleared
<1>8. CASE LoginAnswered
  <2>1. ASSUME token' = TRUE, UNCHANGED routerVars PROVE RouterTypes' /\ Cleared'
    BY <1>0, <2>1 DEF routerVars, RouterTypes, Cleared
  <2>2. RouterTypes' /\ Cleared'
    BY <1>0, <1>8, <2>1, UnauthorizedKeeps, SignedKeeps DEF LoginAnswered
  <2> QED
    BY <1>0, <1>8, <2>2 DEF LoginAnswered, ClientInv, PageTypes
<1>9. CASE MeAnswered
  <2>1. CASE Navigate(At("chat"), token) /\ UNCHANGED token
    BY <1>0, <1>9, <2>1, Hashes, NavigateKeeps DEF MeAnswered, ClientInv, RouterTypes, PageTypes
  <2>2. CASE (Unauthorized \/ Signed) /\ UNCHANGED page
    BY <1>0, <1>9, <2>2, UnauthorizedKeeps, SignedKeeps DEF MeAnswered, ClientInv, PageTypes
  <2> QED
    BY <1>9, <2>1, <2>2 DEF MeAnswered
<1>10. CASE KbAnswered
  <2>1. At("login") # At("kbs") /\ At("login") \in Hash /\ At("kbs") \in Hash
    BY Hashes
  <2>2. Screen("kb") \in Screens /\ Screen("kbs") \in Screens /\ Screen("kb").kind = "kb"
    BY Hashes
  <2>3. ASSUME kbLoads > 0, kbLoads' = kbLoads - 1, screen' = Screen("kb"),
               UNCHANGED <<token, hash, changes>>
        PROVE  RouterTypes' /\ Cleared'
    BY <1>0, <2>2, <2>3 DEF RouterTypes, Cleared
  <2>4. ASSUME kbLoads > 0, kbLoads' = kbLoads - 1, hash = At("kbs"), token, token' = token,
               screen' = Screen("kbs"), UNCHANGED <<hash, changes>>
        PROVE  RouterTypes' /\ Cleared'
    BY <1>0, <2>1, <2>2, <2>4 DEF RouterTypes, Cleared
  <2>5. ASSUME kbLoads > 0, kbLoads' = kbLoads - 1, token' \in BOOLEAN,
               hash' \in {At("login"), At("kbs")}, UNCHANGED screen,
               changes' \in {changes + 1, changes + 2}
        PROVE  RouterTypes' /\ Cleared'
    <3>1. changes' \in Nat /\ changes' # 0 /\ kbLoads' \in Nat
      BY <1>0, <2>5 DEF RouterTypes
    <3> QED
      BY <1>0, <2>1, <2>5, <3>1 DEF RouterTypes, Cleared
  <2>6. ASSUME screen' = Screen("kb"), UNCHANGED <<token, hash, changes, page>>
        PROVE  RouterTypes' /\ Cleared'
    BY <1>10, <2>3, <2>6 DEF KbAnswered
  <2>7. ASSUME token' \in {token, FALSE},
                IF hash = At("kbs") /\ token' = token
                THEN IF token THEN screen' = Screen("kbs") /\ UNCHANGED <<hash, changes>>
                     ELSE hash' = At("login") /\ changes' = changes + 1 /\ UNCHANGED screen
                ELSE /\ hash' = At("kbs")
                     /\ changes' = changes + 1
                                    + (IF token' = token \/ hash = At("login") THEN 0 ELSE 1)
                     /\ UNCHANGED screen
        PROVE  RouterTypes' /\ Cleared'
    <3>1. kbLoads > 0 /\ kbLoads' = kbLoads - 1 /\ token' \in BOOLEAN
      BY <1>0, <1>10, <2>7, Zenon DEF KbAnswered, RouterTypes
    <3>2. CASE hash = At("kbs") /\ token' = token /\ token
      BY <2>4, <2>7, <3>1, <3>2
    <3>3. CASE hash = At("kbs") /\ token' = token /\ ~token
      BY <2>5, <2>7, <3>1, <3>3
    <3>4. CASE ~(hash = At("kbs") /\ token' = token)
      <4>1. /\ hash' = At("kbs") /\ UNCHANGED screen
            /\ changes' = changes + 1 + (IF token' = token \/ hash = At("login") THEN 0 ELSE 1)
        BY <2>7, <3>4, Zenon
      <4>2. changes' \in {changes + 1, changes + 2}
        BY <1>0, <4>1 DEF RouterTypes
      <4> QED
        BY <2>5, <3>1, <4>1, <4>2
    <3> QED
      BY <3>2, <3>3, <3>4
  <2>8. RouterTypes' /\ Cleared'
    BY <1>10, <2>6, <2>7 DEF KbAnswered
  <2> QED
    BY <1>0, <1>10, <2>8 DEF KbAnswered, ClientInv, PageTypes
<1>11. CASE CallUnauthorized
  <2>1. RouterTypes' /\ Cleared'
    BY <1>0, <1>11, UnauthorizedKeeps DEF CallUnauthorized
  <2> QED
    BY <1>0, <1>11, <2>1 DEF CallUnauthorized, ClientInv, PageTypes
<1> QED
  BY <1>1, <1>2, <1>3, <1>4, <1>5, <1>6, <1>7, <1>8, <1>9, <1>10, <1>11

(* What an instance of the chat page keeps in its closure. *)
LEMMA InstanceUpdate ==
  ASSUME NEW p \in Instance
  PROVE  /\ \A stage \in PageStages, list \in SUBSET Convs :
              [p EXCEPT !.pc = stage, !.convs = list, !.input = FALSE] \in Instance
         /\ \A stage \in PageStages : [p EXCEPT !.pc = stage, !.input = FALSE] \in Instance
         /\ \A list \in SUBSET Convs : [p EXCEPT !.convs = list] \in Instance
         /\ \A c \in Convs : /\ Opening(p, c) \in Instance
                            /\ [p EXCEPT !.loads = @ \ {c}, !.input = TRUE,
                                          !.placeholder = FALSE] \in Instance
                            /\ [p EXCEPT !.creating = c] \in Instance
                            /\ Opening([p EXCEPT !.convs = @ \cup {c}, !.creating = NoConv], c)
                                 \in Instance
         /\ \A q \in Questions :
              [p EXCEPT !.asked = {q}, !.input = FALSE, !.placeholder = TRUE] \in Instance
         /\ [p EXCEPT !.creating = NoConv] \in Instance
         /\ [p EXCEPT !.asked = {}, !.input = TRUE] \in Instance
BY DEF Instance, Opening

LEMMA PageInv ==
  ASSUME ClientInv, ServerInv,
         \/ \E i \in Pages : Await(i) \/ Sending(i) \/ FeedbackPlaceholder(i)
         \/ \E i \in Pages, c \in Convs : OpenConversation(i, c) \/ CreateConversation(i, c)
         \/ \E i \in Pages, q \in Questions : SendMessage(i, q) \/ ConnectionLost(i, q)
         \/ \E m \in Message : Feedback(m)
         \/ \E q \in Questions : ServerStep(q) /\ UNCHANGED clientVars
         \/ UNCHANGED vars
  PROVE  ClientInv'
<1>0. /\ RouterTypes /\ PageTypes /\ Cleared /\ MaxClicks \in Nat
      /\ convs \in SUBSET Convs /\ \A i \in Pages : page[i] \in Instance
  BY ClicksAssumption DEF ClientInv, ServerInv, ServerTypes, PageTypes
<1>1. ASSUME NEW i \in Pages, Loaded(i) PROVE ClientInv'
  <2>1. RouterTypes' /\ Cleared'
    BY <1>0, <1>1, UnauthorizedKeeps, SignedKeeps DEF Loaded
  <2>2. /\ [page[i] EXCEPT !.pc = "ready", !.convs = convs, !.input = FALSE] \in Instance
        /\ [page[i] EXCEPT !.pc = "empty", !.input = FALSE] \in Instance
    BY <1>0, InstanceUpdate DEF PageStages
  <2> QED
    BY <1>0, <1>1, <2>1, <2>2 DEF Loaded, ClientInv, PageTypes
<1>2. ASSUME NEW i \in Pages, ConversationCreated(i) PROVE ClientInv'
  <2> DEFINE c == page[i].creating
             opened == Opening([page[i] EXCEPT !.convs = @ \cup {c}, !.creating = NoConv], c)
             dropped == [page[i] EXCEPT !.creating = NoConv]
  <2>1. c \in Convs
    BY <1>0, <1>2 DEF ConversationCreated, Instance
  <2>2. opened \in Instance /\ dropped \in Instance
    BY <1>0, <2>1, InstanceUpdate
  <2>3. page' = [page EXCEPT ![i] = opened] \/ page' = [page EXCEPT ![i] = dropped]
    BY <1>2 DEF ConversationCreated
  <2> HIDE DEF opened, dropped
  <2>4. page' \in [Pages -> Instance]
    BY <1>0, <2>2, <2>3 DEF PageTypes
  <2>5. RouterTypes' /\ Cleared'
    BY <1>0, <1>2, UnauthorizedKeeps, SignedKeeps DEF ConversationCreated
  <2> QED
    BY <1>0, <1>2, <2>4, <2>5 DEF ConversationCreated, ClientInv, PageTypes
<1>3. ASSUME NEW i \in Pages, NEW c \in Convs, MessagesLoaded(i, c) PROVE ClientInv'
  <2>1. PICK h \in Hash : h = [path |-> "chat?conv", conv |-> c] /\ h # At("login")
    BY Hashes
  <2>2. ASSUME SetHash(h), UNCHANGED token PROVE RouterTypes' /\ Cleared'
    BY <1>0, <2>1, <2>2, SetHashKeeps DEF RouterTypes
  <2>3. ASSUME token' = FALSE, hash' = h, UNCHANGED <<screen, kbLoads>>,
               changes' = changes + 1 + (IF hash = At("login") THEN 0 ELSE 1)
        PROVE  RouterTypes' /\ Cleared'
    <3>1. changes' \in Nat /\ changes' # 0
      BY <1>0, <2>3 DEF RouterTypes
    <3> QED
      BY <1>0, <2>1, <2>3, <3>1 DEF RouterTypes, Cleared
  <2>4. RouterTypes' /\ Cleared'
    <3>1. CASE SetHash(h) /\ UNCHANGED token
      BY <2>2, <3>1
    <3>2. CASE /\ token' = FALSE /\ hash' = h /\ UNCHANGED <<screen, kbLoads, shown>>
               /\ changes' = changes + 1 + (IF hash = At("login") THEN 0 ELSE 1)
      BY <2>3, <3>2
    <3>3. \/ SetHash(h) /\ UNCHANGED token
          \/ /\ token' = FALSE /\ hash' = h /\ UNCHANGED <<screen, kbLoads, shown>>
             /\ changes' = changes + 1 + (IF hash = At("login") THEN 0 ELSE 1)
      BY <1>3, <2>1, Zenon DEF MessagesLoaded
    <3> QED
      BY <3>1, <3>2, <3>3
  <2>5. [page[i] EXCEPT !.loads = @ \ {c}, !.input = TRUE, !.placeholder = FALSE] \in Instance
    BY <1>0, InstanceUpdate
  <2> QED
    BY <1>0, <1>3, <2>4, <2>5 DEF MessagesLoaded, ClientInv, PageTypes
<1>4. ASSUME NEW i \in Pages, NEW q \in Questions, AnswerArrives(i, q) PROVE ClientInv'
  <2>1. page[i].convs \in SUBSET Convs
    BY <1>0 DEF Instance
  <2>2. /\ [page[i] EXCEPT !.convs = page[i].convs] \in Instance
        /\ [page[i] EXCEPT !.convs = convs] \in Instance
    BY <1>0, <2>1, InstanceUpdate
  <2> QED
    BY <1>0, <1>4, <2>2 DEF AnswerArrives, routerVars, ClientInv, RouterTypes, PageTypes, Cleared
<1>5. ASSUME NEW i \in Pages, NEW q \in Questions, StreamEnds(i, q) PROVE ClientInv'
  <2>1. RouterTypes' /\ Cleared'
    BY <1>0, <1>5, UnauthorizedKeeps, SignedKeeps DEF StreamEnds
  <2>2. [page[i] EXCEPT !.asked = {}, !.input = TRUE] \in Instance
    BY <1>0, InstanceUpdate
  <2> QED
    BY <1>0, <1>5, <2>1, <2>2 DEF StreamEnds, SendingDone, ClientInv, PageTypes
<1>6. ASSUME NEW i \in Pages, NEW c \in Convs, OpenConversation(i, c) PROVE ClientInv'
  <2>1. Opening(page[i], c) \in Instance
    BY <1>0, InstanceUpdate
  <2> QED
    BY <1>0, <1>6, <2>1
    DEF OpenConversation, Click, routerVars, ClientInv, RouterTypes, PageTypes, Cleared
<1>7. ASSUME NEW i \in Pages, NEW c \in Convs, CreateConversation(i, c) PROVE ClientInv'
  <2>1. [page[i] EXCEPT !.creating = c] \in Instance
    BY <1>0, InstanceUpdate
  <2> QED
    BY <1>0, <1>7, <2>1
    DEF CreateConversation, Click, routerVars, ClientInv, RouterTypes, PageTypes, Cleared
<1>8. ASSUME NEW i \in Pages, NEW q \in Questions, SendMessage(i, q) PROVE ClientInv'
  <2>1. [page[i] EXCEPT !.asked = {q}, !.input = FALSE, !.placeholder = TRUE] \in Instance
    BY <1>0, InstanceUpdate
  <2> QED
    BY <1>0, <1>8, <2>1
    DEF SendMessage, routerVars, ClientInv, RouterTypes, PageTypes, Cleared
<1>9. ASSUME NEW i \in Pages, NEW q \in Questions, ConnectionLost(i, q) PROVE ClientInv'
  <2>1. [page[i] EXCEPT !.asked = {}, !.input = TRUE] \in Instance
    BY <1>0, InstanceUpdate
  <2> QED
    BY <1>0, <1>9, <2>1
    DEF ConnectionLost, SendingDone, routerVars, ClientInv, RouterTypes, PageTypes, Cleared
<1>10. ASSUME NEW m \in Message, Feedback(m) PROVE ClientInv'
  BY <1>0, <1>10 DEF Feedback, Click, routerVars, ClientInv, RouterTypes, PageTypes, Cleared
<1>11. CASE UNCHANGED clientVars
  BY <1>0, <1>11 DEF clientVars, routerVars, ClientInv, RouterTypes, PageTypes, Cleared
<1>12. CASE UNCHANGED vars
  BY <1>11, <1>12 DEF vars
<1>13. ASSUME NEW i \in Pages, FeedbackPlaceholder(i) PROVE ClientInv'
  BY <1>0, <1>13
  DEF FeedbackPlaceholder, Click, routerVars, ClientInv, RouterTypes, PageTypes, Cleared
<1> QED
  BY <1>1, <1>2, <1>3, <1>4, <1>5, <1>6, <1>7, <1>8, <1>9, <1>10, <1>11, <1>12, <1>13
  DEF Await, Sending

LEMMA StepInv == ServerInv /\ ClientInv /\ [Next]_vars => ServerInv' /\ ClientInv'
BY ServerStepInv, NavigationInv, PageInv DEF Next

-----------------------------------------------------------------------------
(* Every variable of the page and of the server keeps its type.            *)
THEOREM TypeCorrectness == Spec => []TypeOK
<1>1. ServerInv /\ ClientInv => TypeOK
  BY DEF ServerInv, ServerTypes, Stream, StreamStages, ClientInv, RouterTypes, PageTypes, Instance,
         PageStages, ShownIsStored, TypeOK, ServerTypeOK, Running
<1> QED
  BY <1>1, InitServer, InitClient, StepInv, PTL DEF Spec

(* An answer whose text has been on the screen has its row, whatever       *)
(* became of the connection, the page and the generator                    *)
(* (chat.py:179-210, chat.js:330-350).                                     *)
THEOREM AnswersAreStored == Spec => []ShownIsStored
<1>1. ServerInv => ShownIsStored
  BY DEF ServerInv
<1> QED
  BY <1>1, InitServer, InitClient, StepInv, PTL DEF Spec

(* An answer the user had seen when asking, also in an earlier page, is    *)
(* given to the LLM unless HistoryLength later messages of the             *)
(* conversation take its place, whatever other questions are answered at   *)
(* the same time (chat.py:154-169, chat_service.py:64-65).                 *)
THEOREM HistoryIsComplete == Spec => []RemembersWhatWasShown
<1>1. ServerInv => RemembersWhatWasShown
  BY DEF ServerInv, Histories, HistoryOf, RemembersWhatWasShown
<1> QED
  BY <1>1, InitServer, InitClient, StepInv, PTL DEF Spec

(* No page that is drawn at once stays on the screen without a token, in   *)
(* whatever order logouts, 401 answers, events and late answers come       *)
(* (api.js:39-46, main.js:21-29, router.js:28-43).                         *)
THEOREM NothingAfterToken == Spec => []NoTokenNoPage
<1>1. ClientInv => NoTokenNoPage
  BY DEF ClientInv, Cleared, NoTokenNoPage
<1> QED
  BY <1>1, InitServer, InitClient, StepInv, PTL DEF Spec

=============================================================================
