------------------------------- MODULE ChatPage -------------------------------
(***************************************************************************)
(* The single-page application: the router (router.js, main.js), the token *)
(* (state.js, api.js, login.js) and the chat page (chat.js), over the      *)
(* server of ChatService.                                                  *)
(*                                                                         *)
(* JavaScript runs one task at a time: an action is what runs between two  *)
(* awaits, and everything awaited is answered in any order.  Setting       *)
(* location.hash to another value queues a hashchange, which is handled    *)
(* with the hash of that later moment.  A page that is no longer on the    *)
(* screen goes on with what it awaits.                                     *)
(*                                                                         *)
(* Any request may be answered 401, since tokens expire and users are      *)
(* erased at any time.  The other pages are two: one that is drawn at once *)
(* (pages/gems.js and most others) and one that is drawn when a request    *)
(* has been answered (kb_detail.js, timeline.js).                          *)
(***************************************************************************)
EXTENDS ChatService

CONSTANTS
  Pages,      \* instances of the chat page that may be alive at once
  MaxClicks   \* bounds what the user does

ASSUME ClicksAssumption == MaxClicks \in Nat

VARIABLES
  token,      \* whether the store and localStorage hold one
  hash,       \* location.hash
  changes,    \* hashchange events to come
  screen,     \* what #app shows
  boot,       \* boot() awaits api.me()
  login,      \* where the submit of the login form stands
  kbLoads,    \* calls of renderKbDetail that await the knowledge base
  page,       \* the instances of the chat page
  shown,      \* history: the answers whose text has been on the screen
  clicks

routerVars == <<hash, changes, screen, kbLoads>>
clientVars == <<token, routerVars, boot, login, page, shown, clicks>>
vars == <<serverVars, clientVars>>

(* "kbs" stands for the pages that are drawn at once, "chat?kb" for the    *)
(* link of a knowledge base (kb_detail.js:35).                             *)
Hash == [path : {"login", "root", "chat", "kb", "kbs", "chat?kb"}, conv : {NoConv}]
          \cup [path : {"chat?conv"}, conv : Convs]
At(path) == [path |-> path, conv |-> NoConv]
Screens == [kind : {"blank", "login", "kb", "kbs"}, page : {0}]
             \cup [kind : {"chat"}, page : Pages]
Screen(kind) == [kind |-> kind, page |-> 0]

(* placeholder: there is a bubble with rating buttons and no message id.   *)
NoPage == [pc |-> "none", convs |-> {}, conv |-> NoConv, input |-> FALSE, loads |-> {},
           creating |-> NoConv, asked |-> {}, placeholder |-> FALSE]

Init ==
  /\ ServerInit
  /\ token \in BOOLEAN /\ hash \in Hash
  /\ changes = 0 /\ screen = Screen("blank") /\ kbLoads = 0
  /\ boot = TRUE /\ login = "no"
  /\ page = [i \in Pages |-> NoPage]
  /\ shown = {} /\ clicks = 0

(* An instance that awaits nothing. *)
Idle(i) ==
  /\ page[i].pc # "loading" /\ page[i].loads = {}
  /\ page[i].creating = NoConv /\ page[i].asked = {}

-----------------------------------------------------------------------------
(* Mutant: a page is drawn for whoever asks. *)
RequireAuthNever(signedIn) == TRUE

RequireAuth(signedIn) == signedIn

(* handleRoute() for hash h, with n events still to come.  A hash that no  *)
(* pattern matches goes to the first route, the login page; so does one    *)
(* with a query, which split() leaves in the last part of the path.        *)
HandleRoute(h, n, signedIn) ==
  \/ /\ h.path \in {"login", "chat?kb", "chat?conv"}
     /\ hash' = h /\ changes' = n /\ screen' = Screen("login")
     /\ UNCHANGED <<kbLoads, page>>
  \/ /\ h.path \in {"root", "chat", "kb", "kbs"} /\ ~RequireAuth(signedIn)
     /\ hash' = At("login") /\ changes' = n + 1
     /\ UNCHANGED <<screen, kbLoads, page>>
  \/ /\ h.path = "root" /\ RequireAuth(signedIn)
     /\ hash' = At("chat") /\ changes' = n + 1
     /\ UNCHANGED <<screen, kbLoads, page>>
  \/ /\ h.path = "chat" /\ RequireAuth(signedIn)
     /\ \E i \in Pages :
          /\ Idle(i) /\ screen.page # i
          /\ screen' = [kind |-> "chat", page |-> i]
          /\ page' = [page EXCEPT ![i] = [NoPage EXCEPT !.pc = "loading", !.input = TRUE]]
     /\ hash' = h /\ changes' = n
     /\ UNCHANGED kbLoads
  \/ /\ h.path = "kb" /\ RequireAuth(signedIn)
     /\ kbLoads' = kbLoads + 1
     /\ hash' = h /\ changes' = n
     /\ UNCHANGED <<screen, page>>
  \/ /\ h.path = "kbs" /\ RequireAuth(signedIn)
     /\ hash' = h /\ changes' = n /\ screen' = Screen("kbs")
     /\ UNCHANGED <<kbLoads, page>>

SetHash(h) ==
  /\ hash' = h /\ changes' = changes + (IF hash = h THEN 0 ELSE 1)
  /\ UNCHANGED <<screen, kbLoads>>

(* navigate() *)
Navigate(h, signedIn) ==
  IF hash = h THEN HandleRoute(h, changes, signedIn)
  ELSE SetHash(h) /\ UNCHANGED page

HashChange ==
  /\ changes > 0
  /\ HandleRoute(hash, changes - 1, token)
  /\ UNCHANGED <<serverVars, token, boot, login, shown, clicks>>

(* Mutant: the store is emptied, the hash stays. *)
UnauthorizedStays == token' = FALSE /\ UNCHANGED routerVars

(* request() of api.js has got a 401. *)
Unauthorized ==
  /\ token' = FALSE
  /\ IF token THEN SetHash(At("login")) ELSE UNCHANGED routerVars

Signed == UNCHANGED <<token, routerVars>>

-----------------------------------------------------------------------------
(* boot() without a token, and when api.me() has been answered. *)
Boot ==
  /\ boot /\ boot' = FALSE
  /\ \/ /\ token /\ HandleRoute(hash, changes, TRUE) /\ UNCHANGED token
     \/ /\ token' = FALSE
        /\ HandleRoute(At("login"), changes + (IF hash = At("login") THEN 0 ELSE 1), FALSE)
  /\ UNCHANGED <<serverVars, login, shown, clicks>>

Click == clicks < MaxClicks /\ clicks' = clicks + 1

(* The sidebar and the links of a page. *)
FollowLink ==
  /\ Click /\ screen.kind \in {"chat", "kb", "kbs"}
  /\ \/ \E path \in {"chat", "kbs"} : Navigate(At(path), token)
     \/ screen.kind \in {"chat", "kbs"} /\ Navigate(At("kb"), token)
     \/ screen.kind = "kb" /\ Navigate(At("chat?kb"), token)
  /\ UNCHANGED <<serverVars, token, boot, login, shown>>

(* "Déconnexion" *)
Logout ==
  /\ Click /\ screen.kind \in {"chat", "kb", "kbs"}
  /\ token' = FALSE
  /\ Navigate(At("login"), FALSE)
  /\ UNCHANGED <<serverVars, boot, login, shown>>

(* The address is edited, or the user goes back. *)
Visit ==
  /\ Click
  /\ \E h \in Hash \ {hash} : SetHash(h)
  /\ UNCHANGED <<serverVars, token, boot, login, page, shown>>

(* The page is loaded again: nothing is left but localStorage and the hash, *)
(* and the server sees its clients go.                                     *)
Reload ==
  /\ Click
  /\ changes' = 0 /\ screen' = Screen("blank") /\ kbLoads' = 0
  /\ boot' = TRUE /\ login' = "no"
  /\ page' = [i \in Pages |-> NoPage]
  /\ ClientGone(Questions)
  /\ UNCHANGED <<convs, messages, begun, before, feedback, token, hash, shown>>

-----------------------------------------------------------------------------
(* The submit of the login form: the token is set between its two awaits.  *)
SubmitLogin ==
  /\ Click /\ screen.kind = "login" /\ login = "no"
  /\ login' = "login"
  /\ UNCHANGED <<serverVars, token, routerVars, boot, page, shown>>

LoginAnswered ==
  /\ login = "login"
  /\ \/ /\ token' = TRUE /\ login' = "me"
        /\ UNCHANGED routerVars
     \/ Unauthorized /\ login' = "no"
     \/ Signed /\ login' = "no"
  /\ UNCHANGED <<serverVars, boot, page, shown, clicks>>

MeAnswered ==
  /\ login = "me" /\ login' = "no"
  /\ \/ Navigate(At("chat"), token) /\ UNCHANGED token
     \/ Unauthorized /\ UNCHANGED page
     \/ Signed /\ UNCHANGED page
  /\ UNCHANGED <<serverVars, boot, shown, clicks>>

(* renderKbDetail draws the page whatever is on the screen by now; after   *)
(* any error, a 401 included, it goes to the list.                         *)
KbAnswered ==
  /\ kbLoads > 0 /\ kbLoads' = kbLoads - 1
  /\ \/ screen' = Screen("kb") /\ UNCHANGED <<token, hash, changes, page>>
     \/ /\ token' \in {token, FALSE}
        /\ IF hash = At("kbs") /\ token' = token
           THEN IF token THEN screen' = Screen("kbs") /\ UNCHANGED <<hash, changes>>
                ELSE hash' = At("login") /\ changes' = changes + 1 /\ UNCHANGED screen
           ELSE /\ hash' = At("kbs")
                /\ changes' = changes + 1 + (IF token' = token \/ hash = At("login") THEN 0 ELSE 1)
                /\ UNCHANGED screen
        /\ UNCHANGED page
  /\ UNCHANGED <<serverVars, boot, login, shown, clicks>>

-----------------------------------------------------------------------------
OnScreen(i) == screen = [kind |-> "chat", page |-> i]

(* init(): the three lists have been answered, or one of them has failed.  *)
Loaded(i) ==
  /\ page[i].pc = "loading"
  /\ \/ /\ page' = [page EXCEPT ![i].pc = "ready", ![i].convs = convs, ![i].input = FALSE]
        /\ Signed
     \/ /\ page' = [page EXCEPT ![i].pc = "empty", ![i].input = FALSE]
        /\ Signed \/ Unauthorized
  /\ UNCHANGED <<serverVars, boot, login, shown, clicks>>

(* openConversation up to its await; p is the page as it calls it. *)
Opening(p, c) == [p EXCEPT !.conv = c, !.loads = @ \cup {c}, !.placeholder = FALSE]

OpenConversation(i, c) ==
  /\ Click /\ OnScreen(i) /\ c \in page[i].convs
  /\ page' = [page EXCEPT ![i] = Opening(@, c)]
  /\ UNCHANGED <<serverVars, token, routerVars, boot, login, shown>>

AnswersIn(c) == {m \in messages : m.conv = c /\ m.role = "assistant"}

(* ... and after it: what was asked for is drawn and goes into the hash,   *)
(* whichever conversation is active by now.                                *)
MessagesLoaded(i, c) ==
  /\ c \in page[i].loads
  /\ page' = [page EXCEPT ![i].loads = @ \ {c}, ![i].input = TRUE,
                            ![i].placeholder = FALSE]
  /\ \/ /\ shown' = shown \cup AnswersIn(c)
        /\ SetHash([path |-> "chat?conv", conv |-> c]) /\ UNCHANGED token
     \/ /\ SetHash([path |-> "chat?conv", conv |-> c])
        /\ UNCHANGED <<token, shown>>
     \/ /\ token /\ token' = FALSE
        /\ hash' = [path |-> "chat?conv", conv |-> c]
        /\ changes' = changes + 1 + (IF hash = At("login") THEN 0 ELSE 1)
        /\ UNCHANGED <<screen, kbLoads, shown>>
  /\ UNCHANGED <<serverVars, boot, login, clicks>>

(* The modal of a new conversation: the row is committed, then the answer  *)
(* opens it; or it is refused.                                             *)
CreateConversation(i, c) ==
  /\ Click /\ OnScreen(i) /\ page[i].pc = "ready" /\ page[i].creating = NoConv
  /\ c \notin convs /\ \A j \in Pages : page[j].creating # c
  /\ convs' \in {convs, IF token THEN convs \cup {c} ELSE convs}
  /\ page' = [page EXCEPT ![i].creating = c]
  /\ UNCHANGED <<messages, begun, before, feedback, stream, token, routerVars, boot, login, shown>>

(* Mutant: a conversation is opened although none was created. *)
ConversationCreatedUnasked(i) ==
  LET c == page[i].creating
  IN  /\ page' = [page EXCEPT ![i] =
           Opening([page[i] EXCEPT !.convs = @ \cup {c}, !.creating = NoConv], c)]
      /\ UNCHANGED <<serverVars, token, routerVars, boot, login, shown, clicks>>

ConversationCreated(i) ==
  LET c == page[i].creating
  IN  /\ c # NoConv
      /\ \/ /\ c \in convs /\ Signed
            /\ page' = [page EXCEPT ![i] =
                 Opening([page[i] EXCEPT !.convs = @ \cup {c}, !.creating = NoConv], c)]
         \/ /\ Signed \/ (c \notin convs /\ Unauthorized)
            /\ page' = [page EXCEPT ![i].creating = NoConv]
      /\ UNCHANGED <<serverVars, boot, login, shown, clicks>>

(* sendMessage up to its await: the bubble of the answer is drawn, with    *)
(* the buttons of a message that has no id yet.                            *)
SendMessage(i, q) ==
  /\ OnScreen(i) /\ page[i].input /\ page[i].asked = {} /\ page[i].conv # NoConv
  /\ StreamAt(q, "none")
  /\ page' = [page EXCEPT ![i].asked = {q}, ![i].input = FALSE,
                            ![i].placeholder = TRUE]
  /\ stream' = [stream EXCEPT ![q] =
       [NoStream EXCEPT !.pc = "sent", !.conv = page[i].conv, !.token = token,
                        !.seen = {m \in shown : m.conv = page[i].conv}]]
  /\ UNCHANGED <<convs, messages, begun, before, feedback>>
  /\ UNCHANGED <<token, routerVars, boot, login, shown, clicks>>

(* The "message" event; the list of conversations is asked for once more,  *)
(* and replaced if that succeeds.                                          *)
AnswerArrives(i, q) ==
  /\ q \in page[i].asked /\ StreamAt(q, "answered") /\ Of("assistant", q) \notin shown
  /\ shown' = shown \cup {Of("assistant", q)}
  /\ \E list \in {page[i].convs, convs} : page' = [page EXCEPT ![i].convs = list]
  /\ UNCHANGED <<serverVars, token, routerVars, boot, login, clicks>>

SendingDone(i) == page' = [page EXCEPT ![i].asked = {}, ![i].input = TRUE]

(* Mutant: the input is given back after an answer only. *)
StreamEndsAnswered(i, q) ==
  /\ q \in page[i].asked /\ SendingDone(i)
  /\ StreamAt(q, "answered") /\ Of("assistant", q) \in shown /\ Signed
  /\ UNCHANGED <<serverVars, boot, login, shown, clicks>>

(* The stream ends or breaks off, or the request is refused. *)
StreamEnds(i, q) ==
  /\ q \in page[i].asked /\ SendingDone(i)
  /\ \/ StreamAt(q, "answered") /\ Of("assistant", q) \in shown /\ Signed
     \/ StreamAt(q, "broken") /\ Signed
     \/ StreamAt(q, "refused") /\ (Signed \/ Unauthorized)
  /\ UNCHANGED <<serverVars, boot, login, shown, clicks>>

(* The connection is lost. *)
ConnectionLost(i, q) ==
  /\ q \in page[i].asked /\ SendingDone(i)
  /\ ClientGone({q})
  /\ UNCHANGED <<convs, messages, begun, before, feedback>>
  /\ UNCHANGED <<token, routerVars, boot, login, shown, clicks>>

(* sendFeedback on the buttons of an answer. *)
Feedback(m) ==
  /\ Click /\ m \in shown
  /\ feedback' \in {feedback, IF m \in messages THEN feedback \cup {m.of} ELSE feedback}
  /\ UNCHANGED <<convs, messages, begun, before, stream>>
  /\ UNCHANGED <<token, routerVars, boot, login, page, shown>>

(* sendFeedback on the buttons of a placeholder, whose id is undefined: no *)
(* row can come of it, before the answer is there or after it.             *)
FeedbackPlaceholder(i) ==
  /\ Click /\ OnScreen(i) /\ page[i].placeholder
  /\ UNCHANGED <<serverVars, token, routerVars, boot, login, page, shown>>

(* A rating, the list that AnswerArrives asks for or a request of a page   *)
(* that is drawn at once is answered 401.                                  *)
CallUnauthorized ==
  /\ \/ shown # {} /\ \E i \in Pages : page[i].conv # NoConv
     \/ screen.kind = "kbs"
  /\ token /\ Unauthorized
  /\ UNCHANGED <<serverVars, boot, login, page, shown, clicks>>

-----------------------------------------------------------------------------
Await(i) ==
  \/ Loaded(i) \/ ConversationCreated(i)
  \/ \E c \in Convs : MessagesLoaded(i, c)

Sending(i) ==
  \E q \in Questions : AnswerArrives(i, q) \/ StreamEnds(i, q)

Next ==
  \/ Boot \/ HashChange \/ FollowLink \/ Logout \/ Visit \/ Reload
  \/ SubmitLogin \/ LoginAnswered \/ MeAnswered \/ KbAnswered \/ CallUnauthorized
  \/ \E i \in Pages : Await(i) \/ Sending(i) \/ FeedbackPlaceholder(i)
  \/ \E i \in Pages, c \in Convs : OpenConversation(i, c) \/ CreateConversation(i, c)
  \/ \E i \in Pages, q \in Questions : SendMessage(i, q) \/ ConnectionLost(i, q)
  \/ \E q \in Questions : ServerStep(q) /\ UNCHANGED clientVars
  \/ \E m \in Message : Feedback(m)

Spec == Init /\ [][Next]_vars

(* A generator goes on until it has ended, and what arrives is read. *)
Fairness ==
  /\ \A q \in Questions : WF_vars(ServerStep(q) /\ UNCHANGED clientVars)
  /\ \A i \in Pages : WF_vars(Sending(i))

FairSpec == Spec /\ Fairness

-----------------------------------------------------------------------------
TypeOK ==
  /\ ServerTypeOK
  /\ token \in BOOLEAN /\ boot \in BOOLEAN /\ login \in {"no", "login", "me"}
  /\ hash \in Hash /\ screen \in Screens
  /\ changes \in Nat /\ kbLoads \in Nat /\ clicks \in 0 .. MaxClicks
  /\ shown \subseteq Message
  /\ \A i \in Pages :
       /\ page[i].pc \in {"none", "loading", "ready", "empty"} /\ page[i].placeholder \in BOOLEAN
       /\ page[i].loads \cup page[i].convs \subseteq Convs
       /\ page[i].conv \in Convs \cup {NoConv} /\ page[i].asked \subseteq Questions

(* An answer whose text has been on the screen is in the database,         *)
(* whatever became of the connection, the page and the generator: it is    *)
(* there when the conversation is opened again, and the buttons drawn with *)
(* it find their message (chat.py:179-210, chat.js:330-350); those of the  *)
(* placeholder drawn before it have no message.                            *)
ShownIsStored == shown \subseteq messages

(* An answer of the conversation that the user had been shown when asking, *)
(* by this page or an earlier one, is among what the LLM is given: only as *)
(* many later messages of the conversation as fill the history keep it out *)
(* (chat.py:154-169, chat_service.py:64-65).                               *)
RemembersWhatWasShown ==
  \A q \in Questions : stream[q].pc \in {"persist", "yield"} =>
    \A m \in stream[q].seen \ stream[q].given :
      Cardinality(Later(RowsOf(stream[q].conv), m)) >= HistoryLength

(* Once the token is gone, by a logout or a 401 in any order with answers  *)
(* that are still awaited, no page stays on the screen that was drawn for  *)
(* the user, but for those that draw after an await: they may come back    *)
(* (api.js:39-46, main.js:21-29, kb_detail.js:18-26).                      *)
NoTokenNoPage ==
  ~token /\ changes = 0 => screen.kind \in {"blank", "login", "kb"}

(* The input of a page is given back: whatever fails in the server, on the *)
(* way or in the answer, isStreaming is reset (chat.js:318-361).           *)
SendingEnds == \A i \in Pages : page[i].asked # {} ~> page[i].asked = {}

(* main.js:4, "Re-renders the active page on every hash change": when all  *)
(* of them have been handled and nothing is awaited, the screen shows the  *)
(* page of the hash.                                                       *)
PageOf(path) == IF path \in {"chat?kb", "chat?conv"} THEN "chat" ELSE path

HashIsShown ==
  changes = 0 /\ ~boot /\ kbLoads = 0 /\ hash.path # "root" => screen.kind = PageOf(hash.path)

=============================================================================
