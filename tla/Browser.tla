------------------------------ MODULE Browser ------------------------------
(* The page's state (static/app.js) around one streamed reply: which        *)
(* conversation the next question continues, whose messages the page has,   *)
(* whose it has rendered, and what the live reply says. The sidebar works    *)
(* while a reply streams, and answers to clicks made before a question may   *)
(* arrive after it. The server is seen through its events (api/shopping.py,  *)
(* stream): the session, then status and tokens, then done, or an error, or *)
(* nothing more.                                                            *)
EXTENDS FiniteSets

CONSTANTS
  Conversations,
  None

VARIABLES
  signedIn,          \* state.user
  busy,              \* state.busy
  active,            \* state.active: what the next question continues
  messages,          \* state.messages: the conversations it has turns of; a question
                     \* asked in a new chat is of none until that has an id
  screen,            \* the conversations the rendered messages are of
  live,              \* the reply being written is in state.messages
  text,              \* the reply's text: "none", "empty", "partial" or "answer"
  stream,            \* [phase, conversation] of the request in flight
  outcome,           \* how the last reply ended
  opening,           \* openSession calls in flight
  deleting,          \* deleteSession calls in flight
  strayed            \* a session event has selected a conversation that the user
                     \* had left, and the page has shown none since

pageVars == <<signedIn, busy, active, messages, screen, live, text, stream, outcome,
              opening, deleting, strayed>>

NoStream == [phase |-> "none", conversation |-> None]

\* A conversation as a set: a new chat has none yet.
Of(c) == {c} \ {None}

Init == /\ signedIn = FALSE /\ busy = FALSE /\ active = None /\ messages = {} /\ screen = {}
        /\ live = FALSE /\ text = "none" /\ stream = NoStream /\ outcome = "none"
        /\ opening = {} /\ deleting = {} /\ strayed = FALSE

\* The sign-in form is disabled while a reply streams. Nothing is rendered.
SignIn ==
  /\ ~signedIn /\ ~busy
  /\ signedIn' = TRUE
  /\ UNCHANGED <<busy, active, messages, screen, live, text, stream, outcome, opening,
                 deleting, strayed>>

\* The page turns to another conversation; the reply in flight, if any, is no
\* longer among its messages.
TurnTo(conversation) ==
  /\ active' = conversation /\ messages' = Of(conversation)
  /\ live' = FALSE /\ strayed' = FALSE

\* ... and renders it.
Show(conversation) == TurnTo(conversation) /\ screen' = messages'

\* The state is cleared, and the rendered messages stay behind the sign-in
\* form. The stream goes on.
SignOut ==
  /\ signedIn /\ signedIn' = FALSE
  /\ TurnTo(None)
  /\ UNCHANGED <<busy, screen, text, stream, outcome, opening, deleting>>

NewChat ==
  /\ signedIn
  /\ Show(None)
  /\ UNCHANGED <<signedIn, busy, text, stream, outcome, opening, deleting>>

\* Mutant: opening a conversation is allowed while a reply streams, and only
\* the highlight moves.
ClickOpenAnyTime(c) ==
  /\ signedIn /\ c \notin opening
  /\ opening' = opening \cup {c} /\ active' = c
  /\ UNCHANGED <<signedIn, busy, messages, screen, live, text, stream, outcome, deleting, strayed>>

\* openSession up to its await: not while busy.
ClickOpen(c) ==
  /\ signedIn /\ ~busy /\ c \notin opening
  /\ opening' = opening \cup {c}
  /\ UNCHANGED <<signedIn, busy, active, messages, screen, live, text, stream, outcome,
                 deleting, strayed>>

\* ... and after it, whatever has happened meanwhile; an error shows nothing.
Opened(c) ==
  /\ c \in opening /\ opening' = opening \ {c}
  /\ \/ Show(c)
     \/ UNCHANGED <<active, messages, screen, live, strayed>>
  /\ UNCHANGED <<signedIn, busy, text, stream, outcome, deleting>>

ClickDelete(c) ==
  /\ signedIn /\ c \notin deleting
  /\ deleting' = deleting \cup {c}
  /\ UNCHANGED <<signedIn, busy, active, messages, screen, live, text, stream, outcome,
                 opening, strayed>>

\* The page is cleared when the active conversation is the deleted one.
Deleted(c) ==
  /\ c \in deleting /\ deleting' = deleting \ {c}
  /\ \/ active = c /\ Show(None)
     \/ UNCHANGED <<active, messages, screen, live, strayed>>
  /\ UNCHANGED <<signedIn, busy, text, stream, outcome, opening>>

\* Mutant: the question and its reply are added below what is rendered.
SendAppends ==
  /\ signedIn /\ ~busy
  /\ busy' = TRUE /\ live' = TRUE /\ text' = "empty" /\ outcome' = "none"
  /\ messages' = messages \cup Of(active) /\ screen' = screen \cup Of(active)
  /\ stream' = [phase |-> "asked", conversation |-> active]
  /\ UNCHANGED <<signedIn, active, opening, deleting, strayed>>

\* send() up to the response: one question at a time, in the active
\* conversation, added to the messages and rendered with them.
Send ==
  /\ signedIn /\ ~busy
  /\ busy' = TRUE /\ live' = TRUE /\ text' = "empty" /\ outcome' = "none"
  /\ messages' = messages \cup Of(active) /\ screen' = messages'
  /\ stream' = [phase |-> "asked", conversation |-> active]
  /\ UNCHANGED <<signedIn, active, opening, deleting, strayed>>

\* event: session, for a new conversation the one the server made. The
\* messages of the question, wherever they still are, are now of it.
SessionEvent(c) ==
  /\ stream.phase = "asked" /\ stream.conversation \in {None, c}
  /\ active' = c
  /\ IF live THEN /\ messages' = messages \cup Of(c) /\ screen' = screen \cup Of(c)
                  /\ UNCHANGED strayed
     ELSE /\ strayed' = (strayed \/ messages # Of(c))
          /\ UNCHANGED <<messages, screen>>
  /\ stream' = [phase |-> "open", conversation |-> c]
  /\ UNCHANGED <<signedIn, busy, live, text, outcome, opening, deleting>>

\* The live reply is rewritten in place, or, when it is not among the
\* messages, all of them are rendered again.
RenderLiveReply == screen' = IF live THEN screen ELSE messages

\* event: status, which changes the words of an empty reply only.
StatusEvent ==
  /\ stream.phase = "open"
  /\ RenderLiveReply
  /\ UNCHANGED <<signedIn, busy, active, messages, live, text, stream, outcome, opening,
                 deleting, strayed>>

\* event: token
TokenEvent ==
  /\ stream.phase = "open"
  /\ text' = "partial"
  /\ RenderLiveReply
  /\ UNCHANGED <<signedIn, busy, active, messages, live, stream, outcome, opening, deleting,
                 strayed>>

\* Mutant: done leaves the text as the tokens made it.
DoneKeepsTokens ==
  /\ stream.phase = "open"
  /\ stream' = [stream EXCEPT !.phase = "done"]
  /\ UNCHANGED <<signedIn, busy, active, messages, screen, live, text, outcome, opening,
                 deleting, strayed>>

\* event: done, whose answer replaces the tokens; a reply that is not among
\* the messages is updated nowhere. The session list is read again before the
\* page is idle.
DoneEvent ==
  /\ stream.phase = "open"
  /\ text' = "answer"
  /\ stream' = [stream EXCEPT !.phase = "done"]
  /\ UNCHANGED <<signedIn, busy, active, messages, screen, live, outcome, opening, deleting,
                 strayed>>

Refreshed ==
  /\ stream.phase = "done"
  /\ outcome' = "answered" /\ busy' = FALSE /\ stream' = NoStream
  /\ UNCHANGED <<signedIn, active, messages, screen, live, text, opening, deleting, strayed>>

\* catch: a refusal, an error event, a stream that ends without done, the
\* Stop button, or a session list that cannot be read after done.
Failed ==
  /\ stream.phase # "none"
  /\ text' = "empty"
  /\ outcome' = IF stream.phase = "done" THEN "list unread" ELSE "failed"
  /\ busy' = FALSE /\ stream' = NoStream
  /\ UNCHANGED <<signedIn, active, messages, screen, live, opening, deleting, strayed>>

Next == \/ SignIn \/ SignOut \/ NewChat \/ Send
        \/ StatusEvent \/ TokenEvent \/ DoneEvent \/ Refreshed \/ Failed
        \/ \E c \in Conversations :
             ClickOpen(c) \/ Opened(c) \/ ClickDelete(c) \/ Deleted(c) \/ SessionEvent(c)

Spec == Init /\ [][Next]_pageVars

-----------------------------------------------------------------------------
\* The variables hold what their comments say.
TypeOK ==
  /\ {signedIn, busy, live, strayed} \subseteq BOOLEAN
  /\ active \in Conversations \cup {None}
  /\ messages \subseteq Conversations /\ screen \subseteq Conversations
  /\ text \in {"none", "empty", "partial", "answer"}
  /\ stream \in [phase : {"none", "asked", "open", "done"},
                 conversation : Conversations \cup {None}]
  /\ opening \subseteq Conversations /\ deleting \subseteq Conversations

\* The page tells the user what the server has. A reply that ended says the
\* server's answer or, when it failed, nothing. The next question continues
\* the one conversation whose messages the page has, unless the stream of a
\* question selected that of the question after the user had left it
\* (strayed). And what is rendered is what the page has, except between a
\* sign-out and the next rendering, when it has nothing; no reply is ever
\* added below what was left on the screen.
ScreenIsHonest ==
  /\ ~busy => text \in {"none", "empty", "answer"} /\ (outcome = "answered" => text = "answer")
  /\ ~strayed => messages = Of(active)
  /\ screen # messages => messages = {} /\ ~live

=============================================================================
