------------------------------ MODULE ChatTurns ------------------------------
(***************************************************************************)
(* One chat turn, from the request to the saved pair of messages:          *)
(* api/shopping.py (the `_busy` gate, /chat and /chat/stream) over         *)
(* services/sessions.py (the conversation documents), next to the session  *)
(* routes and the account deletion that touch the same documents.          *)
(*                                                                         *)
(* The server is one asyncio process, so a step of this module is what the *)
(* code does between two awaits.  A MongoDB update that has been sent is   *)
(* carried out by a driver thread: it may take effect before or after the  *)
(* coroutine that sent it is cancelled.                                    *)
(***************************************************************************)
EXTENDS Integers, Sequences, FiniteSets

CONSTANTS
  Users,      \* accounts
  Sessions,   \* conversation ids Mongo may hand out (bounds the documents)
  Requests,   \* chat requests, each of which is one turn (bounds the turns)
  Asker,      \* the account behind each request
  Streams,    \* the requests sent to /chat/stream; the others go to /chat
  Leavers,    \* the streams whose client may disconnect
  Cap,        \* messages kept per conversation: min(MAX_SESSION_MESSAGES, 80)
  MaxRestarts,\* bound on the restarts of the server process
  None        \* no session id in the request body, no owner

ASSUME AskerAssumption == Asker \in [Requests -> Users]
ASSUME StreamsAssumption == Streams \subseteq Requests /\ Leavers \subseteq Streams
ASSUME CapAssumption == Cap \in Nat \ {0} /\ Cap % 2 = 0
ASSUME RestartsAssumption == MaxRestarts \in Nat
ASSUME NoneAssumption == None \notin Users /\ None \notin Sessions

VARIABLES
  accounts,   \* the user documents, with the progress of their deletion
  store,      \* the sessions collection
  busy,       \* the `_busy` set
  phase,      \* where the handler of each request is
  conv,       \* the conversation of each request
  seen,       \* the history each turn was given: its session.messages
  task,       \* the coroutine `execute` of each request
  names,      \* whether the turn's update also sets the title
  wire,       \* the turn's update_one, once it has been sent
  outcome,    \* what the client was told
  restarts    \* how often the process was restarted

reqVars == <<phase, conv, seen, task, names, wire, outcome>>
vars == <<accounts, store, busy, reqVars, restarts>>

-----------------------------------------------------------------------------
(* The documents of the sessions collection.                               *)

Message == [role : {"user", "assistant"}, turn : Requests]
Title == {"New chat", "given", "renamed", "question"}

Document == [state : {"free", "live", "deleted"}, owner : Users \cup {None},
             title : Title, messages : Seq(Message), count : Nat]

Blank(state) == [state |-> state, owner |-> None, title |-> "New chat",
                 messages |-> <<>>, count |-> 0]

\* Mutant: a session created without a title has none at all.
NewDocumentUntitled(u, title) ==
  [Blank("live") EXCEPT !.owner = u, !.title = IF title = "given" THEN title ELSE "none"]

NewDocument(u, title) == [Blank("live") EXCEPT !.owner = u, !.title = title]

\* Mutant: the query filters on the id alone.
OwnsAny(u, s) == store[s].state = "live"

\* The filter {"_id": oid, "user_id": user_id} that every query carries.
Owns(u, s) == store[s].state = "live" /\ store[s].owner = u

\* The pair one turn saves, and $slice: -n, which keeps the newest n.
Pair(r) == <<[role |-> "user", turn |-> r], [role |-> "assistant", turn |-> r]>>

\* Mutants: $slice: n, which keeps the oldest n; $slice: -(n + 1).
Oldest(n, messages) == IF Len(messages) <= n THEN messages ELSE SubSeq(messages, 1, n)

NewestAndOne(n, messages) ==
  IF Len(messages) <= n THEN messages
  ELSE SubSeq(messages, Len(messages) - n, Len(messages))

Newest(n, messages) ==
  IF Len(messages) <= n THEN messages
  ELSE SubSeq(messages, Len(messages) - n + 1, Len(messages))

\* Mutant: what is kept is counted, not what came.
PushedCountKept(document, r, titled) ==
  [document EXCEPT !.messages = Newest(Cap, @ \o Pair(r)),
                   !.count = IF @ < Cap THEN @ + 2 ELSE @]

\* The document after $push/$each/$slice, $set and $inc.
Pushed(document, r, titled) ==
  [document EXCEPT !.messages = Newest(Cap, @ \o Pair(r)),
                   !.title = IF titled THEN "question" ELSE @,
                   !.count = @ + 2]

TurnsIn(messages) == {messages[i].turn : i \in DOMAIN messages}

-----------------------------------------------------------------------------
(* The phases of a request, and of its turn.                               *)

Phase == {"idle", "authed", "opening", "ready", "serving", "closing", "ended"}
Task == {"none", "answering", "saving", "saved", "missing", "failed", "cancelled"}
Wire == {"none", "sent", "landed", "unmatched", "lost"}
Outcome == {"none", "401", "409", "429", "404", "503", "done", "error", "dropped"}

\* The handler owns the gate: it added its account to `_busy`.
Holding(r) == phase[r] \in {"opening", "ready", "serving", "closing"}

\* `execute` has been started and has not returned, raised or been cancelled.
Running(r) == task[r] \in {"answering", "saving"}

\* task.cancel() has been called, by the generator's finally or by its death.
Cancelling(r) == Running(r) /\ phase[r] \in {"closing", "ended"}

Init ==
  /\ accounts = [u \in Users |-> "live"]
  /\ store = [s \in Sessions |-> Blank("free")]
  /\ busy = {}
  /\ phase = [r \in Requests |-> "idle"]
  /\ conv = [r \in Requests |-> None]
  /\ seen = [r \in Requests |-> {}]
  /\ task = [r \in Requests |-> "none"]
  /\ names = [r \in Requests |-> FALSE]
  /\ wire = [r \in Requests |-> "none"]
  /\ outcome = [r \in Requests |-> "none"]
  /\ restarts = 0

\* The handler of r ends and tells the client `what`.
EndWith(r, what) ==
  /\ phase' = [phase EXCEPT ![r] = "ended"]
  /\ outcome' = [outcome EXCEPT ![r] = what]

-----------------------------------------------------------------------------
(* The gate: get_current_user and prepare.                                 *)

\* get_current_user reads the account before the handler runs.
Authenticate(r) ==
  /\ phase[r] = "idle"
  /\ IF accounts[Asker[r]] = "deleted"
     THEN EndWith(r, "401")
     ELSE phase' = [phase EXCEPT ![r] = "authed"] /\ UNCHANGED outcome
  /\ UNCHANGED <<accounts, store, busy, conv, seen, task, names, wire, restarts>>

\* prepare, when it refuses: over the CHAT rate limit, or a turn is active.
Refuse(r) ==
  /\ phase[r] = "authed"
  /\ \/ EndWith(r, "429")
     \/ Asker[r] \in busy /\ EndWith(r, "409")
  /\ UNCHANGED <<accounts, store, busy, conv, seen, task, names, wire, restarts>>

\* Mutant: prepare adds the account without looking.
AdmitUnchecked(r) ==
  /\ phase[r] = "authed"
  /\ busy' = busy \cup {Asker[r]}
  /\ \E s \in Sessions \cup {None} : conv' = [conv EXCEPT ![r] = s]
  /\ phase' = [phase EXCEPT ![r] = "opening"]
  /\ UNCHANGED <<accounts, store, seen, task, names, wire, outcome, restarts>>

\* prepare up to its await: check and add without a suspension between them.
Admit(r) ==
  /\ phase[r] = "authed"
  /\ Asker[r] \notin busy
  /\ busy' = busy \cup {Asker[r]}
  /\ \E s \in Sessions \cup {None} : conv' = [conv EXCEPT ![r] = s]
  /\ phase' = [phase EXCEPT ![r] = "opening"]
  /\ UNCHANGED <<accounts, store, seen, task, names, wire, outcome, restarts>>

\* sessions.create: the request named no conversation.
OpenNew(r) ==
  /\ phase[r] = "opening" /\ conv[r] = None
  /\ \E s \in Sessions :
       /\ store[s].state = "free"
       /\ store' = [store EXCEPT ![s] = NewDocument(Asker[r], "New chat")]
       /\ conv' = [conv EXCEPT ![r] = s]
  /\ phase' = [phase EXCEPT ![r] = "ready"]
  /\ UNCHANGED <<accounts, busy, seen, task, names, wire, outcome, restarts>>

\* sessions.get: the conversation and its messages, if it is the caller's.
OpenExisting(r) ==
  /\ phase[r] = "opening" /\ conv[r] # None
  /\ Owns(Asker[r], conv[r])
  /\ seen' = [seen EXCEPT ![r] = TurnsIn(store[conv[r]].messages)]
  /\ phase' = [phase EXCEPT ![r] = "ready"]
  /\ UNCHANGED <<accounts, store, busy, conv, task, names, wire, outcome, restarts>>

\* Mutant: the 404 is raised outside the try, the gate stays shut.
OpenMissingKeepsGate(r) ==
  /\ phase[r] = "opening" /\ conv[r] # None
  /\ ~Owns(Asker[r], conv[r])
  /\ EndWith(r, "404")
  /\ UNCHANGED <<accounts, store, busy, conv, seen, task, names, wire, restarts>>

\* sessions.get found nothing: 404, and `except BaseException` frees the gate.
OpenMissing(r) ==
  /\ phase[r] = "opening" /\ conv[r] # None
  /\ ~Owns(Asker[r], conv[r])
  /\ busy' = busy \ {Asker[r]}
  /\ EndWith(r, "404")
  /\ UNCHANGED <<accounts, store, conv, seen, task, names, wire, restarts>>

\* Mutant: the handler catches HTTPException only.
OpenFailsKeepsGate(r) ==
  /\ phase[r] = "opening"
  /\ EndWith(r, "503")
  /\ UNCHANGED <<accounts, store, busy, conv, seen, task, names, wire, restarts>>

\* Mongo does not answer: DatabaseUnavailable, the gate is freed.  An insert
\* whose acknowledgement was lost may still have created the document.
OpenFails(r) ==
  /\ phase[r] = "opening"
  /\ \/ UNCHANGED store
     \/ /\ conv[r] = None
        /\ \E s \in Sessions :
             /\ store[s].state = "free"
             /\ store' = [store EXCEPT ![s] = NewDocument(Asker[r], "New chat")]
  /\ busy' = busy \ {Asker[r]}
  /\ EndWith(r, "503")
  /\ UNCHANGED <<accounts, conv, seen, task, names, wire, restarts>>

-----------------------------------------------------------------------------
(* The turn: execute and sessions.append_exchange.                         *)

\* /chat awaits execute; /chat/stream makes it a task once the response
\* starts to iterate events().
Start(r) ==
  /\ phase[r] = "ready"
  /\ phase' = [phase EXCEPT ![r] = "serving"]
  /\ task' = [task EXCEPT ![r] = "answering"]
  /\ UNCHANGED <<accounts, store, busy, conv, seen, names, wire, outcome, restarts>>

\* Mutant: an empty conversation is taken for a missing one.
FindSessionFalsy(r) ==
  /\ task[r] = "answering" /\ ~Cancelling(r)
  /\ IF Owns(Asker[r], conv[r]) /\ store[conv[r]].count # 0
     THEN /\ task' = [task EXCEPT ![r] = "saving"]
          /\ wire' = [wire EXCEPT ![r] = "sent"]
          /\ names' = [names EXCEPT ![r] = FALSE]
     ELSE task' = [task EXCEPT ![r] = "missing"] /\ UNCHANGED <<wire, names>>
  /\ UNCHANGED <<accounts, store, busy, phase, conv, seen, outcome, restarts>>

\* The answer is ready and append_exchange has looked the conversation up:
\* the update is sent if it is there, and names it if it has no messages yet.
FindSession(r) ==
  /\ task[r] = "answering" /\ ~Cancelling(r)
  /\ IF Owns(Asker[r], conv[r])
     THEN /\ task' = [task EXCEPT ![r] = "saving"]
          /\ wire' = [wire EXCEPT ![r] = "sent"]
          /\ names' = [names EXCEPT ![r] = store[conv[r]].count = 0]
     ELSE task' = [task EXCEPT ![r] = "missing"] /\ UNCHANGED <<wire, names>>
  /\ UNCHANGED <<accounts, store, busy, phase, conv, seen, outcome, restarts>>

\* update_one takes effect, whether or not anyone still waits for it.
Land(r) ==
  /\ wire[r] = "sent"
  /\ IF Owns(Asker[r], conv[r])
     THEN /\ store' = [store EXCEPT ![conv[r]] = Pushed(@, r, names[r])]
          /\ wire' = [wire EXCEPT ![r] = "landed"]
     ELSE wire' = [wire EXCEPT ![r] = "unmatched"] /\ UNCHANGED store
  /\ UNCHANGED <<accounts, busy, phase, conv, seen, task, names, outcome, restarts>>

\* An update nobody waits for may never reach the server.
Lose(r) ==
  /\ wire[r] = "sent" /\ ~Running(r)
  /\ wire' = [wire EXCEPT ![r] = "lost"]
  /\ UNCHANGED <<accounts, store, busy, phase, conv, seen, task, names, outcome, restarts>>

\* matched_count comes back: the turn is saved, or its conversation is gone.
Acknowledge(r) ==
  /\ task[r] = "saving" /\ ~Cancelling(r)
  /\ wire[r] \in {"landed", "unmatched"}
  /\ task' = [task EXCEPT ![r] = IF wire[r] = "landed" THEN "saved" ELSE "missing"]
  /\ UNCHANGED <<accounts, store, busy, phase, conv, seen, names, wire, outcome, restarts>>

\* The agent times out or fails, or Mongo does not answer.
Fail(r) ==
  /\ Running(r) /\ ~Cancelling(r)
  /\ task' = [task EXCEPT ![r] = "failed"]
  /\ UNCHANGED <<accounts, store, busy, phase, conv, seen, names, wire, outcome, restarts>>

\* CancelledError reaches the await execute is suspended in.
Cancelled(r) ==
  /\ Cancelling(r)
  /\ task' = [task EXCEPT ![r] = "cancelled"]
  /\ UNCHANGED <<accounts, store, busy, phase, conv, seen, names, wire, outcome, restarts>>

-----------------------------------------------------------------------------
(* The end of the response.                                                *)

\* Mutant: whatever is not a missing conversation is reported as done.
VerdictLenient(r) == IF task[r] = "missing" THEN "error" ELSE "done"

Verdict(r) == IF task[r] = "saved" THEN "done" ELSE "error"

\* /chat: the response or the HTTPException, and its finally, in one step.
Reply(r) ==
  /\ r \notin Streams
  /\ phase[r] = "serving" /\ ~Running(r)
  /\ busy' = busy \ {Asker[r]}
  /\ EndWith(r, Verdict(r))
  /\ UNCHANGED <<accounts, store, conv, seen, task, names, wire, restarts>>

\* Mutant: events() waits for the answer and does not see the task fail.
ReportAnswerOnly(r) ==
  /\ r \in Streams
  /\ phase[r] = "serving" /\ task[r] \in {"saved", "missing"}
  /\ phase' = [phase EXCEPT ![r] = "closing"]
  /\ outcome' = [outcome EXCEPT ![r] = Verdict(r)]
  /\ UNCHANGED <<accounts, store, busy, conv, seen, task, names, wire, restarts>>

\* /chat/stream: the `done` or the `error` event; events() enters its finally.
Report(r) ==
  /\ r \in Streams
  /\ phase[r] = "serving" /\ ~Running(r)
  /\ phase' = [phase EXCEPT ![r] = "closing"]
  /\ outcome' = [outcome EXCEPT ![r] = Verdict(r)]
  /\ UNCHANGED <<accounts, store, busy, conv, seen, task, names, wire, restarts>>

\* The client leaves: is_disconnected() is seen, or the server cancels or
\* closes the generator.  events() enters its finally, which cancels the task.
Disconnect(r) ==
  /\ r \in Leavers
  /\ phase[r] = "serving"
  /\ phase' = [phase EXCEPT ![r] = "closing"]
  /\ outcome' = [outcome EXCEPT ![r] = "dropped"]
  /\ UNCHANGED <<accounts, store, busy, conv, seen, task, names, wire, restarts>>

\* Mutant: the gate is freed before the cancelled task has ended.
ReleaseAtOnce(r) ==
  /\ phase[r] = "closing"
  /\ phase' = [phase EXCEPT ![r] = "ended"]
  /\ busy' = busy \ {Asker[r]}
  /\ UNCHANGED <<accounts, store, conv, seen, task, names, wire, outcome, restarts>>

\* The finally waits for the task, then frees the gate.
Release(r) ==
  /\ phase[r] = "closing" /\ ~Running(r)
  /\ phase' = [phase EXCEPT ![r] = "ended"]
  /\ busy' = busy \ {Asker[r]}
  /\ UNCHANGED <<accounts, store, conv, seen, task, names, wire, outcome, restarts>>

\* The client left, so the server's cancel scope cancels the await in the
\* finally as well: what follows it, the discard, is not executed.
Interrupt(r) ==
  /\ r \in Leavers
  /\ phase[r] = "closing"
  /\ phase' = [phase EXCEPT ![r] = "ended"]
  /\ UNCHANGED <<accounts, store, busy, conv, seen, task, names, wire, outcome, restarts>>

\* The client left before events() was iterated: a generator that was never
\* started has no finally to run.
LeaveEarly(r) ==
  /\ r \in Leavers
  /\ phase[r] = "ready"
  /\ EndWith(r, "dropped")
  /\ UNCHANGED <<accounts, store, busy, conv, seen, task, names, wire, restarts>>

-----------------------------------------------------------------------------
(* The session routes.                                                     *)

CreateSession(u) ==
  /\ accounts[u] # "deleted"
  /\ \E s \in Sessions, title \in {"New chat", "given"} :
       /\ store[s].state = "free"
       /\ store' = [store EXCEPT ![s] = NewDocument(u, title)]
  /\ UNCHANGED <<accounts, busy, reqVars, restarts>>

RenameSession(u, s) ==
  /\ accounts[u] # "deleted"
  /\ Owns(u, s)
  /\ store' = [store EXCEPT ![s].title = "renamed"]
  /\ UNCHANGED <<accounts, busy, reqVars, restarts>>

DeleteSession(u, s) ==
  /\ accounts[u] # "deleted"
  /\ Owns(u, s)
  /\ store' = [store EXCEPT ![s] = Blank("deleted")]
  /\ UNCHANGED <<accounts, busy, reqVars, restarts>>

-----------------------------------------------------------------------------
(* DELETE /api/me: the conversations first, then the account.              *)

\* The caller is authenticated and has confirmed the password.
BeginDeletion(u) ==
  /\ accounts[u] = "live"
  /\ accounts' = [accounts EXCEPT ![u] = "leaving"]
  /\ UNCHANGED <<store, busy, reqVars, restarts>>

DeleteAllSessions(u) ==
  /\ accounts[u] = "leaving"
  /\ accounts' = [accounts EXCEPT ![u] = "emptied"]
  /\ store' = [s \in Sessions |-> IF Owns(u, s) THEN Blank("deleted") ELSE store[s]]
  /\ UNCHANGED <<busy, reqVars, restarts>>

DeleteUser(u) ==
  /\ accounts[u] = "emptied"
  /\ accounts' = [accounts EXCEPT ![u] = "deleted"]
  /\ UNCHANGED <<store, busy, reqVars, restarts>>

\* Mongo does not answer: the request fails and the account is still there.
DeletionFails(u) ==
  /\ accounts[u] \in {"leaving", "emptied"}
  /\ accounts' = [accounts EXCEPT ![u] = "live"]
  /\ UNCHANGED <<store, busy, reqVars, restarts>>

-----------------------------------------------------------------------------
\* The process dies and comes back: `_busy`, the handlers and the tasks are
\* gone, the documents stay and an update that was sent may still land.
Restart ==
  /\ restarts < MaxRestarts
  /\ restarts' = restarts + 1
  /\ busy' = {}
  /\ phase' = [r \in Requests |-> IF phase[r] = "idle" THEN "idle" ELSE "ended"]
  /\ outcome' = [r \in Requests |->
                   IF phase[r] # "idle" /\ outcome[r] = "none" THEN "dropped" ELSE outcome[r]]
  /\ task' = [r \in Requests |-> IF Running(r) THEN "cancelled" ELSE task[r]]
  /\ accounts' = [u \in Users |-> IF accounts[u] = "deleted" THEN "deleted" ELSE "live"]
  /\ UNCHANGED <<store, conv, seen, names, wire>>

\* What the process does for a request without being asked again.
Progress(r) ==
  \/ Refuse(r) \/ Admit(r)
  \/ OpenNew(r) \/ OpenExisting(r) \/ OpenMissing(r) \/ OpenFails(r)
  \/ Start(r) \/ FindSession(r) \/ Land(r) \/ Acknowledge(r) \/ Fail(r) \/ Cancelled(r)
  \/ Reply(r) \/ Report(r) \/ Release(r)

\* What a client, or the network between, may do to a request at any time.
Surprise(r) ==
  Authenticate(r) \/ Lose(r) \/ Disconnect(r) \/ Interrupt(r) \/ LeaveEarly(r)

\* What an account's other requests may do.
Housekeeping(u) ==
  \/ CreateSession(u)
  \/ \E s \in Sessions : RenameSession(u, s) \/ DeleteSession(u, s)
  \/ BeginDeletion(u) \/ DeleteAllSessions(u) \/ DeleteUser(u) \/ DeletionFails(u)

Next ==
  \/ \E r \in Requests : Progress(r) \/ Surprise(r)
  \/ \E u \in Users : Housekeeping(u)
  \/ Restart

Spec == Init /\ [][Next]_vars

\* The event loop runs every ready coroutine, the agent has a deadline
\* (AGENT_TIMEOUT_SECONDS) and a database call ends or raises.  Nothing makes
\* a client send a request, leave, or use the session routes.
FairSpec == Spec /\ \A r \in Requests : WF_vars(Progress(r))

-----------------------------------------------------------------------------
(* Properties.                                                             *)

\* Every variable has values of its kind.
TypeOK ==
  /\ accounts \in [Users -> {"live", "leaving", "emptied", "deleted"}]
  /\ store \in [Sessions -> Document]
  /\ busy \in SUBSET Users
  /\ phase \in [Requests -> Phase]
  /\ conv \in [Requests -> Sessions \cup {None}]
  /\ seen \in [Requests -> SUBSET Requests]
  /\ task \in [Requests -> Task]
  /\ names \in [Requests -> BOOLEAN]
  /\ wire \in [Requests -> Wire]
  /\ outcome \in [Requests -> Outcome]
  /\ restarts \in Nat

\* "One active agent per account" (shopping.py): whatever is refused, dropped
\* or cancelled, an account never has two execute coroutines at once.
OneAgentPerAccount ==
  \A r1, r2 \in Requests :
    r1 # r2 /\ Running(r1) /\ Running(r2) => Asker[r1] # Asker[r2]

\* A sequence of questions, each followed by its own answer.
Whole(messages) ==
  /\ Len(messages) % 2 = 0
  /\ \A i \in 1..Len(messages) \div 2 :
       /\ messages[2 * i - 1].role = "user"
       /\ messages[2 * i].role = "assistant"
       /\ messages[2 * i - 1].turn = messages[2 * i].turn

\* append_exchange leaves no half turn: a conversation is always a sequence of
\* whole turns, also when $slice has cut it and when its turns are given up by
\* a restart or their updates land late.
WholeTurns == \A s \in Sessions : Whole(store[s].messages)

\* A conversation holds nothing but its owner's turns, whatever session id a
\* request names.
OwnTurnsOnly ==
  \A s \in Sessions : \A r \in TurnsIn(store[s].messages) : Asker[r] = store[s].owner

\* message_count is the number of messages ever saved, and the messages kept
\* are the newest Cap of them: no turn is saved twice or half counted.
CountIsExact ==
  \A s \in Sessions : store[s].state = "live" =>
    LET saved == {r \in Requests : wire[r] = "landed" /\ conv[r] = s} IN
    /\ store[s].count = 2 * Cardinality(saved)
    /\ TurnsIn(store[s].messages) \subseteq saved
    /\ Len(store[s].messages) = IF store[s].count > Cap THEN Cap ELSE store[s].count

\* A client that was told `done` finds the turn in the conversation, unless
\* the conversation was deleted or newer turns have pushed it out.
DoneIsSaved ==
  \A r \in Requests : outcome[r] = "done" =>
    \/ store[conv[r]].state = "deleted"
    \/ r \in TurnsIn(store[conv[r]].messages)
    \/ Len(store[conv[r]].messages) = Cap

\* An answered turn is only dropped with "That conversation was deleted while
\* I was answering." when the conversation really was deleted.
NotFoundMeansDeleted ==
  \A r \in Requests : task[r] = "missing" => store[conv[r]].state = "deleted"

\* The gate keeps read-answer-save isolated: of two turns in a conversation
\* whose clients were both told `done`, the later answered from a history that
\* held the earlier.  (A turn whose client left may still land behind or in
\* front of one that did not see it.)
DoneTurnsAreSeen ==
  \A s \in Sessions : LET messages == store[s].messages IN
    \A i, j \in DOMAIN messages :
      LET earlier == messages[i].turn
          later == messages[j].turn
      IN  i < j /\ earlier # later /\ outcome[earlier] = "done" /\ outcome[later] = "done"
            => earlier \in seen[later]

\* The 409 says "I'm still finishing your last answer": an account is only in
\* `_busy` while a request of it is being handled.
BusyMeansAnswering ==
  \A u \in busy : \E r \in Requests : Asker[r] = u /\ (Holding(r) \/ Running(r))

\* delete_account: "The conversations go with the account."
DeletedAccountKeepsNothing ==
  \A u \in Users : accounts[u] = "deleted" => \A s \in Sessions : ~Owns(u, s)

\* A request that got past authentication gets its answer or its error.
EveryRequestEnds ==
  \A r \in Requests : phase[r] = "authed" ~> phase[r] = "ended"

\* The gate of an account reopens.
GateReopens ==
  \A u \in Users : u \in busy ~> u \notin busy

-----------------------------------------------------------------------------
(* What the turns promise, without handlers, tasks and the database.       *)

\* The turns a sequence of messages holds.
TurnsOf(messages) == [i \in 1..Len(messages) \div 2 |-> messages[2 * i].turn]

chatsBar ==
  [s \in Sessions |-> [state |-> store[s].state, owner |-> store[s].owner,
                       turns |-> TurnsOf(store[s].messages)]]
stageBar ==
  [r \in Requests |-> IF task[r] = "none" THEN "waiting" ELSE IF Running(r) THEN "running" ELSE "over"]
savedBar == {r \in Requests : wire[r] = "landed"}

Ledger == INSTANCE TurnLedger WITH
  Turns <- Requests, AskedBy <- Asker, Keep <- Cap \div 2,
  chats <- chatsBar, stage <- stageBar, saved <- savedBar

\* The code implements the ledger.
ImplementsLedger == Ledger!Spec

=============================================================================
