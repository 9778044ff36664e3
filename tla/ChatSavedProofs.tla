---------------------------- MODULE ChatSavedProofs ----------------------------
(***************************************************************************)
(* What becomes of a turn, for every set of accounts, conversations and    *)
(* requests: the count of a conversation is exact, a turn that was told    *)
(* `done` is kept, one that was told its conversation is gone was told the *)
(* truth, and turns that were told `done` saw one another.  The same facts *)
(* make every step one of the abstract ledger, or none.                    *)
(***************************************************************************)
EXTENDS ChatTurnsProofs, FiniteSetTheorems

(* What one step may do to a document, and to the conversation of a turn.  *)

\* The document keeps what it holds; its title may change.
KeepsTurns(s) ==
  /\ store'[s].state = store[s].state
  /\ store'[s].owner = store[s].owner
  /\ store'[s].messages = store[s].messages
  /\ store'[s].count = store[s].count

Opens(s) ==
  /\ store[s].state = "free"
  /\ \E u \in Users, title \in Title : store'[s] = NewDocument(u, title)

Removes(s) == store[s].state = "live" /\ store'[s] = Blank("deleted")

Saves(r, s) ==
  /\ Land(r)
  /\ conv[r] = s
  /\ Owns(Asker[r], s)
  /\ store'[s] = Pushed(store[s], r, names[r])

\* A document is opened, gets a turn, is removed, or keeps its turns.
DocumentStep(s) ==
  KeepsTurns(s) \/ Opens(s) \/ Removes(s) \/ \E r \in Requests : Saves(r, s)

\* The conversation of a request no longer changes.
Settled(r) == task[r] # "none" \/ phase[r] \in {"ready", "serving", "closing"}

LEMMA NewDocumentSteps ==
  ASSUME TypeOK, NEW s \in Sessions, store[s].state = "free",
         NEW u \in Users, NEW title \in Title,
         store' = [store EXCEPT ![s] = NewDocument(u, title)]
  PROVE  \A s2 \in Sessions : DocumentStep(s2)
  <1> SUFFICES ASSUME NEW s2 \in Sessions PROVE DocumentStep(s2)
    OBVIOUS
  <1>1. CASE s2 = s
    BY <1>1 DEF DocumentStep, Opens, TypeOK
  <1>2. CASE s2 # s
    BY <1>2 DEF DocumentStep, KeepsTurns, TypeOK
  <1> QED BY <1>1, <1>2

LEMMA DocumentSteps ==
  TypeOK /\ [Next]_vars => \A s \in Sessions : DocumentStep(s)
  <1> SUFFICES ASSUME TypeOK, [Next]_vars PROVE \A s \in Sessions : DocumentStep(s)
    OBVIOUS
  <1>1. CASE UNCHANGED store
    BY <1>1 DEF DocumentStep, KeepsTurns
  <1>2. ASSUME NEW r \in Requests, Land(r) PROVE \A s \in Sessions : DocumentStep(s)
    <2>1. CASE Owns(Asker[r], conv[r]) /\ conv[r] \in Sessions
      <3> SUFFICES ASSUME NEW s \in Sessions PROVE DocumentStep(s)
        OBVIOUS
      <3>1. store' = [store EXCEPT ![conv[r]] = Pushed(store[conv[r]], r, names[r])]
        BY <1>2, <2>1 DEF Land
      <3>2. CASE s = conv[r]
        BY <1>2, <2>1, <3>1, <3>2 DEF DocumentStep, Saves, TypeOK
      <3>3. CASE s # conv[r]
        BY <3>1, <3>3 DEF DocumentStep, KeepsTurns, TypeOK
      <3> QED BY <3>2, <3>3
    <2>2. CASE ~(Owns(Asker[r], conv[r]) /\ conv[r] \in Sessions)
      BY <1>1, <1>2, <2>2 DEF Land, TypeOK
    <2> QED BY <2>1, <2>2
  <1>3. ASSUME NEW r \in Requests, Progress(r) PROVE \A s \in Sessions : DocumentStep(s)
    <2>1. CASE OpenNew(r)
      <3>1. PICK s \in Sessions :
              /\ store[s].state = "free"
              /\ store' = [store EXCEPT ![s] = NewDocument(Asker[r], "New chat")]
        BY <2>1 DEF OpenNew
      <3> QED BY <3>1, NewDocumentSteps, AskerAssumption DEF Title
    <2>2. CASE OpenFails(r)
      <3>1. CASE UNCHANGED store
        BY <1>1, <3>1
      <3>2. CASE ~UNCHANGED store
        <4>1. PICK s \in Sessions :
                /\ store[s].state = "free"
                /\ store' = [store EXCEPT ![s] = NewDocument(Asker[r], "New chat")]
          BY <2>2, <3>2 DEF OpenFails
        <4> QED BY <4>1, NewDocumentSteps, AskerAssumption DEF Title
      <3> QED BY <3>1, <3>2
    <2>3. CASE Land(r)
      BY <1>2, <2>3
    <2>4. CASE ~(OpenNew(r) \/ OpenFails(r) \/ Land(r))
      BY <1>1, <1>3, <2>4 DEF Progress, Refuse, Admit, OpenExisting, OpenMissing, Start,
         FindSession, Acknowledge, Fail, Cancelled, Reply, Report, Release
    <2> QED BY <2>1, <2>2, <2>3, <2>4
  <1>4. ASSUME NEW r \in Requests, Surprise(r) PROVE UNCHANGED store
    BY <1>4 DEF Surprise, Authenticate, Lose, Disconnect, Interrupt, LeaveEarly
  <1>5. ASSUME NEW u \in Users, Housekeeping(u) PROVE \A s \in Sessions : DocumentStep(s)
    <2>1. CASE CreateSession(u)
      <3>1. PICK s \in Sessions, title \in {"New chat", "given"} :
              /\ store[s].state = "free"
              /\ store' = [store EXCEPT ![s] = NewDocument(u, title)]
        BY <2>1 DEF CreateSession
      <3> QED BY <3>1, NewDocumentSteps DEF Title
    <2>2. ASSUME NEW s \in Sessions, RenameSession(u, s)
          PROVE  \A s2 \in Sessions : DocumentStep(s2)
      BY <2>2 DEF RenameSession, DocumentStep, KeepsTurns, TypeOK, Document
    <2>3. ASSUME NEW s \in Sessions, DeleteSession(u, s)
          PROVE  \A s2 \in Sessions : DocumentStep(s2)
      BY <2>3 DEF DeleteSession, Owns, DocumentStep, KeepsTurns, Removes, TypeOK
    <2>4. CASE DeleteAllSessions(u)
      BY <2>4 DEF DeleteAllSessions, Owns, DocumentStep, KeepsTurns, Removes, TypeOK
    <2>5. CASE BeginDeletion(u) \/ DeleteUser(u) \/ DeletionFails(u)
      BY <1>1, <2>5 DEF BeginDeletion, DeleteUser, DeletionFails
    <2> QED BY <1>5, <2>1, <2>2, <2>3, <2>4, <2>5 DEF Housekeeping
  <1>6. CASE Restart \/ UNCHANGED vars
    BY <1>1, <1>6 DEF Restart, vars
  <1> QED BY <1>1, <1>3, <1>4, <1>5, <1>6 DEF Next

-----------------------------------------------------------------------------
(* A turn, its update and its verdict agree.                               *)

\* An update is sent once the turn is found its conversation, a saved turn is
\* one whose update has landed, and `done` is said of saved turns only.
TurnInv ==
  \A r \in Requests :
    /\ phase[r] \in {"idle", "authed", "opening", "ready"} => task[r] = "none"
    /\ wire[r] # "none" => task[r] \notin {"none", "answering"}
    /\ task[r] = "saving" => wire[r] \in {"sent", "landed", "unmatched"}
    /\ task[r] = "saved" => wire[r] = "landed"
    /\ outcome[r] = "done" => task[r] = "saved" /\ phase[r] \in {"closing", "ended"}

LEMMA TurnInit == Init => TurnInv
  BY DEF Init, TurnInv

LEMMA TurnNext == TypeOK /\ TurnInv /\ [Next]_vars => TurnInv'
  <1> SUFFICES ASSUME TypeOK, TurnInv, [Next]_vars PROVE TurnInv'
    OBVIOUS
  <1> USE DEF TypeOK, EndWith, TurnInv, Running
  <1>1. ASSUME NEW r \in Requests, Progress(r) PROVE TurnInv'
    <2>1. CASE Refuse(r)
      BY <2>1 DEF Refuse
    <2>2. CASE Admit(r)
      BY <2>2 DEF Admit
    <2>3. CASE OpenNew(r)
      <3>1. /\ phase[r] = "opening" /\ phase' = [phase EXCEPT ![r] = "ready"]
            /\ UNCHANGED <<task, wire, outcome>>
        BY <2>3 DEF OpenNew
      <3> QED BY <3>1
    <2>4. CASE OpenExisting(r)
      BY <2>4 DEF OpenExisting
    <2>5. CASE OpenMissing(r)
      BY <2>5 DEF OpenMissing
    <2>6. CASE OpenFails(r)
      BY <2>6 DEF OpenFails
    <2>7. CASE Start(r)
      BY <2>7 DEF Start
    <2>8. CASE FindSession(r)
      BY <2>8 DEF FindSession
    <2>9. CASE Land(r)
      BY <2>9 DEF Land
    <2>10. CASE Acknowledge(r)
      BY <2>10 DEF Acknowledge
    <2>11. CASE Fail(r)
      BY <2>11 DEF Fail
    <2>12. CASE Cancelled(r)
      BY <2>12 DEF Cancelled, Cancelling
    <2>13. CASE Reply(r)
      BY <2>13 DEF Reply, Verdict
    <2>14. CASE Report(r)
      BY <2>14 DEF Report, Verdict
    <2>15. CASE Release(r)
      BY <2>15 DEF Release
    <2> QED BY <1>1, <2>1, <2>2, <2>3, <2>4, <2>5, <2>6, <2>7, <2>8, <2>9, <2>10,
               <2>11, <2>12, <2>13, <2>14, <2>15 DEF Progress
  <1>2. ASSUME NEW r \in Requests, Surprise(r) PROVE TurnInv'
    <2>1. CASE Authenticate(r)
      BY <2>1 DEF Authenticate
    <2>2. CASE Lose(r)
      BY <2>2 DEF Lose
    <2>3. CASE Disconnect(r)
      BY <2>3 DEF Disconnect
    <2>4. CASE Interrupt(r)
      BY <2>4 DEF Interrupt
    <2>5. CASE LeaveEarly(r)
      BY <2>5 DEF LeaveEarly
    <2> QED BY <1>2, <2>1, <2>2, <2>3, <2>4, <2>5 DEF Surprise
  <1>3. ASSUME NEW u \in Users, Housekeeping(u) PROVE TurnInv'
    <2>1. UNCHANGED reqVars
      BY <1>3 DEF Housekeeping, CreateSession, RenameSession, DeleteSession,
                  BeginDeletion, DeleteAllSessions, DeleteUser, DeletionFails
    <2> QED BY <2>1 DEF reqVars
  <1>4. CASE Restart
    BY <1>4 DEF Restart
  <1>5. CASE UNCHANGED vars
    BY <1>5 DEF vars, reqVars
  <1> QED BY <1>1, <1>2, <1>3, <1>4, <1>5 DEF Next

-----------------------------------------------------------------------------
(* What one step may do to a request.                                      *)

\* The request was told `done`, or still can be.
Promising(r) == phase[r] = "serving" \/ outcome[r] = "done"

\* The verdict on a saved turn is given, and the store is not touched by it.
ToldDone(r) ==
  phase[r] = "serving" /\ task[r] = "saved" /\ phase'[r] \in {"closing", "ended"} /\ UNCHANGED store

\* The turn was told, or is about to be told, that its conversation is gone.
Gone(r) == task[r] = "missing" \/ wire[r] = "unmatched"

RequestStep(r) ==
  /\ task[r] # "none" => task'[r] # "none"
  /\ Gone(r)' =>
       \/ Gone(r)
       \/ task[r] # "none" /\ ~Owns(Asker[r], conv[r]) /\ UNCHANGED <<store, conv>>
  /\ Settled(r)' =>
       \/ Settled(r) /\ conv'[r] = conv[r]
       \/ OpenNew(r) \/ OpenExisting(r)
  /\ phase'[r] \in {"ready", "serving"} =>
       phase[r] \in {"ready", "serving"} \/ OpenNew(r) \/ OpenExisting(r)
  /\ wire[r] = "landed" => wire'[r] = "landed"
  /\ wire'[r] = "landed" => wire[r] = "landed" \/ (Land(r) /\ Owns(Asker[r], conv[r]))
  /\ outcome[r] = "done" /\ phase[r] \in {"closing", "ended"} => outcome'[r] = "done"
  /\ outcome'[r] = "done" => outcome[r] = "done" \/ ToldDone(r)
  /\ Promising(r)' => Promising(r) \/ Start(r)
  /\ seen'[r] = seen[r] \/ OpenExisting(r)

LEMMA RequestSteps ==
  TypeOK /\ TurnInv /\ [Next]_vars => \A r \in Requests : RequestStep(r)
  <1> SUFFICES ASSUME TypeOK, TurnInv, [Next]_vars, NEW r \in Requests PROVE RequestStep(r)
    OBVIOUS
  <1> USE DEF TypeOK, EndWith, RequestStep, Settled, Gone, Promising, ToldDone, Running
  <1>1. ASSUME NEW q \in Requests, Progress(q) PROVE RequestStep(r)
    <2>1. CASE Refuse(q)
      BY <2>1 DEF Refuse
    <2>2. CASE Admit(q)
      <3>1. task[q] = "none" /\ phase' = [phase EXCEPT ![q] = "opening"]
        BY <2>2 DEF Admit, TurnInv
      <3>2. q # r => conv'[r] = conv[r]
        BY <2>2 DEF Admit
      <3>3. UNCHANGED <<seen, task, wire, outcome>>
        BY <2>2 DEF Admit
      <3> QED BY <3>1, <3>2, <3>3
    <2>3. CASE OpenNew(q)
      <3>1. CASE q = r
        <4>1. phase[r] = "opening" /\ phase'[r] = "ready" /\ UNCHANGED <<task, seen, wire, outcome>>
          BY <2>3, <3>1 DEF OpenNew
        <4> QED BY <2>3, <3>1, <4>1
      <3>2. CASE q # r
        <4>1. /\ phase'[r] = phase[r] /\ conv'[r] = conv[r]
              /\ UNCHANGED <<task, seen, wire, outcome>>
          BY <2>3, <3>2 DEF OpenNew
        <4> QED BY <4>1
      <3> QED BY <3>1, <3>2
    <2>4. CASE OpenExisting(q)
      <3>1. CASE q = r
        <4>1. /\ phase[r] = "opening" /\ phase'[r] = "ready"
              /\ UNCHANGED <<conv, task, wire, outcome>>
          BY <2>4, <3>1 DEF OpenExisting
        <4> QED BY <2>4, <3>1, <4>1
      <3>2. CASE q # r
        <4>1. /\ phase'[r] = phase[r] /\ seen'[r] = seen[r]
              /\ UNCHANGED <<conv, task, wire, outcome>>
          BY <2>4, <3>2 DEF OpenExisting
        <4> QED BY <4>1
      <3> QED BY <3>1, <3>2
    <2>5. CASE OpenMissing(q)
      BY <2>5 DEF OpenMissing
    <2>6. CASE OpenFails(q)
      BY <2>6 DEF OpenFails
    <2>7. CASE Start(q)
      BY <2>7 DEF Start
    <2>8. CASE FindSession(q)
      <3>1. wire[q] = "none"
        BY <2>8 DEF FindSession, TurnInv
      <3>2. /\ task[q] = "answering"
            /\ \/ task' = [task EXCEPT ![q] = "saving"]
               \/ task' = [task EXCEPT ![q] = "missing"] /\ ~Owns(Asker[q], conv[q])
            /\ wire' = wire \/ wire' = [wire EXCEPT ![q] = "sent"]
            /\ UNCHANGED <<store, phase, conv, seen, outcome>>
        BY <2>8 DEF FindSession
      <3> QED BY <3>1, <3>2
    <2>9. CASE Land(q)
      BY <2>9 DEF Land, TurnInv
    <2>10. CASE Acknowledge(q)
      BY <2>10 DEF Acknowledge
    <2>11. CASE Fail(q)
      BY <2>11 DEF Fail
    <2>12. CASE Cancelled(q)
      BY <2>12 DEF Cancelled, Cancelling
    <2>13. CASE Reply(q)
      BY <2>13 DEF Reply, Verdict
    <2>14. CASE Report(q)
      BY <2>14 DEF Report, Verdict
    <2>15. CASE Release(q)
      BY <2>15 DEF Release
    <2> QED BY <1>1, <2>1, <2>2, <2>3, <2>4, <2>5, <2>6, <2>7, <2>8, <2>9, <2>10,
               <2>11, <2>12, <2>13, <2>14, <2>15 DEF Progress
  <1>2. ASSUME NEW q \in Requests, Surprise(q) PROVE RequestStep(r)
    <2>1. CASE Authenticate(q)
      BY <2>1 DEF Authenticate
    <2>2. CASE Lose(q)
      BY <2>2 DEF Lose
    <2>3. CASE Disconnect(q)
      BY <2>3 DEF Disconnect
    <2>4. CASE Interrupt(q)
      BY <2>4 DEF Interrupt
    <2>5. CASE LeaveEarly(q)
      BY <2>5 DEF LeaveEarly
    <2> QED BY <1>2, <2>1, <2>2, <2>3, <2>4, <2>5 DEF Surprise
  <1>3. ASSUME NEW u \in Users, Housekeeping(u) PROVE RequestStep(r)
    <2>1. UNCHANGED reqVars
      BY <1>3 DEF Housekeeping, CreateSession, RenameSession, DeleteSession,
                  BeginDeletion, DeleteAllSessions, DeleteUser, DeletionFails
    <2> QED BY <2>1 DEF reqVars
  <1>4. CASE Restart
    BY <1>4 DEF Restart
  <1>5. CASE UNCHANGED vars
    BY <1>5 DEF vars, reqVars
  <1> QED BY <1>1, <1>2, <1>3, <1>4, <1>5 DEF Next

-----------------------------------------------------------------------------
(* The conversation of a turn.                                             *)

LEMMA PushedFields ==
  ASSUME NEW d \in Document, NEW r \in Requests, NEW titled \in BOOLEAN
  PROVE  /\ Pushed(d, r, titled).state = d.state
         /\ Pushed(d, r, titled).owner = d.owner
         /\ Pushed(d, r, titled).count = d.count + 2
         /\ Pushed(d, r, titled).messages = Newest(Cap, d.messages \o Pair(r))
  BY DEF Pushed, Document

LEMMA FreshFields ==
  /\ \A state : /\ Blank(state).state = state
                /\ Blank(state).messages = <<>>
                /\ Blank(state).count = 0
  /\ \A u, title : /\ NewDocument(u, title).state = "live"
                   /\ NewDocument(u, title).owner = u
                   /\ NewDocument(u, title).messages = <<>>
                   /\ NewDocument(u, title).count = 0
  BY DEF Blank, NewDocument

\* The conversation of a settled request is its own account's or was deleted,
\* and one that is not live holds nothing.
ConvInv ==
  /\ \A r \in Requests : Settled(r) =>
       /\ conv[r] \in Sessions
       /\ Owns(Asker[r], conv[r]) \/ store[conv[r]].state = "deleted"
  /\ \A s \in Sessions :
       store[s].state # "live" => store[s].messages = <<>> /\ store[s].count = 0

LEMMA ConvInit == Init => ConvInv
  BY FreshFields DEF Init, ConvInv, Settled

LEMMA ConvNext == TypeOK /\ TurnInv /\ ConvInv /\ [Next]_vars => ConvInv'
  <1> SUFFICES ASSUME TypeOK, TurnInv, ConvInv, [Next]_vars PROVE ConvInv'
    OBVIOUS
  <1>1. \A s \in Sessions : store[s] \in Document
    BY DEF TypeOK
  <1>2. ASSUME NEW s \in Sessions
        PROVE  /\ store[s].state = "deleted" => store'[s].state = "deleted"
               /\ store[s].state = "live" =>
                    \/ store'[s].state = "live" /\ store'[s].owner = store[s].owner
                    \/ store'[s].state = "deleted"
               /\ store'[s].state # "live" => store'[s].messages = <<>> /\ store'[s].count = 0
    <2>1. DocumentStep(s)
      BY DocumentSteps
    <2>2. CASE KeepsTurns(s)
      BY <2>2 DEF KeepsTurns, ConvInv
    <2>3. CASE Opens(s)
      BY <2>3, FreshFields DEF Opens
    <2>4. CASE Removes(s)
      BY <2>4, FreshFields DEF Removes
    <2>5. ASSUME NEW r \in Requests, Saves(r, s)
          PROVE  store'[s].state = "live" /\ store'[s].owner = store[s].owner
                 /\ store[s].state = "live"
      BY <1>1, <2>5, PushedFields DEF Saves, Owns, TypeOK
    <2> QED BY <2>1, <2>2, <2>3, <2>4, <2>5 DEF DocumentStep
  <1>3. ASSUME NEW r \in Requests, Settled(r)'
        PROVE  /\ conv'[r] \in Sessions
               /\ Owns(Asker[r], conv[r])' \/ store'[conv'[r]].state = "deleted"
    <2>1. RequestStep(r)
      BY RequestSteps
    <2>2. CASE Settled(r) /\ conv'[r] = conv[r]
      BY <1>2, <2>2 DEF ConvInv, Owns
    <2>3. CASE OpenNew(r)
      <3>1. PICK s \in Sessions :
              /\ store' = [store EXCEPT ![s] = NewDocument(Asker[r], "New chat")]
              /\ conv' = [conv EXCEPT ![r] = s]
        BY <2>3 DEF OpenNew
      <3>2. conv'[r] = s /\ store'[s] = NewDocument(Asker[r], "New chat")
        BY <3>1 DEF TypeOK
      <3>3. store'[s].state = "live" /\ store'[s].owner = Asker[r]
        BY <3>2 DEF NewDocument, Blank
      <3> QED BY <3>2, <3>3 DEF Owns
    <2>4. CASE OpenExisting(r)
      BY <2>4 DEF OpenExisting, Owns, TypeOK
    <2> QED BY <1>3, <2>1, <2>2, <2>3, <2>4 DEF RequestStep
  <1> QED BY <1>2, <1>3 DEF ConvInv

\* "That conversation was deleted while I was answering.": it was.
GoneInv == \A r \in Requests : Gone(r) => store[conv[r]].state = "deleted"

LEMMA GoneInit == Init => GoneInv
  BY DEF Init, GoneInv, Gone

LEMMA GoneNext == TypeOK /\ TurnInv /\ ConvInv /\ GoneInv /\ [Next]_vars => GoneInv'
  <1> SUFFICES ASSUME TypeOK, TurnInv, ConvInv, GoneInv, [Next]_vars,
                      NEW r \in Requests, Gone(r)'
               PROVE  store'[conv'[r]].state = "deleted"
    BY DEF GoneInv
  <1>1. RequestStep(r)
    BY RequestSteps
  <1>2. CASE Gone(r)
    <2>1. task[r] # "none" /\ ~OpenNew(r) /\ ~OpenExisting(r)
      BY <1>2 DEF Gone, TurnInv, OpenNew, OpenExisting
    <2>2. conv'[r] = conv[r] /\ conv[r] \in Sessions
      BY <1>1, <2>1 DEF RequestStep, Settled, ConvInv
    <2>3. store[conv[r]].state = "deleted"
      BY <1>2 DEF GoneInv
    <2>4. store'[conv[r]].state = "deleted"
      BY <2>2, <2>3, DocumentSteps DEF DocumentStep, KeepsTurns, Opens, Removes, Saves, Owns
    <2> QED BY <2>2, <2>4
  <1>3. CASE ~Gone(r)
    BY <1>1, <1>3 DEF RequestStep, Settled, ConvInv
  <1> QED BY <1>2, <1>3

\* An answered turn is only dropped for a missing conversation when its
\* account really deleted it: no interleaving of the lookup, the update and
\* the session routes takes a conversation that is there for one that is not.
THEOREM GoneIsGone == Spec => []NotFoundMeansDeleted
  <1>1. GoneInv => NotFoundMeansDeleted
    BY DEF GoneInv, Gone, NotFoundMeansDeleted
  <1> QED BY <1>1, TypeInit, TypeNext, TurnInit, TurnNext, ConvInit, ConvNext,
             GoneInit, GoneNext, PTL DEF Spec

-----------------------------------------------------------------------------
(* What $push with $slice: -Cap leaves of the messages.                    *)

\* A message of turn e stands in front of one of turn l.
Before(messages, e, l) ==
  \E i, j \in DOMAIN messages : i < j /\ messages[i].turn = e /\ messages[j].turn = l

\* How many of q's messages are cut off.
Cut(q) == IF Len(q) <= Cap THEN 0 ELSE Len(q) - Cap

LEMMA NewestAt ==
  ASSUME NEW q \in Seq(Message)
  PROVE  /\ Newest(Cap, q) \in Seq(Message)
         /\ Len(q) \in Nat /\ Cut(q) \in 0..Len(q)
         /\ Len(Newest(Cap, q)) = Len(q) - Cut(q)
         /\ \A i \in 1..Len(q) - Cut(q) : Newest(Cap, q)[i] = q[Cut(q) + i]
  <1>1. Len(q) \in Nat /\ Cap \in Nat \ {0}
    BY LenProperties, CapAssumption
  <1>2. Newest(Cap, q) \in Seq(Message)
    BY <1>1, NewestType
  <1>3. CASE Len(q) <= Cap
    <2>1. Newest(Cap, q) = q /\ Cut(q) = 0
      BY <1>3 DEF Newest, Cut
    <2>2. \A i \in 1..Len(q) - Cut(q) : Cut(q) + i = i
      BY <1>1, <2>1
    <2> QED BY <1>1, <1>2, <2>1, <2>2
  <1>4. CASE ~(Len(q) <= Cap)
    <2> DEFINE w == SubSeq(q, Len(q) - Cap + 1, Len(q))
    <2>1. Len(q) - Cap + 1 \in Int /\ Len(q) \in Int /\ Len(q) - Cap + 1 <= Len(q)
      BY <1>1, <1>4
    <2>2. \A i \in Len(q) - Cap + 1..Len(q) : q[i] \in Message
      BY ElementOfSeq, <1>1, <1>4
    <2>3. /\ Len(w) = Len(q) - (Len(q) - Cap + 1) + 1
          /\ \A i \in 1..Len(q) - (Len(q) - Cap + 1) + 1 : w[i] = q[(Len(q) - Cap + 1) + i - 1]
      BY <2>1, <2>2, SubSeqProperties
    <2>4. Newest(Cap, q) = w /\ Cut(q) = Len(q) - Cap
      BY <1>4 DEF Newest, Cut
    <2> HIDE DEF w
    <2>5. Len(q) - Cut(q) = Cap /\ Cut(q) \in 0..Len(q)
      BY <1>1, <1>4, <2>4
    <2>6. Len(w) = Cap /\ \A i \in 1..Cap : w[i] = q[Cut(q) + i]
      BY <1>1, <1>4, <2>3, <2>4
    <2> QED BY <1>1, <1>2, <2>4, <2>5, <2>6
  <1> QED BY <1>3, <1>4

\* p holds the messages of m without the first k, and then r's two.
Shifted(m, r, p, k) ==
  /\ Len(m) \in Nat /\ DOMAIN m = 1..Len(m) /\ DOMAIN p = 1..Len(p)
  /\ Len(m) + 2 <= Cap => k = 0
  /\ Len(m) + 2 > Cap => k = Len(m) + 2 - Cap
  /\ Len(p) = Len(m) + 2 - k
  /\ \A i \in 1..Len(p) : k + i <= Len(m) => p[i] = m[k + i]
  /\ \A i \in 1..Len(p) : k + i > Len(m) => p[i].turn = r

LEMMA PushedAt ==
  ASSUME NEW m \in Seq(Message), NEW r \in Requests
  PROVE  \E k \in Nat : Shifted(m, r, Newest(Cap, m \o Pair(r)), k)
  <1> DEFINE q == m \o Pair(r)
             p == Newest(Cap, q)
             k == Cut(q)
  <1>1. Pair(r) \in Seq(Message) /\ Len(Pair(r)) = 2
    BY PairType
  <1>2. /\ q \in Seq(Message)
        /\ Len(q) = Len(m) + Len(Pair(r))
        /\ \A i \in 1..Len(m) + Len(Pair(r)) :
             q[i] = IF i <= Len(m) THEN m[i] ELSE Pair(r)[i - Len(m)]
    BY <1>1, ConcatProperties
  <1>3. /\ p \in Seq(Message)
        /\ k \in 0..Len(q)
        /\ Len(p) = Len(q) - k
        /\ \A i \in 1..Len(q) - k : p[i] = q[k + i]
    BY <1>2, NewestAt
  <1>4. Len(m) \in Nat /\ DOMAIN m = 1..Len(m) /\ DOMAIN p = 1..Len(p) /\ Cap \in Nat
    BY <1>3, LenProperties, CapAssumption
  <1>5. k = IF Len(q) <= Cap THEN 0 ELSE Len(q) - Cap
    BY DEF Cut
  <1>6. Pair(r)[1].turn = r /\ Pair(r)[2].turn = r
    BY DEF Pair
  <1> HIDE DEF q, p, k
  <1>7. /\ k \in Nat /\ Len(p) = Len(m) + 2 - k
        /\ Len(m) + 2 <= Cap => k = 0
        /\ Len(m) + 2 > Cap => k = Len(m) + 2 - Cap
    BY <1>1, <1>2, <1>3, <1>4, <1>5
  <1>8. ASSUME NEW i \in 1..Len(p)
        PROVE  /\ k + i <= Len(m) => p[i] = m[k + i]
               /\ k + i > Len(m) => p[i].turn = r
    <2>1. k + i \in 1..Len(m) + 2 /\ p[i] = q[k + i]
      BY <1>1, <1>2, <1>3, <1>4, <1>7
    <2>2. CASE k + i <= Len(m)
      BY <1>1, <1>2, <1>4, <1>7, <2>1, <2>2
    <2>3. CASE k + i > Len(m)
      <3>1. k + i - Len(m) = 1 \/ k + i - Len(m) = 2
        BY <1>4, <1>7, <2>1, <2>3
      <3>2. p[i] = Pair(r)[k + i - Len(m)]
        BY <1>1, <1>2, <1>4, <1>7, <2>1, <2>3
      <3>3. p[i].turn = r
        BY <1>6, <3>1, <3>2
      <3> QED BY <1>4, <1>7, <2>3, <3>3
    <2> QED BY <1>4, <1>7, <2>2, <2>3
  <1>9. k \in Nat /\ Shifted(m, r, p, k)
    BY <1>4, <1>7, <1>8 DEF Shifted
  <1> QED BY <1>9 DEF p, q

\* A pushed turn is there, it is the newest, and it pushes out another one
\* only when the conversation is full.
LEMMA PushedTurns ==
  ASSUME NEW m \in Seq(Message), NEW r \in Requests,
         NEW p, p = Newest(Cap, m \o Pair(r))
  PROVE  /\ r \in TurnsIn(p)
         /\ TurnsIn(p) \subseteq TurnsIn(m) \cup {r}
         /\ Len(p) = Cap \/ TurnsIn(m) \subseteq TurnsIn(p)
         /\ Len(p) = IF Len(m) + 2 > Cap THEN Cap ELSE Len(m) + 2
         /\ \A e, l \in Requests : Before(p, e, l) =>
              \/ Before(m, e, l)
              \/ l = r /\ e \in TurnsIn(m) \cup {r}
  <1>0. PICK k \in Nat : Shifted(m, r, p, k)
    BY PushedAt
  <1>1. /\ Len(m) \in Nat /\ DOMAIN m = 1..Len(m) /\ DOMAIN p = 1..Len(p)
        /\ Len(m) + 2 <= Cap => k = 0
        /\ Len(m) + 2 > Cap => k = Len(m) + 2 - Cap
        /\ Len(p) = Len(m) + 2 - k
        /\ \A i \in 1..Len(p) : k + i <= Len(m) => p[i] = m[k + i]
        /\ \A i \in 1..Len(p) : k + i > Len(m) => p[i].turn = r
    BY <1>0 DEF Shifted
  <1>2. Cap \in Nat /\ Cap >= 2
    BY CapAssumption
  <1>3. r \in TurnsIn(p)
    <2>1. Len(p) \in 1..Len(p) /\ k + Len(p) > Len(m)
      BY <1>1, <1>2
    <2>2. Len(p) \in DOMAIN p /\ p[Len(p)].turn = r
      BY <1>1, <2>1
    <2> QED BY <2>2 DEF TurnsIn
  <1>4. ASSUME NEW i \in DOMAIN p
        PROVE  \/ k + i \in DOMAIN m /\ p[i] = m[k + i] /\ k + i <= Len(m)
               \/ p[i].turn = r /\ k + i > Len(m)
    BY <1>1
  <1>5. TurnsIn(p) \subseteq TurnsIn(m) \cup {r}
    BY <1>4 DEF TurnsIn
  <1>6. ASSUME Len(p) # Cap PROVE TurnsIn(m) \subseteq TurnsIn(p)
    <2>1. k = 0 /\ \A i \in DOMAIN m : i \in DOMAIN p /\ p[i] = m[i]
      BY <1>1, <1>2, <1>6
    <2> QED BY <2>1 DEF TurnsIn
  <1>7. Len(p) = IF Len(m) + 2 > Cap THEN Cap ELSE Len(m) + 2
    BY <1>1, <1>2
  <1>8. ASSUME NEW e \in Requests, NEW l \in Requests, Before(p, e, l)
        PROVE  Before(m, e, l) \/ (l = r /\ e \in TurnsIn(m) \cup {r})
    <2>1. PICK i, j \in DOMAIN p : i < j /\ p[i].turn = e /\ p[j].turn = l
      BY <1>8 DEF Before
    <2>2. e \in TurnsIn(m) \cup {r}
      BY <1>5, <2>1 DEF TurnsIn
    <2>3. CASE k + j <= Len(m)
      <3>1. k + i <= Len(m) /\ k + i < k + j
        BY <1>1, <2>1, <2>3
      <3>2. /\ k + i \in DOMAIN m /\ p[i] = m[k + i]
            /\ k + j \in DOMAIN m /\ p[j] = m[k + j]
        BY <1>1, <2>1, <2>3, <3>1
      <3> QED BY <2>1, <3>1, <3>2 DEF Before
    <2>4. CASE ~(k + j <= Len(m))
      BY <1>4, <2>1, <2>2, <2>4
    <2> QED BY <2>3, <2>4
  <1> QED BY <1>3, <1>5, <1>6, <1>7, <1>8

-----------------------------------------------------------------------------
(* The turns that were saved in a conversation, and its count.             *)

\* The turns whose update took effect on conversation s.
SavedIn(s) == {r \in Requests : wire[r] = "landed" /\ conv[r] = s}

LEMMA LandedStays ==
  ASSUME TypeOK, TurnInv, [Next]_vars, NEW r \in Requests, wire[r] = "landed"
  PROVE  wire'[r] = "landed" /\ conv'[r] = conv[r] /\ Settled(r)
  <1>1. task[r] # "none" /\ ~OpenNew(r) /\ ~OpenExisting(r)
    BY DEF TurnInv, OpenNew, OpenExisting
  <1>2. RequestStep(r)
    BY RequestSteps
  <1> QED BY <1>1, <1>2 DEF RequestStep, Settled

LEMMA SavedSteps ==
  ASSUME TypeOK, TurnInv, [Next]_vars, NEW s \in Sessions
  PROVE  \/ /\ SavedIn(s)' = SavedIn(s)
            /\ \A r \in Requests : ~Saves(r, s)
         \/ \E r \in Requests :
              Saves(r, s) /\ r \notin SavedIn(s) /\ SavedIn(s)' = SavedIn(s) \cup {r}
  <1>1. \A q \in Requests : q \in SavedIn(s) => q \in SavedIn(s)'
    BY LandedStays DEF SavedIn
  <1>2. ASSUME NEW r \in Requests, Saves(r, s)
        PROVE  r \notin SavedIn(s) /\ SavedIn(s)' = SavedIn(s) \cup {r}
    <2>1. /\ wire[r] = "sent" /\ conv[r] = s /\ conv' = conv
          /\ wire' = [wire EXCEPT ![r] = "landed"]
      BY <1>2 DEF Saves, Land
    <2>2. r \notin SavedIn(s)
      BY <2>1 DEF SavedIn
    <2>3. \A q \in Requests : q \in SavedIn(s)' <=> q \in SavedIn(s) \/ q = r
      BY <2>1 DEF SavedIn, TypeOK
    <2>4. SavedIn(s) \subseteq Requests /\ SavedIn(s)' \subseteq Requests
      BY DEF SavedIn
    <2> QED BY <2>2, <2>3, <2>4
  <1>3. ASSUME \A r \in Requests : ~Saves(r, s)
        PROVE  SavedIn(s)' = SavedIn(s)
    <2>1. ASSUME NEW q \in Requests, q \in SavedIn(s)'
          PROVE  q \in SavedIn(s)
      <3>1. wire'[q] = "landed" /\ conv'[q] = s
        BY <2>1 DEF SavedIn
      <3>2. CASE wire[q] = "landed"
        BY <3>1, <3>2, LandedStays DEF SavedIn
      <3>3. CASE wire[q] # "landed"
        <4>1. Land(q) /\ Owns(Asker[q], conv[q])
          BY <3>1, <3>3, RequestSteps DEF RequestStep
        <4>2. conv[q] = s
          BY <3>1, <4>1 DEF Land
        <4>3. store'[s] = Pushed(store[s], q, names[q])
          BY <4>1, <4>2 DEF Land, TypeOK
        <4> QED BY <1>3, <4>1, <4>2, <4>3 DEF Saves
      <3> QED BY <3>2, <3>3
    <2>2. SavedIn(s) \subseteq Requests /\ SavedIn(s)' \subseteq Requests
      BY DEF SavedIn
    <2> QED BY <1>1, <2>1, <2>2
  <1> QED BY <1>2, <1>3

\* The count of a conversation is twice its saved turns, what it holds is of
\* them, and it holds as many messages as the count and the cap allow.
CountInv ==
  \A s \in Sessions :
    /\ IsFiniteSet(SavedIn(s))
    /\ store[s].state = "live" => store[s].count = 2 * Cardinality(SavedIn(s))
    /\ TurnsIn(store[s].messages) \subseteq SavedIn(s)
    /\ Len(store[s].messages) = IF store[s].count > Cap THEN Cap ELSE store[s].count

LEMMA CountInit == Init => CountInv
  <1> SUFFICES ASSUME Init, NEW s \in Sessions
               PROVE  /\ IsFiniteSet(SavedIn(s))
                      /\ store[s].state # "live"
                      /\ TurnsIn(store[s].messages) \subseteq SavedIn(s)
                      /\ Len(store[s].messages) = IF store[s].count > Cap THEN Cap ELSE store[s].count
    BY DEF CountInv
  <1>1. SavedIn(s) = {}
    BY DEF Init, SavedIn
  <1>2. /\ store[s].state = "free" /\ store[s].count = 0 /\ store[s].messages = <<>>
        /\ TurnsIn(store[s].messages) = {}
    BY FreshFields, TurnsEmpty DEF Init
  <1>3. Len(store[s].messages) = 0
    BY <1>2
  <1> QED BY <1>1, <1>2, <1>3, FS_EmptySet, CapAssumption

LEMMA CountNext == TypeOK /\ TurnInv /\ ConvInv /\ CountInv /\ [Next]_vars => CountInv'
  <1> SUFFICES ASSUME TypeOK, TurnInv, ConvInv, CountInv, [Next]_vars, NEW s \in Sessions
               PROVE  /\ IsFiniteSet(SavedIn(s)')
                      /\ store'[s].state = "live" => store'[s].count = 2 * Cardinality(SavedIn(s)')
                      /\ TurnsIn(store'[s].messages) \subseteq SavedIn(s)'
                      /\ Len(store'[s].messages)
                           = IF store'[s].count > Cap THEN Cap ELSE store'[s].count
    BY DEF CountInv
  <1>1. /\ IsFiniteSet(SavedIn(s))
        /\ store[s].state = "live" => store[s].count = 2 * Cardinality(SavedIn(s))
        /\ TurnsIn(store[s].messages) \subseteq SavedIn(s)
        /\ Len(store[s].messages) = IF store[s].count > Cap THEN Cap ELSE store[s].count
    BY DEF CountInv
  <1>2. CASE SavedIn(s)' = SavedIn(s) /\ \A r \in Requests : ~Saves(r, s)
    <2>1. CASE KeepsTurns(s)
      BY <1>1, <1>2, <2>1 DEF KeepsTurns
    <2>2. CASE Opens(s) \/ Removes(s)
      <3>1. /\ store'[s].count = 0 /\ store'[s].messages = <<>>
            /\ TurnsIn(store'[s].messages) = {}
        BY <2>2, FreshFields, TurnsEmpty DEF Opens, Removes
      <3>2. Len(store'[s].messages) = 0
        BY <3>1
      <3>3. ASSUME store'[s].state = "live" PROVE SavedIn(s) = {}
        <4>1. store[s].state = "free"
          BY <2>2, <3>3, FreshFields DEF Opens, Removes
        <4>2. ASSUME NEW r \in Requests, wire[r] = "landed", conv[r] = s PROVE FALSE
          BY <4>1, <4>2, LandedStays DEF ConvInv, Owns
        <4> QED BY <4>2 DEF SavedIn
      <3> QED BY <1>1, <1>2, <3>1, <3>2, <3>3, FS_EmptySet, CapAssumption
    <2> QED BY <1>2, <2>1, <2>2, DocumentSteps DEF DocumentStep
  <1>3. ASSUME NEW r \in Requests,
               Saves(r, s), r \notin SavedIn(s), SavedIn(s)' = SavedIn(s) \cup {r}
        PROVE  /\ IsFiniteSet(SavedIn(s)')
               /\ store'[s].count = 2 * Cardinality(SavedIn(s)')
               /\ TurnsIn(store'[s].messages) \subseteq SavedIn(s)'
               /\ Len(store'[s].messages)
                    = IF store'[s].count > Cap THEN Cap ELSE store'[s].count
    <2>1. /\ store[s] \in Document /\ store[s].state = "live"
          /\ store'[s].count = store[s].count + 2
          /\ store'[s].messages = Newest(Cap, store[s].messages \o Pair(r))
      BY <1>3, PushedFields DEF Saves, Owns, TypeOK
    <2>2. store[s].messages \in Seq(Message) /\ store[s].count \in Nat
      BY <2>1 DEF Document
    <2>3. /\ IsFiniteSet(SavedIn(s)')
          /\ Cardinality(SavedIn(s)') = Cardinality(SavedIn(s)) + 1
          /\ Cardinality(SavedIn(s)) \in Nat
      BY <1>1, <1>3, FS_AddElement, FS_CardinalityType
    <2>4. TurnsIn(store'[s].messages) \subseteq TurnsIn(store[s].messages) \cup {r}
      BY <2>1, <2>2, PushedTurns
    <2>5. Len(store'[s].messages)
            = IF Len(store[s].messages) + 2 > Cap THEN Cap ELSE Len(store[s].messages) + 2
      BY <2>1, <2>2, PushedTurns
    <2>6. store'[s].count = 2 * Cardinality(SavedIn(s)')
      BY <1>1, <2>1, <2>2, <2>3
    <2>7. Len(store'[s].messages) = IF store'[s].count > Cap THEN Cap ELSE store'[s].count
      BY <1>1, <2>1, <2>2, <2>5, CapAssumption
    <2> QED BY <1>1, <1>3, <2>3, <2>4, <2>6, <2>7
  <1> QED BY <1>2, <1>3, SavedSteps

\* message_count is the number of messages ever saved in a conversation and
\* what it holds are the newest of them: $push, $slice and $inc stay in step
\* however updates are delayed, orphaned or raced by a rename or a deletion.
THEOREM ExactCount == Spec => []CountIsExact
  <1>1. CountInv => CountIsExact
    BY DEF CountInv, CountIsExact, SavedIn
  <1> QED BY <1>1, TypeInit, TypeNext, TurnInit, TurnNext, ConvInit, ConvNext,
             CountInit, CountNext, PTL DEF Spec

-----------------------------------------------------------------------------
(* A saved turn stays until newer ones fill the conversation.              *)

Kept(r) ==
  \/ store[conv[r]].state = "deleted"
  \/ r \in TurnsIn(store[conv[r]].messages)
  \/ Len(store[conv[r]].messages) = Cap

KeptInv == \A r \in Requests : wire[r] = "landed" => Kept(r)

LEMMA KeptInit == Init => KeptInv
  BY DEF Init, KeptInv

LEMMA KeptNext == TypeOK /\ TurnInv /\ ConvInv /\ KeptInv /\ [Next]_vars => KeptInv'
  <1> SUFFICES ASSUME TypeOK, TurnInv, ConvInv, KeptInv, [Next]_vars,
                      NEW r \in Requests, wire'[r] = "landed"
               PROVE  Kept(r)'
    BY DEF KeptInv
  <1>1. ASSUME NEW q \in Requests, NEW s \in Sessions, Saves(q, s)
        PROVE  /\ q \in TurnsIn(store'[s].messages)
               /\ Len(store'[s].messages) = Cap \/
                    TurnsIn(store[s].messages) \subseteq TurnsIn(store'[s].messages)
               /\ Len(store[s].messages) = Cap => Len(store'[s].messages) = Cap
    <2>1. /\ store[s] \in Document
          /\ store'[s].messages = Newest(Cap, store[s].messages \o Pair(q))
      BY <1>1, PushedFields DEF Saves, TypeOK
    <2>2. store[s].messages \in Seq(Message)
      BY <2>1 DEF Document
    <2> QED BY <2>1, <2>2, PushedTurns, CapAssumption
  <1>2. CASE wire[r] = "landed"
    <2> DEFINE s == conv[r]
    <2>1. conv'[r] = s /\ s \in Sessions /\ Kept(r)
          /\ (Owns(Asker[r], s) \/ store[s].state = "deleted")
      BY <1>2, LandedStays DEF KeptInv, ConvInv
    <2>2. CASE KeepsTurns(s)
      BY <2>1, <2>2 DEF KeepsTurns, Kept
    <2>3. CASE Opens(s)
      BY <2>1, <2>3 DEF Opens, Owns
    <2>4. CASE Removes(s)
      BY <2>1, <2>4, FreshFields DEF Removes, Kept
    <2>5. ASSUME NEW q \in Requests, Saves(q, s) PROVE Kept(r)'
      <3>1. store[s].state # "deleted"
        BY <2>5 DEF Saves, Owns
      <3>2. r \in TurnsIn(store[s].messages) \/ Len(store[s].messages) = Cap
        BY <2>1, <3>1 DEF Kept
      <3>3. r \in TurnsIn(store'[s].messages) \/ Len(store'[s].messages) = Cap
        BY <1>1, <2>1, <2>5, <3>2
      <3> QED BY <2>1, <3>3 DEF Kept
    <2> QED BY <2>1, <2>2, <2>3, <2>4, <2>5, DocumentSteps DEF DocumentStep
  <1>3. CASE wire[r] # "landed"
    <2>1. Land(r) /\ Owns(Asker[r], conv[r]) /\ RequestStep(r)
      BY <1>3, RequestSteps DEF RequestStep
    <2>2. conv'[r] = conv[r] /\ conv[r] \in Sessions
      BY <2>1 DEF Land, TurnInv, Settled, ConvInv
    <2>3. Saves(r, conv[r])
      BY <2>1, <2>2 DEF Saves, Land, TypeOK
    <2> QED BY <1>1, <2>2, <2>3 DEF Kept
  <1> QED BY <1>2, <1>3

\* A client that was told `done` finds its turn in the conversation, unless
\* the conversation was deleted or newer turns have pushed the turn out.
THEOREM DoneIsKept == Spec => []DoneIsSaved
  <1>1. TurnInv /\ KeptInv => DoneIsSaved
    BY DEF TurnInv, KeptInv, Kept, DoneIsSaved
  <1> QED BY <1>1, TypeInit, TypeNext, TurnInit, TurnNext, ConvInit, ConvNext,
             KeptInit, KeptNext, PTL DEF Spec

-----------------------------------------------------------------------------
(* Turns that were told `done` saw the ones before them.                   *)

\* While a turn may still be told `done`, the history it was given holds every
\* turn of its conversation that already was; and where two such turns stand
\* in a conversation, the later was given the earlier.
SeenInv ==
  /\ \A r \in Requests : phase[r] \in {"ready", "serving"} =>
       \A e \in TurnsIn(store[conv[r]].messages) : outcome[e] = "done" => e \in seen[r]
  /\ \A s \in Sessions : \A e, l \in Requests :
       Before(store[s].messages, e, l) /\ e # l /\ Promising(e) /\ Promising(l) => e \in seen[l]

LEMMA SeenInit == Init => SeenInv
  <1> SUFFICES ASSUME Init PROVE SeenInv
    OBVIOUS
  <1>1. \A s \in Sessions : store[s].messages = <<>>
    BY FreshFields DEF Init
  <1>2. \A e, l \in Requests : ~Before(<<>>, e, l)
    BY DEF Before
  <1> QED BY <1>1, <1>2 DEF Init, SeenInv

\* The messages of a conversation after a step.
LEMMA MessagesStep ==
  ASSUME TypeOK, TurnInv, ConvInv, [Next]_vars, NEW s \in Sessions
  PROVE  \/ store'[s].messages = store[s].messages
         \/ store'[s].messages = <<>>
         \/ \E q \in Requests :
              /\ Saves(q, s)
              /\ TurnsIn(store'[s].messages) \subseteq TurnsIn(store[s].messages) \cup {q}
              /\ \A e, l \in Requests : Before(store'[s].messages, e, l) =>
                   \/ Before(store[s].messages, e, l)
                   \/ l = q /\ e \in TurnsIn(store[s].messages) \cup {q}
  <1>1. ASSUME NEW q \in Requests, Saves(q, s)
        PROVE  /\ TurnsIn(store'[s].messages) \subseteq TurnsIn(store[s].messages) \cup {q}
               /\ \A e, l \in Requests : Before(store'[s].messages, e, l) =>
                    \/ Before(store[s].messages, e, l)
                    \/ l = q /\ e \in TurnsIn(store[s].messages) \cup {q}
    <2>1. /\ store[s] \in Document
          /\ store'[s].messages = Newest(Cap, store[s].messages \o Pair(q))
      BY <1>1, PushedFields DEF Saves, TypeOK
    <2>2. store[s].messages \in Seq(Message)
      BY <2>1 DEF Document
    <2> QED BY <2>1, <2>2, PushedTurns
  <1>2. CASE KeepsTurns(s)
    BY <1>2 DEF KeepsTurns
  <1>3. CASE Opens(s) \/ Removes(s)
    BY <1>3, FreshFields DEF Opens, Removes
  <1> QED BY <1>1, <1>2, <1>3, DocumentSteps DEF DocumentStep

LEMMA SeenNext ==
  TypeOK /\ GateInv /\ TurnInv /\ ConvInv /\ OwnTurnsOnly /\ CountInv /\ SeenInv /\ [Next]_vars
    => SeenInv'
  <1> SUFFICES ASSUME TypeOK, GateInv, TurnInv, ConvInv, OwnTurnsOnly, CountInv, SeenInv,
                      [Next]_vars
               PROVE  SeenInv'
    OBVIOUS
  <1> DEFINE Has(s) == TurnsIn(store[s].messages)
  <1>1. \A s \in Sessions : Has(s) \subseteq Requests
    BY DEF CountInv, SavedIn
  <1>2. TurnsIn(<<>>) = {} /\ \A e, l \in Requests : ~Before(<<>>, e, l)
    BY DEF TurnsIn, Before
  \* The turns of a request's own conversation are its account's.
  <1>3. ASSUME NEW r \in Requests, Settled(r), NEW e \in Has(conv[r])
        PROVE  e \in Requests /\ Asker[e] = Asker[r] /\ wire[e] = "landed"
    <2>1. conv[r] \in Sessions /\ (Owns(Asker[r], conv[r]) \/ store[conv[r]].state = "deleted")
      BY <1>3 DEF ConvInv
    <2>2. Owns(Asker[r], conv[r])
      BY <1>2, <1>3, <2>1 DEF ConvInv
    <2>3. Asker[e] = store[conv[r]].owner /\ e \in SavedIn(conv[r])
      BY <1>3, <2>1 DEF OwnTurnsOnly, CountInv
    <2> QED BY <2>2, <2>3 DEF Owns, SavedIn
  <1>4. ASSUME NEW r \in Requests, phase'[r] \in {"ready", "serving"},
               NEW e \in Has(conv[r])', outcome'[e] = "done"
        PROVE  e \in seen'[r]
    <2>1. RequestStep(r) /\ Settled(r)'
      BY <1>4, RequestSteps DEF Settled
    <2>2. CASE OpenNew(r)
      <3>1. PICK s \in Sessions :
              /\ store' = [store EXCEPT ![s] = NewDocument(Asker[r], "New chat")]
              /\ conv' = [conv EXCEPT ![r] = s]
        BY <2>2 DEF OpenNew
      <3>2. conv'[r] = s /\ store'[s] = NewDocument(Asker[r], "New chat")
        BY <3>1 DEF TypeOK
      <3>3. store'[conv'[r]].messages = <<>>
        BY <3>2 DEF NewDocument, Blank
      <3> QED BY <1>2, <1>4, <3>3
    <2>3. CASE OpenExisting(r)
      <3>1. seen'[r] = Has(conv[r]) /\ store' = store /\ conv' = conv
        BY <2>3 DEF OpenExisting, TypeOK
      <3> QED BY <1>4, <3>1
    <2>4. CASE Settled(r) /\ conv'[r] = conv[r] /\ ~OpenNew(r) /\ ~OpenExisting(r)
      <3> DEFINE s == conv[r]
      <3>1. s \in Sessions /\ conv'[r] = s /\ seen'[r] = seen[r]
        BY <2>1, <2>4 DEF ConvInv, RequestStep
      <3>2. phase[r] \in {"ready", "serving"}
        BY <1>4, <2>1, <2>4 DEF RequestStep
      <3>3. CASE e \in Has(s)
        <4>1. Asker[e] = Asker[r] /\ e \in Requests
          BY <1>3, <2>4, <3>3
        <4>2. ~ToldDone(e)
          BY <1>4, <3>2, <4>1 DEF ToldDone, GateInv, Engaged, Holding
        <4>3. outcome[e] = "done"
          BY <1>4, <4>1, <4>2, RequestSteps DEF RequestStep
        <4> QED BY <3>1, <3>2, <3>3, <4>3 DEF SeenInv
      <3>4. CASE e \notin Has(s)
        <4>1. PICK q \in Requests : Saves(q, s) /\ Has(s)' \subseteq Has(s) \cup {q}
          <5>1. e \in TurnsIn(store'[s].messages)
            BY <1>4, <3>1
          <5> QED BY <1>2, <3>1, <3>4, <5>1, MessagesStep
        <4>2. e = q
          BY <1>4, <3>1, <3>4, <4>1
        <4>3. wire[q] = "sent" /\ outcome'[q] = outcome[q]
          BY <4>1 DEF Saves, Land
        <4> QED BY <1>4, <4>2, <4>3 DEF TurnInv
      <3> QED BY <3>3, <3>4
    <2> QED BY <2>1, <2>2, <2>3, <2>4 DEF RequestStep
  <1>5. ASSUME NEW s \in Sessions, NEW e \in Requests, NEW l \in Requests,
               Before(store'[s].messages, e, l), e # l, Promising(e)', Promising(l)'
        PROVE  e \in seen'[l]
    <2>1. CASE Before(store[s].messages, e, l)
      <3>1. e \in SavedIn(s) /\ l \in SavedIn(s)
        BY <2>1 DEF Before, CountInv, TurnsIn
      <3>2. \A r \in {e, l} : ~Start(r) /\ ~OpenExisting(r)
        BY <3>1 DEF SavedIn, TurnInv, Start, OpenExisting
      <3>3. Promising(e) /\ Promising(l) /\ seen'[l] = seen[l]
        BY <1>5, <3>2, RequestSteps DEF RequestStep
      <3> QED BY <1>5, <2>1, <3>3 DEF SeenInv
    <2>2. CASE ~Before(store[s].messages, e, l)
      <3>1. Saves(l, s) /\ e \in Has(s)
        BY <1>2, <1>5, <2>2, MessagesStep
      <3>2. /\ wire[l] = "sent" /\ conv[l] = s /\ UNCHANGED <<phase, seen, outcome>>
        BY <3>1 DEF Saves, Land
      <3>3. Promising(e) /\ Promising(l)
        BY <1>5, <3>2 DEF Promising
      <3>4. phase[l] = "serving" /\ task[l] # "none"
        BY <3>2, <3>3 DEF Promising, TurnInv
      <3>5. Asker[e] = Asker[l]
        BY <1>3, <3>1, <3>2, <3>4 DEF Settled
      <3>6. outcome[e] = "done"
        BY <1>5, <3>3, <3>4, <3>5 DEF Promising, GateInv, Engaged, Holding
      <3> QED BY <3>1, <3>2, <3>4, <3>6 DEF SeenInv
    <2> QED BY <2>1, <2>2
  <1> QED BY <1>4, <1>5 DEF SeenInv

\* Of two turns in a conversation whose clients were both told `done`, the
\* later was answered from a history that held the earlier: the gate and the
\* order of read, answer and save leave no room for an unseen turn.
THEOREM SeenInOrder == Spec => []DoneTurnsAreSeen
  <1>1. TypeOK /\ CountInv /\ SeenInv => DoneTurnsAreSeen
    <2> SUFFICES ASSUME TypeOK, CountInv, SeenInv, NEW s \in Sessions,
                        NEW i \in DOMAIN store[s].messages, NEW j \in DOMAIN store[s].messages,
                        i < j, store[s].messages[i].turn # store[s].messages[j].turn,
                        outcome[store[s].messages[i].turn] = "done",
                        outcome[store[s].messages[j].turn] = "done"
                 PROVE  store[s].messages[i].turn \in seen[store[s].messages[j].turn]
      BY DEF DoneTurnsAreSeen
    <2> DEFINE e == store[s].messages[i].turn
               l == store[s].messages[j].turn
    <2>1. e \in Requests /\ l \in Requests
      <3>1. TurnsIn(store[s].messages) \subseteq Requests
        BY DEF CountInv, SavedIn
      <3>2. e \in TurnsIn(store[s].messages) /\ l \in TurnsIn(store[s].messages)
        BY DEF TurnsIn
      <3> QED BY <3>1, <3>2
    <2>2. Before(store[s].messages, e, l)
      BY DEF Before
    <2> QED BY <2>1, <2>2 DEF SeenInv, Promising
  <1> QED BY <1>1, TypeInit, TypeNext, GateInit, GateNext, TurnInit, TurnNext, ConvInit,
             ConvNext, OwnTurnsInit, OwnTurnsNext, CountInit, CountNext, SeenInit, SeenNext,
             PTL DEF Spec

-----------------------------------------------------------------------------
(* The refinement of TurnLedger: the handlers, tasks, updates and documents *)
(* of the server keep what the ledger of turns promises.  First, the turns  *)
(* of a sequence of messages.                                               *)

LEMMA FunctionIsSeq ==
  ASSUME NEW S, NEW n \in Nat, NEW f \in [1..n -> S]
  PROVE  f \in Seq(S) /\ Len(f) = n
  <1>1. f \in Seq(S)
    BY SeqDef
  <1>2. Len(f) \in Nat /\ DOMAIN f = 1..Len(f) /\ DOMAIN f = 1..n
    BY <1>1, LenProperties
  <1> QED BY <1>1, <1>2

LEMMA TurnsOfType ==
  ASSUME NEW q \in Seq(Message)
  PROVE  /\ TurnsOf(q) \in Seq(Requests)
         /\ Len(TurnsOf(q)) = Len(q) \div 2
         /\ \A i \in 1..Len(q) \div 2 : TurnsOf(q)[i] = q[2 * i].turn
  <1>1. Len(q) \in Nat /\ Len(q) \div 2 \in Nat
    BY LenProperties
  <1>2. ASSUME NEW i \in 1..Len(q) \div 2 PROVE q[2 * i].turn \in Requests
    <2>1. 2 * i \in 1..Len(q)
      BY <1>1
    <2> DEFINE j == 2 * i
    <2>2. \A n \in 1..Len(q) : q[n] \in Message
      BY ElementOfSeq
    <2>3. q[j] \in Message
      BY <2>1, <2>2
    <2> QED BY <2>3 DEF Message
  <1>3. TurnsOf(q) \in [1..Len(q) \div 2 -> Requests]
    BY <1>2 DEF TurnsOf
  <1>4. TurnsOf(q) \in Seq(Requests) /\ Len(TurnsOf(q)) = Len(q) \div 2
    BY <1>1, <1>3, FunctionIsSeq
  <1> QED BY <1>4 DEF TurnsOf

LEMMA TurnsOfEmpty == TurnsOf(<<>>) = <<>>
  <1>1. ASSUME NEW q \in Seq(Message), Len(q) = 0
        PROVE  TurnsOf(q) \in Seq(Requests) /\ Len(TurnsOf(q)) = 0
    <2>1. 0 \div 2 = 0
      OBVIOUS
    <2> QED BY <1>1, <2>1, TurnsOfType
  <1>2. <<>> \in Seq(Message) /\ Len(<<>>) = 0
    BY EmptySeq
  <1>3. TurnsOf(<<>>) \in Seq(Requests) /\ Len(TurnsOf(<<>>)) = 0
    BY <1>1, <1>2
  <1> QED BY <1>3, EmptySeq

\* Saving a pair and cutting to Cap messages is, in turns, appending the turn
\* and cutting to half as many.
LEMMA TurnsOfPushed ==
  ASSUME NEW m \in Seq(Message), Whole(m), NEW r \in Requests
  PROVE  TurnsOf(Newest(Cap, m \o Pair(r))) = Ledger!Latest(Append(TurnsOf(m), r))
  <1> DEFINE p == Newest(Cap, m \o Pair(r))
             all == Append(TurnsOf(m), r)
  <1>1. PICK k \in Nat : Shifted(m, r, p, k)
    BY PushedAt
  <1>2. PICK h \in Nat : Len(m) = 2 * h /\ Len(m) \div 2 = h
    BY Halves, LenProperties DEF Whole
  <1>3. PICK c \in Nat : Cap = 2 * c /\ Cap \div 2 = c
    BY Halves, CapAssumption
  <1>4. PICK j \in Nat : /\ k = 2 * j
                         /\ h + 1 <= c => j = 0
                         /\ h + 1 > c => j = h + 1 - c
    <2>1. CASE h + 1 <= c
      BY <1>1, <1>2, <1>3, <2>1 DEF Shifted
    <2>2. CASE h + 1 > c
      <3>1. h + 1 - c \in Nat /\ k = 2 * (h + 1 - c)
        BY <1>1, <1>2, <1>3, <2>2 DEF Shifted
      <3> QED BY <2>2, <3>1
    <2> QED BY <2>1, <2>2
  <1>5. p \in Seq(Message)
    <2>1. m \o Pair(r) \in Seq(Message)
      BY PairType, ConcatProperties
    <2> QED BY <2>1, NewestAt
  <1>6. /\ TurnsOf(m) \in Seq(Requests) /\ Len(TurnsOf(m)) = h
        /\ \A i \in 1..h : TurnsOf(m)[i] = m[2 * i].turn
    BY <1>2, TurnsOfType
  <1>7. /\ all \in Seq(Requests) /\ Len(all) = h + 1 /\ all[h + 1] = r
        /\ \A i \in 1..h : all[i] = m[2 * i].turn
    BY <1>6, AppendProperties
  <1> HIDE DEF p, all
  <1>8. Len(p) = 2 * (h + 1 - j) /\ Len(p) \div 2 = h + 1 - j /\ h + 1 - j \in Nat
    BY <1>1, <1>2, <1>3, <1>4, CapAssumption DEF Shifted
  <1>9. ASSUME NEW i \in 1..h + 1 - j PROVE p[2 * i].turn = all[j + i]
    <2>1. 2 * i \in 1..Len(p) /\ j + i \in 1..h + 1
      BY <1>4, <1>8
    <2>2. CASE j + i <= h
      <3>1. p[2 * i] = m[k + 2 * i] /\ k + 2 * i = 2 * (j + i)
        BY <1>1, <1>2, <1>4, <2>1, <2>2 DEF Shifted
      <3>2. j + i \in 1..h
        BY <1>4, <2>1, <2>2
      <3>3. all[j + i] = m[2 * (j + i)].turn
        BY <1>7, <3>2
      <3> QED BY <3>1, <3>3
    <2>3. CASE j + i = h + 1
      <3>1. p[2 * i].turn = r
        BY <1>1, <1>2, <1>4, <2>1, <2>3 DEF Shifted
      <3> QED BY <1>7, <2>3, <3>1
    <2> QED BY <2>1, <2>2, <2>3
  <1>10. /\ TurnsOf(p) \in Seq(Requests) /\ Len(TurnsOf(p)) = h + 1 - j
         /\ \A i \in 1..h + 1 - j : TurnsOf(p)[i] = all[j + i]
    BY <1>5, <1>8, <1>9, TurnsOfType
  <1>11. CASE h + 1 <= c
    <2>1. Ledger!Latest(all) = all
      BY <1>3, <1>7, <1>11 DEF Ledger!Latest
    <2>2. Len(TurnsOf(p)) = Len(all) /\ \A i \in 1..Len(all) : TurnsOf(p)[i] = all[i]
      BY <1>4, <1>7, <1>10, <1>11
    <2> QED BY <1>7, <1>10, <2>1, <2>2, SeqEqual DEF p, all
  <1>12. CASE h + 1 > c
    <2> DEFINE w == SubSeq(all, Len(all) - c + 1, Len(all))
    <2>1. Ledger!Latest(all) = w
      BY <1>3, <1>7, <1>12 DEF Ledger!Latest
    <2>2. /\ Len(all) - c + 1 \in Int /\ Len(all) \in Int
          /\ \A i \in Len(all) - c + 1..Len(all) : all[i] \in Requests
      BY <1>7, <1>12, ElementOfSeq
    <2>3. /\ w \in Seq(Requests)
          /\ Len(w) = IF Len(all) - c + 1 <= Len(all) THEN Len(all) - (Len(all) - c + 1) + 1 ELSE 0
          /\ \A i \in 1..Len(all) - (Len(all) - c + 1) + 1 : w[i] = all[(Len(all) - c + 1) + i - 1]
      BY <2>2, SubSeqProperties
    <2> HIDE DEF w
    <2>4. Len(w) = c /\ \A i \in 1..c : w[i] = all[j + i]
      <3>1. Len(all) = h + 1 /\ j = h + 1 - c
        BY <1>4, <1>7, <1>12
      <3>2. Len(w) = c
        BY <1>12, <2>3, <3>1
      <3>3. ASSUME NEW i \in 1..c PROVE w[i] = all[j + i]
        <4>1. i \in 1..Len(all) - (Len(all) - c + 1) + 1 /\ (Len(all) - c + 1) + i - 1 = j + i
          BY <1>12, <3>1
        <4> QED BY <2>3, <4>1
      <3> QED BY <3>2, <3>3
    <2>5. Len(TurnsOf(p)) = Len(w) /\ \A i \in 1..Len(w) : TurnsOf(p)[i] = w[i]
      BY <1>4, <1>10, <1>12, <2>4
    <2> QED BY <1>10, <2>1, <2>3, <2>5, SeqEqual DEF p, all
  <1> QED BY <1>11, <1>12

-----------------------------------------------------------------------------
(* Initial states and steps under the refinement mapping.                  *)

LEMMA LedgerInit == Init => Ledger!Init
  <1> SUFFICES ASSUME Init PROVE Ledger!Init
    OBVIOUS
  <1>1. chatsBar = [s \in Sessions |-> Ledger!NoChat("free")]
    <2>1. \A s \in Sessions : /\ store[s].state = "free" /\ store[s].owner = None
                              /\ store[s].messages = <<>>
      BY DEF Init, Blank
    <2> QED BY <2>1, TurnsOfEmpty DEF chatsBar, Ledger!NoChat
  <1>2. stageBar = [r \in Requests |-> "waiting"]
    BY DEF Init, stageBar
  <1>3. savedBar = {}
    BY DEF Init, savedBar
  <1> QED BY <1>1, <1>2, <1>3 DEF Ledger!Init

LEMMA SameChats ==
  ASSUME \A s \in Sessions : KeepsTurns(s)
  PROVE  UNCHANGED chatsBar
  BY DEF KeepsTurns, chatsBar

LEMMA OpenStep ==
  ASSUME TypeOK, NEW u \in Users, NEW s \in Sessions, NEW title,
         store[s].state = "free",
         store' = [store EXCEPT ![s] = NewDocument(u, title)],
         UNCHANGED <<stageBar, savedBar>>
  PROVE  Ledger!Next
  <1> DEFINE fresh == [state |-> "live", owner |-> u, turns |-> <<>>]
  <1>1. /\ store'[s].state = "live" /\ store'[s].owner = u /\ store'[s].messages = <<>>
        /\ \A s2 \in Sessions : s2 # s => store'[s2] = store[s2]
    BY DEF TypeOK, NewDocument, Blank
  <1>2. chatsBar[s].state = "free"
    BY DEF chatsBar
  <1>3. chatsBar' = [chatsBar EXCEPT ![s] = fresh]
    BY <1>1, TurnsOfEmpty DEF chatsBar
  <1>4. Ledger!Open(u, s)
    BY <1>2, <1>3 DEF Ledger!Open
  <1> QED BY <1>4 DEF Ledger!Next

LEMMA RemoveStep ==
  ASSUME TypeOK, NEW u \in Users, NEW S \in SUBSET Sessions,
         \A s \in S : Owns(u, s),
         store' = [s \in Sessions |-> IF s \in S THEN Blank("deleted") ELSE store[s]],
         UNCHANGED <<stageBar, savedBar>>
  PROVE  Ledger!Next
  <1>1. /\ \A s \in S : store'[s] = Blank("deleted")
        /\ \A s \in Sessions \ S : store'[s] = store[s]
    OBVIOUS
  <1>2. \A s \in S : /\ store'[s].state = "deleted" /\ store'[s].owner = None
                     /\ store'[s].messages = <<>>
    BY <1>1 DEF Blank
  <1>3. \A s \in S : chatsBar[s].state = "live" /\ chatsBar[s].owner = u
    BY DEF chatsBar, Owns
  <1>4. chatsBar' = [s \in Sessions |-> IF s \in S THEN Ledger!NoChat("deleted") ELSE chatsBar[s]]
    BY <1>1, <1>2, TurnsOfEmpty DEF chatsBar, Ledger!NoChat
  <1>5. Ledger!Remove(u, S)
    BY <1>3, <1>4 DEF Ledger!Remove
  <1> QED BY <1>5 DEF Ledger!Next

LEMMA CommitStep ==
  ASSUME TypeOK, TurnInv, WholeTurns, NEW r \in Requests, Land(r),
         conv[r] \in Sessions, Owns(Asker[r], conv[r])
  PROVE  Ledger!Next
  <1> DEFINE s == conv[r]
             m == store[s].messages
  <1>1. /\ store' = [store EXCEPT ![s] = Pushed(store[s], r, names[r])]
        /\ wire[r] = "sent" /\ wire' = [wire EXCEPT ![r] = "landed"] /\ task' = task
    BY DEF Land
  <1>2. m \in Seq(Message) /\ Whole(m) /\ store[s] \in Document
    BY DEF TypeOK, WholeTurns, Document
  <1>3. /\ store'[s].state = store[s].state /\ store'[s].owner = store[s].owner
        /\ store'[s].messages = Newest(Cap, m \o Pair(r))
        /\ \A s2 \in Sessions : s2 # s => store'[s2] = store[s2]
    BY <1>1, <1>2, PushedFields DEF TypeOK
  <1>4. TurnsOf(store'[s].messages) = Ledger!Latest(Append(TurnsOf(m), r))
    BY <1>2, <1>3, TurnsOfPushed
  <1>5. chatsBar' = [chatsBar EXCEPT ![s].turns = Ledger!Latest(Append(@, r))]
    BY <1>3, <1>4 DEF chatsBar
  <1>6. stageBar' = stageBar /\ stageBar[r] # "waiting"
    BY <1>1 DEF stageBar, Running, TurnInv
  <1>7. r \notin savedBar /\ savedBar' = savedBar \cup {r}
    BY <1>1 DEF savedBar, TypeOK
  <1>8. chatsBar[s].state = "live" /\ chatsBar[s].owner = Asker[r]
    BY DEF chatsBar, Owns
  <1>9. Ledger!Commit(r, s)
    BY <1>5, <1>6, <1>7, <1>8 DEF Ledger!Commit
  <1> QED BY <1>9 DEF Ledger!Next

LEMMA BeginStep ==
  ASSUME TypeOK, GateInv, NEW r \in Requests, Start(r)
  PROVE  Ledger!Next
  <1>1. phase[r] = "ready" /\ task[r] = "none" /\ task' = [task EXCEPT ![r] = "answering"]
        /\ store' = store /\ wire' = wire
    BY DEF Start, GateInv
  <1>2. stageBar[r] = "waiting" /\ stageBar' = [stageBar EXCEPT ![r] = "running"]
    BY <1>1 DEF stageBar, Running, TypeOK
  <1>3. \A q \in Requests : stageBar[q] = "running" => Asker[q] # Asker[r]
    BY <1>1 DEF stageBar, GateInv, Engaged, Holding, Running
  <1>4. UNCHANGED <<chatsBar, savedBar>>
    BY <1>1 DEF chatsBar, savedBar
  <1>5. Ledger!Begin(r)
    BY <1>2, <1>3, <1>4 DEF Ledger!Begin
  <1> QED BY <1>5 DEF Ledger!Next

\* Turns end: those of T, which were running.
LEMMA EndStep ==
  ASSUME NEW T \in SUBSET Requests, \A r \in T : Running(r),
         \A r \in T : task'[r] \notin {"none", "answering", "saving"},
         \A r \in Requests \ T : task'[r] = task[r],
         UNCHANGED <<chatsBar, savedBar>>
  PROVE  Ledger!Next
  <1>1. \A r \in T : stageBar[r] = "running"
    BY DEF stageBar, Running
  <1>2. stageBar' = [r \in Requests |-> IF r \in T THEN "over" ELSE stageBar[r]]
    BY DEF stageBar, Running
  <1>3. Ledger!End(T)
    BY <1>1, <1>2 DEF Ledger!End
  <1> QED BY <1>3 DEF Ledger!Next

\* Nothing the ledger shows changes.
LEMMA QuietStep ==
  /\ store' = store => UNCHANGED chatsBar
  /\ task' = task => UNCHANGED stageBar
  /\ wire' = wire => UNCHANGED savedBar
  BY DEF chatsBar, stageBar, savedBar, Running

LEMMA LedgerNext ==
  TypeOK /\ GateInv /\ TurnInv /\ ConvInv /\ WholeTurns /\ [Next]_vars
    => [Ledger!Next]_(Ledger!ledgerVars)
  <1> SUFFICES ASSUME TypeOK, GateInv, TurnInv, ConvInv, WholeTurns, [Next]_vars
               PROVE  Ledger!Next \/ UNCHANGED <<chatsBar, stageBar, savedBar>>
    BY DEF Ledger!ledgerVars
  <1> DEFINE Goal == Ledger!Next \/ UNCHANGED <<chatsBar, stageBar, savedBar>>
  <1>1. ASSUME UNCHANGED <<store, task, wire>> PROVE Goal
    BY <1>1, QuietStep
  \* One turn ends, and the store and what has landed stay.
  <1>2. ASSUME NEW r \in Requests, Running(r), UNCHANGED <<store, wire>>,
               NEW what \in {"saved", "missing", "failed", "cancelled"},
               task' = [task EXCEPT ![r] = what]
        PROVE  Goal
    <2>1. task'[r] = what /\ \A q \in Requests \ {r} : task'[q] = task[q]
      BY <1>2 DEF TypeOK
    <2>2. {r} \in SUBSET Requests /\ (\A q \in {r} : Running(q))
          /\ \A q \in {r} : task'[q] \notin {"none", "answering", "saving"}
      BY <1>2, <2>1
    <2>3. UNCHANGED <<chatsBar, savedBar>>
      BY <1>2, QuietStep
    <2> QED BY <2>1, <2>2, <2>3, EndStep
  <1>3. ASSUME NEW r \in Requests, Progress(r) PROVE Goal
    <2>1. CASE Refuse(r) \/ Admit(r) \/ OpenExisting(r) \/ OpenMissing(r) \/ Reply(r)
               \/ Report(r) \/ Release(r)
      <3>1. UNCHANGED <<store, task, wire>>
        BY <2>1 DEF Refuse, Admit, OpenExisting, OpenMissing, Reply, Report, Release
      <3> QED BY <1>1, <3>1
    <2>2. CASE OpenNew(r)
      <3>1. PICK s \in Sessions :
              /\ store[s].state = "free"
              /\ store' = [store EXCEPT ![s] = NewDocument(Asker[r], "New chat")]
        BY <2>2 DEF OpenNew
      <3>2. UNCHANGED <<stageBar, savedBar>>
        BY <2>2, QuietStep DEF OpenNew
      <3> QED BY <3>1, <3>2, OpenStep, AskerAssumption
    <2>3. CASE OpenFails(r)
      <3>1. CASE UNCHANGED store
        BY <1>1, <2>3, <3>1 DEF OpenFails
      <3>2. CASE ~UNCHANGED store
        <4>1. PICK s \in Sessions :
                /\ store[s].state = "free"
                /\ store' = [store EXCEPT ![s] = NewDocument(Asker[r], "New chat")]
          BY <2>3, <3>2 DEF OpenFails
        <4>2. UNCHANGED <<stageBar, savedBar>>
          BY <2>3, QuietStep DEF OpenFails
        <4> QED BY <4>1, <4>2, OpenStep, AskerAssumption
      <3> QED BY <3>1, <3>2
    <2>4. CASE Start(r)
      BY <2>4, BeginStep
    <2>5. CASE FindSession(r)
      <3>1. task[r] = "answering" /\ store' = store
        BY <2>5 DEF FindSession
      <3>2. CASE Owns(Asker[r], conv[r])
        <4>1. task' = [task EXCEPT ![r] = "saving"] /\ wire' = [wire EXCEPT ![r] = "sent"]
          BY <2>5, <3>2 DEF FindSession
        <4>2. wire[r] = "none"
          BY <3>1 DEF TurnInv
        <4>3. UNCHANGED stageBar
          BY <3>1, <4>1 DEF stageBar, Running, TypeOK
        <4>4. UNCHANGED savedBar
          BY <4>1, <4>2 DEF savedBar, TypeOK
        <4> QED BY <3>1, <4>3, <4>4, QuietStep
      <3>3. CASE ~Owns(Asker[r], conv[r])
        <4>1. task' = [task EXCEPT ![r] = "missing"] /\ wire' = wire
          BY <2>5, <3>3 DEF FindSession
        <4> QED BY <1>2, <3>1, <4>1 DEF Running
      <3> QED BY <3>2, <3>3
    <2>6. CASE Land(r)
      <3>1. wire[r] = "sent" /\ conv[r] \in Sessions
        BY <2>6 DEF Land, TurnInv, ConvInv, Settled
      <3>2. CASE Owns(Asker[r], conv[r])
        BY <2>6, <3>1, <3>2, CommitStep
      <3>3. CASE ~Owns(Asker[r], conv[r])
        <4>1. wire' = [wire EXCEPT ![r] = "unmatched"] /\ UNCHANGED <<store, task>>
          BY <2>6, <3>3 DEF Land
        <4>2. UNCHANGED savedBar
          BY <3>1, <4>1 DEF savedBar, TypeOK
        <4> QED BY <4>1, <4>2, QuietStep
      <3> QED BY <3>2, <3>3
    <2>7. CASE Acknowledge(r)
      <3>1. /\ Running(r) /\ UNCHANGED <<store, wire>>
            /\ \E what \in {"saved", "missing"} : task' = [task EXCEPT ![r] = what]
        BY <2>7 DEF Acknowledge, Running
      <3> QED BY <1>2, <3>1
    <2>8. CASE Fail(r)
      BY <1>2, <2>8 DEF Fail
    <2>9. CASE Cancelled(r)
      BY <1>2, <2>9 DEF Cancelled, Cancelling
    <2> HIDE DEF Goal
    <2> QED BY <1>3, <2>1, <2>2, <2>3, <2>4, <2>5, <2>6, <2>7, <2>8, <2>9 DEF Progress
  <1>4. ASSUME NEW r \in Requests, Surprise(r) PROVE Goal
    <2>1. CASE Lose(r)
      <3>1. /\ wire[r] = "sent" /\ wire' = [wire EXCEPT ![r] = "lost"]
            /\ UNCHANGED <<store, task>>
        BY <2>1 DEF Lose
      <3>2. UNCHANGED savedBar
        BY <3>1 DEF savedBar, TypeOK
      <3> QED BY <3>1, <3>2, QuietStep
    <2>2. CASE Authenticate(r) \/ Disconnect(r) \/ Interrupt(r) \/ LeaveEarly(r)
      <3>1. UNCHANGED <<store, task, wire>>
        BY <2>2 DEF Authenticate, Disconnect, Interrupt, LeaveEarly
      <3> QED BY <1>1, <3>1
    <2> HIDE DEF Goal
    <2> QED BY <1>4, <2>1, <2>2 DEF Surprise
  <1>5. ASSUME NEW u \in Users, Housekeeping(u) PROVE Goal
    <2>1. UNCHANGED <<task, wire>>
      BY <1>5 DEF Housekeeping, CreateSession, RenameSession, DeleteSession, BeginDeletion,
                  DeleteAllSessions, DeleteUser, DeletionFails, reqVars
    <2>2. UNCHANGED <<stageBar, savedBar>>
      BY <2>1, QuietStep
    <2>3. CASE CreateSession(u)
      <3>1. PICK s \in Sessions, title \in {"New chat", "given"} :
              store[s].state = "free" /\ store' = [store EXCEPT ![s] = NewDocument(u, title)]
        BY <2>3 DEF CreateSession
      <3> QED BY <2>2, <3>1, OpenStep
    <2>4. ASSUME NEW s \in Sessions, RenameSession(u, s) PROVE Goal
      <3>1. \A s2 \in Sessions : KeepsTurns(s2)
        BY <2>4 DEF RenameSession, KeepsTurns, TypeOK, Document
      <3> QED BY <2>2, <3>1, SameChats
    <2>5. ASSUME NEW s \in Sessions, DeleteSession(u, s) PROVE Goal
      <3>1. /\ {s} \in SUBSET Sessions /\ \A s2 \in {s} : Owns(u, s2)
            /\ store' = [s2 \in Sessions |-> IF s2 \in {s} THEN Blank("deleted") ELSE store[s2]]
        BY <2>5 DEF DeleteSession, TypeOK
      <3> QED BY <2>2, <3>1, RemoveStep
    <2>6. CASE DeleteAllSessions(u)
      <3> DEFINE S == {s \in Sessions : Owns(u, s)}
      <3>1. /\ S \in SUBSET Sessions /\ \A s \in S : Owns(u, s)
            /\ store' = [s \in Sessions |-> IF s \in S THEN Blank("deleted") ELSE store[s]]
        BY <2>6 DEF DeleteAllSessions
      <3> HIDE DEF S
      <3> QED BY <2>2, <3>1, RemoveStep
    <2>7. CASE BeginDeletion(u) \/ DeleteUser(u) \/ DeletionFails(u)
      <3>1. UNCHANGED store
        BY <2>7 DEF BeginDeletion, DeleteUser, DeletionFails
      <3> QED BY <1>1, <2>1, <3>1
    <2> HIDE DEF Goal
    <2> QED BY <1>5, <2>3, <2>4, <2>5, <2>6, <2>7 DEF Housekeeping
  <1>6. CASE Restart
    <2> DEFINE T == {r \in Requests : Running(r)}
    <2>1. /\ task' = [r \in Requests |-> IF Running(r) THEN "cancelled" ELSE task[r]]
          /\ UNCHANGED <<store, wire>>
      BY <1>6 DEF Restart
    <2>2. /\ T \in SUBSET Requests /\ (\A r \in T : Running(r))
          /\ \A r \in T : task'[r] \notin {"none", "answering", "saving"}
          /\ \A r \in Requests \ T : task'[r] = task[r]
      BY <2>1
    <2>3. UNCHANGED <<chatsBar, savedBar>>
      BY <2>1, QuietStep
    <2> HIDE DEF T
    <2> QED BY <2>2, <2>3, EndStep
  <1>7. CASE UNCHANGED vars
    BY <1>1, <1>7 DEF vars, reqVars
  <1> QED BY <1>3, <1>4, <1>5, <1>6, <1>7 DEF Next

\* The server keeps what the ledger of turns promises: the turns of an account
\* run one at a time, and each is added whole, once, to a live conversation of
\* its own account, whatever is cancelled, delayed, lost or restarted.
THEOREM LedgerImplemented == Spec => ImplementsLedger
  BY LedgerInit, LedgerNext, TypeInit, TypeNext, GateInit, GateNext, TurnInit, TurnNext,
     ConvInit, ConvNext, WholeInit, WholeNext, PTL DEF Spec, ImplementsLedger, Ledger!Spec

=============================================================================
