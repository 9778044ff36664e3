--------------------------- MODULE ChatTurnsProofs ---------------------------
(***************************************************************************)
(* Theorems about ChatTurns, for every set of accounts, conversations and  *)
(* requests, every even cap and any number of restarts.                    *)
(***************************************************************************)
EXTENDS ChatTurns, SequenceTheorems, TLAPS

(* A document keeps its type when a turn is pushed onto it.                *)

LEMMA BlankType == \A state \in {"free", "live", "deleted"} : Blank(state) \in Document
  BY DEF Blank, Document, Title

LEMMA NewDocumentType ==
  \A u \in Users, title \in {"New chat", "given"} : NewDocument(u, title) \in Document
  BY BlankType DEF NewDocument, Blank, Document, Title

LEMMA PairType == \A r \in Requests : Pair(r) \in Seq(Message) /\ Len(Pair(r)) = 2
  BY DEF Pair, Message

\* Newest(n, messages) is a sequence of the same kind.
LEMMA NewestType ==
  ASSUME NEW S, NEW n \in Nat, NEW q \in Seq(S)
  PROVE  Newest(n, q) \in Seq(S)
  <1>1. CASE Len(q) <= n
    BY <1>1 DEF Newest
  <1>2. CASE ~(Len(q) <= n)
    <2>1. Len(q) - n + 1 \in 1..Len(q) + 1
      BY <1>2, LenProperties
    <2>2. SubSeq(q, Len(q) - n + 1, Len(q)) \in Seq(S)
      BY <2>1, SubSeqProperties
    <2> QED BY <1>2, <2>2 DEF Newest
  <1> QED BY <1>1, <1>2

LEMMA PushedType ==
  ASSUME NEW d \in Document, NEW r \in Requests, NEW titled \in BOOLEAN
  PROVE  Pushed(d, r, titled) \in Document
  <1>1. d.messages \o Pair(r) \in Seq(Message)
    BY PairType, ConcatProperties DEF Document
  <1>2. Newest(Cap, d.messages \o Pair(r)) \in Seq(Message)
    BY <1>1, NewestType, CapAssumption
  <1>3. (IF titled THEN "question" ELSE d.title) \in Title
    BY DEF Document, Title
  <1>4. d.count + 2 \in Nat
    BY DEF Document
  <1> QED BY <1>2, <1>3, <1>4 DEF Pushed, Document

LEMMA TurnsInType ==
  ASSUME NEW d \in Document
  PROVE  TurnsIn(d.messages) \subseteq Requests
  <1>1. d.messages \in Seq(Message)
    BY DEF Document
  <1>2. \A i \in DOMAIN d.messages : d.messages[i] \in Message
    BY <1>1, ElementOfSeq, LenProperties
  <1> QED BY <1>2 DEF TurnsIn, Message

-----------------------------------------------------------------------------
(* Type correctness.                                                       *)

LEMMA TypeInit == Init => TypeOK
  BY BlankType DEF Init, TypeOK, Phase, Task, Wire, Outcome

LEMMA TypeNext == TypeOK /\ [Next]_vars => TypeOK'
  <1> SUFFICES ASSUME TypeOK, [Next]_vars PROVE TypeOK'
    OBVIOUS
  <1> USE AskerAssumption DEF TypeOK, EndWith
  <1>1. ASSUME NEW r \in Requests, Progress(r) PROVE TypeOK'
    <2>1. CASE Refuse(r)
      BY <2>1 DEF Refuse, Phase, Outcome
    <2>2. CASE Admit(r)
      BY <2>2 DEF Admit, Phase
    <2>3. CASE OpenNew(r)
      <3>1. NewDocument(Asker[r], "New chat") \in Document
        BY NewDocumentType
      <3>2. PICK s \in Sessions :
              /\ store' = [store EXCEPT ![s] = NewDocument(Asker[r], "New chat")]
              /\ conv' = [conv EXCEPT ![r] = s]
        BY <2>3 DEF OpenNew
      <3>3. store' \in [Sessions -> Document] /\ conv' \in [Requests -> Sessions \cup {None}]
        BY <3>1, <3>2
      <3> QED BY <2>3, <3>3 DEF OpenNew, Phase
    <2>4. CASE OpenExisting(r)
      <3>1. conv[r] \in Sessions
        BY <2>4 DEF OpenExisting
      <3>2. TurnsIn(store[conv[r]].messages) \subseteq Requests
        <4>1. store[conv[r]] \in Document
          BY <3>1
        <4> HIDE DEF TypeOK
        <4> QED BY <4>1, TurnsInType
      <3> QED BY <2>4, <3>2 DEF OpenExisting, Phase
    <2>5. CASE OpenMissing(r)
      BY <2>5 DEF OpenMissing, Phase, Outcome
    <2>6. CASE OpenFails(r)
      <3>1. NewDocument(Asker[r], "New chat") \in Document
        BY NewDocumentType
      <3> QED BY <2>6, <3>1 DEF OpenFails, Phase, Outcome
    <2>7. CASE Start(r)
      BY <2>7 DEF Start, Phase, Task
    <2>8. CASE FindSession(r)
      BY <2>8 DEF FindSession, Task, Wire
    <2>9. CASE Land(r)
      <3>1. \A s \in Sessions : Pushed(store[s], r, names[r]) \in Document
        BY PushedType
      <3> QED BY <2>9, <3>1 DEF Land, Wire
    <2>10. CASE Acknowledge(r)
      BY <2>10 DEF Acknowledge, Task
    <2>11. CASE Fail(r)
      BY <2>11 DEF Fail, Task
    <2>12. CASE Cancelled(r)
      BY <2>12 DEF Cancelled, Task
    <2>13. CASE Reply(r)
      BY <2>13 DEF Reply, Verdict, Phase, Outcome
    <2>14. CASE Report(r)
      BY <2>14 DEF Report, Verdict, Phase, Outcome
    <2>15. CASE Release(r)
      BY <2>15 DEF Release, Phase
    <2> QED BY <1>1, <2>1, <2>2, <2>3, <2>4, <2>5, <2>6, <2>7, <2>8, <2>9, <2>10,
               <2>11, <2>12, <2>13, <2>14, <2>15 DEF Progress
  <1>2. ASSUME NEW r \in Requests, Surprise(r) PROVE TypeOK'
    <2>1. CASE Authenticate(r)
      BY <2>1 DEF Authenticate, Phase, Outcome
    <2>2. CASE Lose(r)
      BY <2>2 DEF Lose, Wire
    <2>3. CASE Disconnect(r)
      BY <2>3 DEF Disconnect, Phase, Outcome
    <2>4. CASE Interrupt(r)
      BY <2>4 DEF Interrupt, Phase
    <2>5. CASE LeaveEarly(r)
      BY <2>5 DEF LeaveEarly, Phase, Outcome
    <2> QED BY <1>2, <2>1, <2>2, <2>3, <2>4, <2>5 DEF Surprise
  <1>3. ASSUME NEW u \in Users, Housekeeping(u) PROVE TypeOK'
    <2>1. CASE CreateSession(u)
      BY <2>1, NewDocumentType DEF CreateSession, reqVars
    <2>2. ASSUME NEW s \in Sessions, RenameSession(u, s) PROVE TypeOK'
      BY <2>2 DEF RenameSession, reqVars, Document, Title
    <2>3. ASSUME NEW s \in Sessions, DeleteSession(u, s) PROVE TypeOK'
      BY <2>3, BlankType DEF DeleteSession, reqVars
    <2>4. CASE BeginDeletion(u)
      BY <2>4 DEF BeginDeletion, reqVars
    <2>5. CASE DeleteAllSessions(u)
      BY <2>5, BlankType DEF DeleteAllSessions, reqVars
    <2>6. CASE DeleteUser(u)
      BY <2>6 DEF DeleteUser, reqVars
    <2>7. CASE DeletionFails(u)
      BY <2>7 DEF DeletionFails, reqVars
    <2> QED BY <1>3, <2>1, <2>2, <2>3, <2>4, <2>5, <2>6, <2>7 DEF Housekeeping
  <1>4. CASE Restart
    BY <1>4, RestartsAssumption DEF Restart, Phase, Outcome, Task
  <1>5. CASE UNCHANGED vars
    BY <1>5 DEF vars, reqVars
  <1> QED BY <1>1, <1>2, <1>3, <1>4, <1>5 DEF Next

\* Every reachable state of the chat turns is well typed: documents stay
\* documents through every push, slice, rename, deletion and restart.
THEOREM TypeCorrect == Spec => []TypeOK
  <1> QED BY TypeInit, TypeNext, PTL DEF Spec

-----------------------------------------------------------------------------
(* One active agent per account.                                           *)

\* A request is engaged while its handler holds the gate or its turn runs on.
Engaged(r) == Holding(r) \/ Running(r)

\* The inductive invariant: `_busy` covers every engaged request, and no two
\* engaged requests share an account.  Running alone would not do: a turn
\* whose handler was interrupted runs on after the handler is gone, and then
\* only the account that was left in `_busy` keeps the next one out.
GateInv ==
  /\ \A r \in Requests : Engaged(r) => Asker[r] \in busy
  /\ \A r1, r2 \in Requests :
       r1 # r2 /\ Engaged(r1) /\ Engaged(r2) => Asker[r1] # Asker[r2]
  /\ \A r \in Requests : phase[r] \in {"idle", "authed", "opening", "ready"} => task[r] = "none"

LEMMA GateInit == Init => GateInv
  BY DEF Init, GateInv, Engaged, Holding, Running

LEMMA GateNext == TypeOK /\ GateInv /\ [Next]_vars => GateInv'
  <1> SUFFICES ASSUME TypeOK, GateInv, [Next]_vars PROVE GateInv'
    OBVIOUS
  <1> USE AskerAssumption, StreamsAssumption DEF TypeOK, EndWith
  <1>1. ASSUME NEW r \in Requests, Progress(r) PROVE GateInv'
    <2> USE DEF GateInv, Engaged, Holding, Running
    <2>1. CASE Refuse(r)
      BY <2>1 DEF Refuse
    <2>2. CASE Admit(r)
      BY <2>2 DEF Admit
    <2>3. CASE OpenNew(r)
      <3>1. phase' = [phase EXCEPT ![r] = "ready"] /\ phase[r] = "opening" /\ UNCHANGED <<busy, task>>
        BY <2>3 DEF OpenNew
      <3> QED BY <3>1
    <2>4. CASE OpenExisting(r)
      BY <2>4 DEF OpenExisting
    <2>5. CASE OpenMissing(r)
      BY <2>5 DEF OpenMissing
    <2>6. CASE OpenFails(r)
      BY <2>6 DEF OpenFails
    <2>7. CASE Start(r)
      BY <2>7 DEF Start
    <2>8. CASE FindSession(r)
      BY <2>8 DEF FindSession
    <2>9. CASE Land(r)
      BY <2>9 DEF Land
    <2>10. CASE Acknowledge(r)
      BY <2>10 DEF Acknowledge
    <2>11. CASE Fail(r)
      BY <2>11 DEF Fail
    <2>12. CASE Cancelled(r)
      BY <2>12 DEF Cancelled, Cancelling
    <2>13. CASE Reply(r)
      BY <2>13 DEF Reply
    <2>14. CASE Report(r)
      BY <2>14 DEF Report
    <2>15. CASE Release(r)
      BY <2>15 DEF Release
    <2> QED BY <1>1, <2>1, <2>2, <2>3, <2>4, <2>5, <2>6, <2>7, <2>8, <2>9, <2>10,
               <2>11, <2>12, <2>13, <2>14, <2>15 DEF Progress
  <1>2. ASSUME NEW r \in Requests, Surprise(r) PROVE GateInv'
    <2> USE DEF GateInv, Engaged, Holding, Running
    <2>1. CASE Authenticate(r)
      BY <2>1 DEF Authenticate
    <2>2. CASE Lose(r)
      BY <2>2 DEF Lose
    <2>3. CASE Disconnect(r)
      BY <2>3 DEF Disconnect
    <2>4. CASE Interrupt(r)
      BY <2>4 DEF Interrupt
    <2>5. CASE LeaveEarly(r)
      BY <2>5 DEF LeaveEarly
    <2> QED BY <1>2, <2>1, <2>2, <2>3, <2>4, <2>5 DEF Surprise
  <1>3. ASSUME NEW u \in Users, Housekeeping(u) PROVE GateInv'
    <2>1. UNCHANGED <<busy, reqVars>>
      BY <1>3 DEF Housekeeping, CreateSession, RenameSession, DeleteSession,
                  BeginDeletion, DeleteAllSessions, DeleteUser, DeletionFails
    <2> QED BY <2>1 DEF reqVars, GateInv, Engaged, Holding, Running
  <1>4. CASE Restart
    <2>1. \A r \in Requests : ~Engaged(r)'
      BY <1>4 DEF Restart, Engaged, Holding, Running
    <2> QED BY <1>4, <2>1 DEF Restart, GateInv, Running
  <1>5. CASE UNCHANGED vars
    BY <1>5 DEF vars, reqVars, GateInv, Engaged, Holding, Running
  <1> QED BY <1>1, <1>2, <1>3, <1>4, <1>5 DEF Next

\* "One active agent per account bounds writes and cost": no interleaving of
\* requests, disconnects, cancellations, database failures and restarts ever
\* runs two turns of one account at once.
THEOREM OneAgent == Spec => []OneAgentPerAccount
  <1>1. GateInv => OneAgentPerAccount
    BY DEF GateInv, OneAgentPerAccount, Engaged
  <1> QED BY <1>1, TypeInit, TypeNext, GateInit, GateNext, PTL DEF Spec

-----------------------------------------------------------------------------
(* Who keeps an account in `_busy`.                                        *)

\* An account is in `_busy` on behalf of a request whose handler will remove
\* it, or of one whose client left before the handler could.
KeptBusyBy(r) == Holding(r) \/ (r \in Leavers /\ phase[r] = "ended")

BusyInv == \A u \in busy : \E r \in Requests : Asker[r] = u /\ KeptBusyBy(r)

LEMMA BusyInit == Init => BusyInv
  BY DEF Init, BusyInv

LEMMA BusyNext == TypeOK /\ BusyInv /\ [Next]_vars => BusyInv'
  <1> SUFFICES ASSUME TypeOK, BusyInv, [Next]_vars PROVE BusyInv'
    OBVIOUS
  <1> USE AskerAssumption, StreamsAssumption
  \* A step that frees nobody's gate and leaves every keeper one.
  <1>1. ASSUME busy' \subseteq busy, \A r \in Requests : KeptBusyBy(r) => KeptBusyBy(r)'
        PROVE  BusyInv'
    BY <1>1 DEF BusyInv
  \* A step that frees the gate of the one keeper it disturbs.
  <1>2. ASSUME NEW r \in Requests, busy' = busy \ {Asker[r]},
               \A q \in Requests : q # r /\ KeptBusyBy(q) => KeptBusyBy(q)'
        PROVE  BusyInv'
    BY <1>2 DEF BusyInv
  <1> USE DEF TypeOK, EndWith, KeptBusyBy, Holding
  <1>3. ASSUME NEW r \in Requests, Progress(r) PROVE BusyInv'
    <2>1. CASE Admit(r)
      <3>1. busy' = busy \cup {Asker[r]} /\ KeptBusyBy(r)'
        BY <2>1 DEF Admit
      <3>2. \A q \in Requests : KeptBusyBy(q) => KeptBusyBy(q)'
        BY <2>1 DEF Admit
      <3> HIDE DEF KeptBusyBy
      <3> QED BY <3>1, <3>2 DEF BusyInv
    <2>2. CASE OpenMissing(r) \/ OpenFails(r) \/ Reply(r) \/ Release(r)
      <3>1. busy' = busy \ {Asker[r]}
        BY <2>2 DEF OpenMissing, OpenFails, Reply, Release
      <3>2. phase' = [phase EXCEPT ![r] = "ended"]
        BY <2>2 DEF OpenMissing, OpenFails, Reply, Release
      <3>3. \A q \in Requests : q # r /\ KeptBusyBy(q) => KeptBusyBy(q)'
        BY <3>2
      <3> QED BY <1>2, <3>1, <3>3
    <2>3. CASE OpenNew(r) \/ OpenExisting(r) \/ Start(r) \/ Report(r)
      <3>1. busy' = busy
        BY <2>3 DEF OpenNew, OpenExisting, Start, Report
      <3>2. \E p \in {"ready", "serving", "closing"} : phase' = [phase EXCEPT ![r] = p]
        BY <2>3 DEF OpenNew, OpenExisting, Start, Report
      <3>3. phase[r] # "ended"
        BY <2>3 DEF OpenNew, OpenExisting, Start, Report
      <3> QED BY <1>1, <3>1, <3>2, <3>3
    <2>4. CASE Refuse(r)
      BY <1>1, <2>4 DEF Refuse
    <2>5. CASE FindSession(r) \/ Land(r) \/ Acknowledge(r) \/ Fail(r) \/ Cancelled(r)
      <3>1. UNCHANGED <<busy, phase>>
        BY <2>5 DEF FindSession, Land, Acknowledge, Fail, Cancelled
      <3> QED BY <1>1, <3>1
    <2> QED BY <1>3, <2>1, <2>2, <2>3, <2>4, <2>5 DEF Progress
  <1>4. ASSUME NEW r \in Requests, Surprise(r) PROVE BusyInv'
    <2>1. CASE Authenticate(r)
      BY <1>1, <2>1 DEF Authenticate
    <2>2. CASE Lose(r)
      BY <1>1, <2>2 DEF Lose
    <2>3. CASE Disconnect(r)
      BY <1>1, <2>3 DEF Disconnect
    <2>4. CASE Interrupt(r)
      BY <1>1, <2>4 DEF Interrupt
    <2>5. CASE LeaveEarly(r)
      BY <1>1, <2>5 DEF LeaveEarly
    <2> QED BY <1>4, <2>1, <2>2, <2>3, <2>4, <2>5 DEF Surprise
  <1>5. ASSUME NEW u \in Users, Housekeeping(u) PROVE BusyInv'
    <2>1. UNCHANGED <<busy, reqVars>>
      BY <1>5 DEF Housekeeping, CreateSession, RenameSession, DeleteSession,
                  BeginDeletion, DeleteAllSessions, DeleteUser, DeletionFails
    <2> QED BY <1>1, <2>1 DEF reqVars
  <1>6. CASE Restart
    BY <1>6 DEF Restart, BusyInv
  <1>7. CASE UNCHANGED vars
    BY <1>1, <1>7 DEF vars, reqVars
  <1> QED BY <1>3, <1>4, <1>5, <1>6, <1>7 DEF Next

\* A gate is only ever left shut by a stream whose client left: no other end
\* of a request, refused, failed, missing or answered, keeps an account busy.
THEOREM OnlyLeaversLeak == Spec => []BusyInv
  BY TypeInit, TypeNext, BusyInit, BusyNext, PTL DEF Spec

\* "I'm still finishing your last answer" is true as long as no client leaves.
THEOREM GateIsHonest ==
  ASSUME Leavers = {}
  PROVE  Spec => []BusyMeansAnswering
  <1>1. BusyInv => BusyMeansAnswering
    BY DEF BusyInv, KeptBusyBy, BusyMeansAnswering
  <1> QED BY <1>1, OnlyLeaversLeak, PTL

-----------------------------------------------------------------------------
(* No half turn.                                                           *)

LEMMA Halves == \A n \in Nat : n % 2 = 0 => \E h \in Nat : n = 2 * h /\ n \div 2 = h
  BY SMT

LEMMA WholeConcat ==
  ASSUME NEW m \in Seq(Message), Whole(m), NEW r \in Requests
  PROVE  Whole(m \o Pair(r))
  <1> DEFINE q == m \o Pair(r)
  <1>1. /\ Len(q) = Len(m) + 2
        /\ \A i \in 1..Len(m) + 2 : q[i] = IF i <= Len(m) THEN m[i] ELSE Pair(r)[i - Len(m)]
    <2>1. Pair(r) \in Seq(Message) /\ Len(Pair(r)) = 2
      BY PairType
    <2>2. /\ Len(q) = Len(m) + Len(Pair(r))
          /\ \A i \in 1..Len(m) + Len(Pair(r)) :
               q[i] = IF i <= Len(m) THEN m[i] ELSE Pair(r)[i - Len(m)]
      BY <2>1, ConcatProperties
    <2> HIDE DEF q
    <2> QED BY <2>1, <2>2
  <1> HIDE DEF q
  <1>2. PICK h \in Nat : Len(m) = 2 * h /\ Len(m) \div 2 = h
    BY Halves, LenProperties DEF Whole
  <1>3. Len(q) = 2 * (h + 1) /\ Len(q) \div 2 = h + 1 /\ Len(q) % 2 = 0
    BY <1>1, <1>2
  <1>4. ASSUME NEW i \in 1..h + 1
        PROVE  /\ q[2 * i - 1].role = "user"
               /\ q[2 * i].role = "assistant"
               /\ q[2 * i - 1].turn = q[2 * i].turn
    <2>1. CASE i <= h
      <3>1. q[2 * i - 1] = m[2 * i - 1] /\ q[2 * i] = m[2 * i]
        BY <1>1, <1>2, <2>1
      <3> QED BY <1>2, <2>1, <3>1 DEF Whole
    <2>2. CASE i = h + 1
      <3>1. q[2 * i - 1] = Pair(r)[1] /\ q[2 * i] = Pair(r)[2]
        BY <1>1, <1>2, <2>2
      <3> QED BY <3>1 DEF Pair
    <2> QED BY <2>1, <2>2
  <1>5. Len(q) % 2 = 0 /\ 1..Len(q) \div 2 = 1..h + 1
    BY <1>3
  <1>6. Whole(q)
    BY <1>4, <1>5, Zenon DEF Whole
  <1> QED BY <1>6 DEF q

\* Cutting at an even distance from the end cuts between turns.
LEMMA WholeNewest ==
  ASSUME NEW q \in Seq(Message), Whole(q)
  PROVE  Whole(Newest(Cap, q))
  <1>1. CASE Len(q) <= Cap
    BY <1>1 DEF Newest
  <1>2. CASE ~(Len(q) <= Cap)
    <2> DEFINE w == SubSeq(q, Len(q) - Cap + 1, Len(q))
    <2>1. PICK h \in Nat : Len(q) = 2 * h /\ Len(q) \div 2 = h
      BY Halves, LenProperties DEF Whole
    <2>2. PICK c \in Nat : Cap = 2 * c /\ Cap \div 2 = c
      BY Halves, CapAssumption
    <2>3. c <= h
      BY <1>2, <2>1, <2>2
    <2>4. \A i \in Len(q) - Cap + 1..Len(q) : q[i] \in Message
      BY ElementOfSeq, <2>1, <2>2, <2>3
    <2>5. /\ Len(w) = Cap
          /\ \A i \in 1..Cap : w[i] = q[Len(q) - Cap + i]
      <3>1. Len(q) - Cap + 1 \in Int /\ Len(q) \in Int /\ Len(q) - Cap + 1 <= Len(q)
        BY <2>1, <2>2, <1>2, CapAssumption
      <3>2. /\ Len(w) = Len(q) - (Len(q) - Cap + 1) + 1
            /\ \A i \in 1..Len(q) - (Len(q) - Cap + 1) + 1 : w[i] = q[(Len(q) - Cap + 1) + i - 1]
        BY <2>4, <3>1, SubSeqProperties
      <3> HIDE DEF w
      <3> QED BY <3>2, <2>1, <2>2
    <2>6. ASSUME NEW i \in 1..c
          PROVE  /\ w[2 * i - 1].role = "user"
                 /\ w[2 * i].role = "assistant"
                 /\ w[2 * i - 1].turn = w[2 * i].turn
      <3> DEFINE j == h - c + i
      <3>1. j \in 1..h
        BY <2>3
      <3>2. w[2 * i - 1] = q[2 * j - 1] /\ w[2 * i] = q[2 * j]
        <4> HIDE DEF w
        <4> QED BY <2>1, <2>2, <2>5
      <3> HIDE DEF w, j
      <3> QED BY <2>1, <3>1, <3>2 DEF Whole
    <2> HIDE DEF w
    <2>7. Whole(w)
      BY <2>2, <2>5, <2>6, CapAssumption DEF Whole
    <2> QED BY <1>2, <2>7 DEF Newest, w
  <1> QED BY <1>1, <1>2

LEMMA WholePushed ==
  ASSUME NEW d \in Document, Whole(d.messages), NEW r \in Requests, NEW titled \in BOOLEAN
  PROVE  Whole(Pushed(d, r, titled).messages)
  <1>1. d.messages \o Pair(r) \in Seq(Message) /\ Whole(d.messages \o Pair(r))
    BY PairType, ConcatProperties, WholeConcat DEF Document
  <1>2. Pushed(d, r, titled).messages = Newest(Cap, d.messages \o Pair(r))
    BY DEF Pushed, Document
  <1> QED BY <1>1, <1>2, WholeNewest

LEMMA WholeEmpty ==
  /\ \A state : Whole(Blank(state).messages)
  /\ \A u, title : Whole(NewDocument(u, title).messages)
  BY DEF Whole, Blank, NewDocument

LEMMA WholeInit == Init => WholeTurns
  BY WholeEmpty DEF Init, WholeTurns

LEMMA WholeNext == TypeOK /\ WholeTurns /\ [Next]_vars => WholeTurns'
  <1> SUFFICES ASSUME TypeOK, WholeTurns, [Next]_vars PROVE WholeTurns'
    OBVIOUS
  <1> USE DEF WholeTurns
  <1>1. CASE UNCHANGED store
    BY <1>1
  <1>2. ASSUME NEW s \in Sessions, NEW u, NEW title,
               store' = [store EXCEPT ![s] = NewDocument(u, title)]
        PROVE  WholeTurns'
    BY <1>2, WholeEmpty DEF TypeOK
  <1>3. ASSUME NEW r \in Requests, Land(r) PROVE WholeTurns'
    <2>1. \A s \in Sessions : Whole(Pushed(store[s], r, names[r]).messages)
      BY WholePushed DEF TypeOK
    <2> QED BY <1>3, <2>1 DEF Land, TypeOK
  <1>4. ASSUME NEW u \in Users, Housekeeping(u) PROVE WholeTurns'
    <2>1. CASE CreateSession(u)
      BY <1>2, <2>1 DEF CreateSession
    <2>2. ASSUME NEW s \in Sessions, RenameSession(u, s) PROVE WholeTurns'
      BY <2>2 DEF RenameSession, TypeOK, Document
    <2>3. ASSUME NEW s \in Sessions, DeleteSession(u, s) PROVE WholeTurns'
      BY <2>3, WholeEmpty DEF DeleteSession, TypeOK
    <2>4. CASE DeleteAllSessions(u)
      BY <2>4, WholeEmpty DEF DeleteAllSessions, TypeOK
    <2>5. CASE BeginDeletion(u) \/ DeleteUser(u) \/ DeletionFails(u)
      BY <2>5, <1>1 DEF BeginDeletion, DeleteUser, DeletionFails
    <2> QED BY <1>4, <2>1, <2>2, <2>3, <2>4, <2>5 DEF Housekeeping
  <1>5. ASSUME NEW r \in Requests, Progress(r) PROVE WholeTurns'
    <2>1. CASE OpenNew(r)
      <3>1. PICK s \in Sessions : store' = [store EXCEPT ![s] = NewDocument(Asker[r], "New chat")]
        BY <2>1 DEF OpenNew
      <3> QED BY <1>2, <3>1
    <2>2. CASE OpenFails(r)
      <3>1. CASE UNCHANGED store
        BY <1>1, <3>1
      <3>2. CASE ~UNCHANGED store
        <4>1. PICK s \in Sessions : store' = [store EXCEPT ![s] = NewDocument(Asker[r], "New chat")]
          BY <2>2, <3>2 DEF OpenFails
        <4> QED BY <1>2, <4>1
      <3> QED BY <3>1, <3>2
    <2>3. CASE Land(r)
      BY <1>3, <2>3
    <2>4. CASE ~(OpenNew(r) \/ OpenFails(r) \/ Land(r))
      BY <1>1, <1>5, <2>4 DEF Progress, Refuse, Admit, OpenExisting, OpenMissing, Start,
         FindSession, Acknowledge, Fail, Cancelled, Reply, Report, Release
    <2> QED BY <2>1, <2>2, <2>3, <2>4
  <1>6. ASSUME NEW r \in Requests, Surprise(r) PROVE WholeTurns'
    BY <1>1, <1>6 DEF Surprise, Authenticate, Lose, Disconnect, Interrupt, LeaveEarly
  <1>7. CASE Restart
    BY <1>1, <1>7 DEF Restart
  <1>8. CASE UNCHANGED vars
    BY <1>1, <1>8 DEF vars
  <1> QED BY <1>4, <1>5, <1>6, <1>7, <1>8 DEF Next

\* "Save a completed pair atomically; failed/cancelled generations leave no
\* half turn": whatever is cancelled, lost, deleted or cut by $slice, every
\* stored conversation is a sequence of questions with their answers.
THEOREM NoHalfTurn == Spec => []WholeTurns
  BY TypeInit, TypeNext, WholeInit, WholeNext, PTL DEF Spec

-----------------------------------------------------------------------------
(* No account's turn in another account's conversation.                    *)

LEMMA TurnsNewest ==
  ASSUME NEW q \in Seq(Message)
  PROVE  TurnsIn(Newest(Cap, q)) \subseteq TurnsIn(q)
  <1>1. CASE Len(q) <= Cap
    BY <1>1 DEF Newest
  <1>2. CASE ~(Len(q) <= Cap)
    <2> DEFINE w == SubSeq(q, Len(q) - Cap + 1, Len(q))
               k == Len(q) - Cap
    <2>1. Len(q) \in Nat /\ k \in Nat /\ k + 1 <= Len(q) /\ DOMAIN q = 1..Len(q)
      BY <1>2, CapAssumption, LenProperties
    <2>2. \A i \in k + 1..Len(q) : q[i] \in Message
      BY ElementOfSeq, <2>1
    <2>3. /\ w \in Seq(Message)
          /\ Len(w) = Len(q) - (k + 1) + 1
          /\ \A i \in 1..Len(q) - (k + 1) + 1 : w[i] = q[(k + 1) + i - 1]
      BY <2>1, <2>2, SubSeqProperties
    <2>4. DOMAIN w = 1..Len(w)
      BY <2>3, LenProperties
    <2> HIDE DEF w, k
    <2>5. \A i \in DOMAIN w : \E j \in DOMAIN q : w[i] = q[j]
      <3> SUFFICES ASSUME NEW i \in DOMAIN w PROVE \E j \in DOMAIN q : w[i] = q[j]
        OBVIOUS
      <3>1. k + i \in DOMAIN q /\ w[i] = q[k + i]
        BY <2>1, <2>3, <2>4
      <3> QED BY <3>1
    <2>6. TurnsIn(w) \subseteq TurnsIn(q)
      BY <2>5 DEF TurnsIn
    <2> QED BY <1>2, <2>6 DEF Newest, w
  <1> QED BY <1>1, <1>2

LEMMA TurnsPushed ==
  ASSUME NEW d \in Document, NEW r \in Requests, NEW titled \in BOOLEAN
  PROVE  TurnsIn(Pushed(d, r, titled).messages) \subseteq TurnsIn(d.messages) \cup {r}
  <1> DEFINE q == d.messages \o Pair(r)
  <1>1. d.messages \in Seq(Message) /\ Pair(r) \in Seq(Message) /\ Len(Pair(r)) = 2
    BY PairType DEF Document
  <1>2. /\ q \in Seq(Message)
        /\ Len(q) = Len(d.messages) + Len(Pair(r))
        /\ \A i \in 1..Len(d.messages) + Len(Pair(r)) :
             q[i] = IF i <= Len(d.messages) THEN d.messages[i] ELSE Pair(r)[i - Len(d.messages)]
    BY <1>1, ConcatProperties
  <1>3. Pushed(d, r, titled).messages = Newest(Cap, q)
    BY DEF Pushed, Document
  <1> HIDE DEF q
  <1>4. DOMAIN q = 1..Len(q) /\ DOMAIN d.messages = 1..Len(d.messages) /\ Len(d.messages) \in Nat
    BY <1>1, <1>2, LenProperties
  <1>5. ASSUME NEW i \in DOMAIN q
        PROVE  q[i].turn \in TurnsIn(d.messages) \cup {r}
    <2>1. CASE i <= Len(d.messages)
      <3>1. i \in DOMAIN d.messages /\ q[i] = d.messages[i]
        BY <1>1, <1>2, <1>4, <2>1
      <3> QED BY <3>1 DEF TurnsIn
    <2>2. CASE ~(i <= Len(d.messages))
      <3>1. q[i] = Pair(r)[i - Len(d.messages)] /\ i - Len(d.messages) \in {1, 2}
        BY <1>1, <1>2, <1>4, <2>2
      <3>2. Pair(r)[1].turn = r /\ Pair(r)[2].turn = r
        BY DEF Pair
      <3> QED BY <3>1, <3>2
    <2> QED BY <2>1, <2>2
  <1>6. TurnsIn(q) \subseteq TurnsIn(d.messages) \cup {r}
    BY <1>5 DEF TurnsIn
  <1> QED BY <1>2, <1>3, <1>6, TurnsNewest

LEMMA TurnsEmpty ==
  /\ \A state : TurnsIn(Blank(state).messages) = {}
  /\ \A u, title : TurnsIn(NewDocument(u, title).messages) = {}
  BY DEF TurnsIn, Blank, NewDocument

LEMMA OwnTurnsInit == Init => OwnTurnsOnly
  BY TurnsEmpty DEF Init, OwnTurnsOnly

LEMMA OwnTurnsNext == TypeOK /\ OwnTurnsOnly /\ [Next]_vars => OwnTurnsOnly'
  <1> SUFFICES ASSUME TypeOK, OwnTurnsOnly, [Next]_vars PROVE OwnTurnsOnly'
    OBVIOUS
  <1> USE DEF OwnTurnsOnly
  <1>1. CASE UNCHANGED store
    BY <1>1
  <1>2. ASSUME NEW s \in Sessions, NEW u, NEW title,
               store' = [store EXCEPT ![s] = NewDocument(u, title)]
        PROVE  OwnTurnsOnly'
    BY <1>2, TurnsEmpty DEF TypeOK
  <1>3. ASSUME NEW r \in Requests, Land(r) PROVE OwnTurnsOnly'
    <2>1. CASE Owns(Asker[r], conv[r]) /\ conv[r] \in Sessions
      <3> DEFINE s == conv[r]
                 d == Pushed(store[s], r, names[r])
      <3>1. store' = [store EXCEPT ![s] = d] /\ store \in [Sessions -> Document] /\ s \in Sessions
        BY <1>3, <2>1 DEF Land, TypeOK
      <3>2. TurnsIn(d.messages) \subseteq TurnsIn(store[s].messages) \cup {r}
        BY <3>1, TurnsPushed DEF TypeOK
      <3>3. d.owner = store[s].owner /\ store[s].owner = Asker[r]
        BY <3>1, <2>1 DEF Pushed, Owns, Document
      <3> HIDE DEF d, s
      <3> QED BY <3>1, <3>2, <3>3
    <2>2. CASE ~(Owns(Asker[r], conv[r]) /\ conv[r] \in Sessions)
      <3>1. UNCHANGED store
        BY <1>3, <2>2 DEF Land, TypeOK
      <3> QED BY <3>1, <1>1
    <2> QED BY <2>1, <2>2
  <1>4. ASSUME NEW u \in Users, Housekeeping(u) PROVE OwnTurnsOnly'
    <2>1. CASE CreateSession(u)
      <3>1. PICK s \in Sessions, title \in {"New chat", "given"} :
              store' = [store EXCEPT ![s] = NewDocument(u, title)]
        BY <2>1 DEF CreateSession
      <3> QED BY <1>2, <3>1
    <2>2. ASSUME NEW s \in Sessions, RenameSession(u, s) PROVE OwnTurnsOnly'
      BY <2>2 DEF RenameSession, TypeOK, Document
    <2>3. ASSUME NEW s \in Sessions, DeleteSession(u, s) PROVE OwnTurnsOnly'
      BY <2>3, TurnsEmpty DEF DeleteSession, TypeOK
    <2>4. CASE DeleteAllSessions(u)
      BY <2>4, TurnsEmpty DEF DeleteAllSessions, TypeOK
    <2>5. CASE BeginDeletion(u) \/ DeleteUser(u) \/ DeletionFails(u)
      BY <2>5, <1>1 DEF BeginDeletion, DeleteUser, DeletionFails
    <2> QED BY <1>4, <2>1, <2>2, <2>3, <2>4, <2>5 DEF Housekeeping
  <1>5. ASSUME NEW r \in Requests, Progress(r) PROVE OwnTurnsOnly'
    <2>1. CASE OpenNew(r)
      <3>1. PICK s \in Sessions : store' = [store EXCEPT ![s] = NewDocument(Asker[r], "New chat")]
        BY <2>1 DEF OpenNew
      <3> QED BY <1>2, <3>1
    <2>2. CASE OpenFails(r)
      <3>1. CASE UNCHANGED store
        BY <1>1, <3>1
      <3>2. CASE ~UNCHANGED store
        <4>1. PICK s \in Sessions : store' = [store EXCEPT ![s] = NewDocument(Asker[r], "New chat")]
          BY <2>2, <3>2 DEF OpenFails
        <4> QED BY <1>2, <4>1
      <3> QED BY <3>1, <3>2
    <2>3. CASE Land(r)
      BY <1>3, <2>3
    <2>4. CASE ~(OpenNew(r) \/ OpenFails(r) \/ Land(r))
      BY <1>1, <1>5, <2>4 DEF Progress, Refuse, Admit, OpenExisting, OpenMissing, Start,
         FindSession, Acknowledge, Fail, Cancelled, Reply, Report, Release
    <2> QED BY <2>1, <2>2, <2>3, <2>4
  <1>6. ASSUME NEW r \in Requests, Surprise(r) PROVE OwnTurnsOnly'
    BY <1>1, <1>6 DEF Surprise, Authenticate, Lose, Disconnect, Interrupt, LeaveEarly
  <1>7. CASE Restart
    BY <1>1, <1>7 DEF Restart
  <1>8. CASE UNCHANGED vars
    BY <1>1, <1>8 DEF vars
  <1> QED BY <1>4, <1>5, <1>6, <1>7, <1>8 DEF Next

\* Whatever session id a request names and however its update is delayed, a
\* conversation holds turns of its owner only.
THEOREM Isolation == Spec => []OwnTurnsOnly
  BY TypeInit, TypeNext, OwnTurnsInit, OwnTurnsNext, PTL DEF Spec

=============================================================================
