----------------------------- MODULE TurnLedger -----------------------------
(***************************************************************************)
(* What the shopping API promises about turns and conversations: the turns *)
(* of an account run one at a time; a turn is added to a conversation of   *)
(* its own account, whole, at the end and at most once, even after it was  *)
(* given up; a conversation keeps its newest turns; one that is removed    *)
(* does not come back.                                                     *)
(***************************************************************************)
EXTENDS Integers, Sequences

CONSTANTS
  Users, Sessions, None,
  Turns,      \* the questions asked
  AskedBy,    \* the account that asks each of them
  Keep        \* turns a conversation keeps

VARIABLES
  chats,      \* the conversations: not yet opened, live, or removed
  stage,      \* of each turn: waiting, running or over
  saved       \* the turns that have been added to a conversation

ledgerVars == <<chats, stage, saved>>

NoChat(state) == [state |-> state, owner |-> None, turns |-> <<>>]

Init ==
  /\ chats = [s \in Sessions |-> NoChat("free")]
  /\ stage = [t \in Turns |-> "waiting"]
  /\ saved = {}

Open(u, s) ==
  /\ chats[s].state = "free"
  /\ chats' = [chats EXCEPT ![s] = [state |-> "live", owner |-> u, turns |-> <<>>]]
  /\ UNCHANGED <<stage, saved>>

\* An account removes one of its conversations, or all of them.
Remove(u, S) ==
  /\ \A s \in S : chats[s].state = "live" /\ chats[s].owner = u
  /\ chats' = [s \in Sessions |-> IF s \in S THEN NoChat("deleted") ELSE chats[s]]
  /\ UNCHANGED <<stage, saved>>

Begin(t) ==
  /\ stage[t] = "waiting"
  /\ \A t2 \in Turns : stage[t2] = "running" => AskedBy[t2] # AskedBy[t]
  /\ stage' = [stage EXCEPT ![t] = "running"]
  /\ UNCHANGED <<chats, saved>>

\* Turns end: one of them, or all when the server stops.
End(T) ==
  /\ \A t \in T : stage[t] = "running"
  /\ stage' = [t \in Turns |-> IF t \in T THEN "over" ELSE stage[t]]
  /\ UNCHANGED <<chats, saved>>

\* The turns a conversation keeps of those it was given.
Latest(turns) ==
  IF Len(turns) <= Keep THEN turns ELSE SubSeq(turns, Len(turns) - Keep + 1, Len(turns))

Commit(t, s) ==
  /\ stage[t] # "waiting"
  /\ t \notin saved
  /\ chats[s].state = "live" /\ chats[s].owner = AskedBy[t]
  /\ chats' = [chats EXCEPT ![s].turns = Latest(Append(@, t))]
  /\ saved' = saved \cup {t}
  /\ UNCHANGED stage

Next ==
  \/ \E u \in Users : \/ \E s \in Sessions : Open(u, s)
                      \/ \E S \in SUBSET Sessions : Remove(u, S)
  \/ \E t \in Turns : Begin(t) \/ \E s \in Sessions : Commit(t, s)
  \/ \E T \in SUBSET Turns : End(T)

Spec == Init /\ [][Next]_ledgerVars

=============================================================================
