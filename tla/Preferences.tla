---------------------------- MODULE Preferences ----------------------------
(* The shopping memory of one account (services/preferences.py): changes   *)
(* from PATCH /api/preferences, from the tool calls of a turn, which run    *)
(* side by side, and from a direct answer, which makes several in a row.    *)
(* Adding reads the list, awaits, and then writes; the database applies one *)
(* update at a time.                                                        *)
EXTENDS Integers, Sequences, SequencesExt, FiniteSets

CONSTANTS
  Writers,           \* concurrent callers of update()
  Values,            \* what may be remembered
  TypedLimit,        \* _TYPED_LIST_LIMIT
  MemoryLimit,       \* MEMORY_MAX_ENTRIES
  Plans,             \* the runs of changes a caller makes, in order
  None

\* What the settings must be.
PreferenceSettings ==
  /\ TypedLimit \in Nat /\ MemoryLimit \in Nat \ {0}
  /\ IsFiniteSet(Writers) /\ Writers # {}

\* One field of each kind: "size" is set, the other two are lists.
Fields == {"size", "colors", "memories"}
ListFields == {"colors", "memories"}

\* The changes validate_action lets through.
Changes ==
  [field : Fields, action : {"clear"}, value : {None}]
    \cup [field : {"size"}, action : {"set"}, value : Values]
    \cup [field : ListFields, action : {"add", "remove"}, value : Values]

PlanShapes == Plans \subseteq Seq(Changes) \ {<<>>}

VARIABLES
  account,           \* the account exists
  saved,             \* preferences: each field the sequence of its values
  turn,              \* the account is in _busy
  task,              \* task[w]: [step, plan, source], the change at hand first
  kept               \* colours known to be saved and not taken back

prefVars == <<account, saved, turn, task, kept>>

Resting == [step |-> "idle", plan |-> <<>>, source |-> None]
Nothing == [f \in Fields |-> <<>>]

FirstStep(plan) ==
  IF plan = <<>> THEN "idle" ELSE IF Head(plan).action = "add" THEN "read" ELSE "write"

Init == /\ account = TRUE /\ saved = Nothing /\ turn = FALSE /\ kept = {}
        /\ task = [w \in Writers |-> Resting]

\* PATCH looks at the gate once, before its first await.
Patch(w, plan) ==
  /\ task[w] = Resting /\ ~turn /\ Len(plan) = 1
  /\ task' = [task EXCEPT ![w] = [step |-> FirstStep(plan), plan |-> plan, source |-> "patch"]]
  /\ UNCHANGED <<account, saved, turn, kept>>

\* remember_preference, or the changes of one direct answer.
Remember(w, plan) ==
  /\ task[w] = Resting /\ turn
  /\ task' = [task EXCEPT ![w] = [step |-> FirstStep(plan), plan |-> plan, source |-> "turn"]]
  /\ UNCHANGED <<account, saved, turn, kept>>

\* The change at hand is done: on to the next one of the plan.
Advance(w) ==
  LET rest == Tail(task[w].plan)
  IN  task' = [task EXCEPT ![w] =
                 IF rest = <<>> THEN Resting
                 ELSE [step |-> FirstStep(rest), plan |-> rest, source |-> task[w].source]]

\* ValueError: the rest of the plan is not attempted.
Refuse(w) == task' = [task EXCEPT ![w] = Resting]

Acknowledge(c) ==
  kept' = IF c.field # "colors" THEN kept
          ELSE CASE c.action = "add" -> kept \cup {c.value}
                 [] c.action = "remove" -> kept \ {c.value}
                 [] OTHER -> {}

\* The read before an add: known already, or no room in a typed list, or on
\* to the write.
Read(w) ==
  /\ task[w].step = "read"
  /\ LET c == Head(task[w].plan)
         known == c.value \in ToSet(saved[c.field])
         full == c.field = "colors" /\ Len(saved[c.field]) >= TypedLimit
     IN  IF ~account \/ (~known /\ full) THEN Refuse(w) /\ UNCHANGED kept
         ELSE IF known THEN Advance(w) /\ Acknowledge(c)
         ELSE task' = [task EXCEPT ![w].step = "write"] /\ UNCHANGED kept
  /\ UNCHANGED <<account, saved, turn>>

Newest(list, n) == SubSeq(list, IF Len(list) > n THEN Len(list) - n + 1 ELSE 1, Len(list))

\* Mutant: a typed value is pushed whatever the list holds by now.
PushTyped(value, list) == Append(list, value)

\* Mutant: a full typed list forgets its oldest value, like the memories do.
SliceTyped(value, list) ==
  IF value \in ToSet(list) THEN list ELSE Newest(Append(list, value), TypedLimit)

\* $pull: the others, in their order.
Without(value, list) ==
  LET others == {i \in DOMAIN list : list[i] # value}
  IN  [n \in 1..Cardinality(others) |->
         list[CHOOSE i \in others : Cardinality({j \in others : j < i}) = n - 1]]

\* $addToSet
AddToSet(value, list) == IF value \in ToSet(list) THEN list ELSE Append(list, value)

\* Mutant: clear sets null where it should unset.
ApplyNull(c, list) ==
  IF c.action = "clear" THEN <<c.value>> ELSE Without(c.value, list)

\* $unset, $set, $pull, $push with $slice, $addToSet.
Apply(c, list) ==
  CASE c.action = "clear" -> <<>>
    [] c.action = "set" -> <<c.value>>
    [] c.action = "remove" -> Without(c.value, list)
    [] c.action = "add" /\ c.field = "memories" -> Newest(Append(list, c.value), MemoryLimit)
    [] OTHER -> AddToSet(c.value, list)

\* The update of the document, as it is by then.
Write(w) ==
  /\ task[w].step = "write"
  /\ LET c == Head(task[w].plan)
     IN  IF account
           THEN /\ saved' = [saved EXCEPT ![c.field] = Apply(c, @)]
                /\ Acknowledge(c)
                /\ Advance(w)
           ELSE Refuse(w) /\ UNCHANGED <<saved, kept>>
  /\ UNCHANGED <<account, turn>>

TurnStarts == /\ ~turn /\ account /\ turn' = TRUE
              /\ UNCHANGED <<account, saved, task, kept>>

\* The end of a turn, or its timeout at any await, ends what it started; an
\* update already sent may land all the same.
TurnEnds ==
  /\ turn /\ turn' = FALSE
  /\ \E sent \in SUBSET {w \in Writers : task[w].step = "write"} :
       task' = [w \in Writers |->
                  IF task[w].source # "turn" THEN task[w]
                  ELSE IF w \notin sent THEN Resting
                  ELSE [step |-> "write", plan |-> <<Head(task[w].plan)>>, source |-> "gone"]]
  /\ UNCHANGED <<account, saved, kept>>

AccountDeleted ==
  /\ account /\ account' = FALSE /\ saved' = Nothing /\ kept' = {}
  /\ UNCHANGED <<turn, task>>

Next == \/ \E w \in Writers :
             \/ \E plan \in Plans : Patch(w, plan) \/ Remember(w, plan)
             \/ Read(w) \/ Write(w)
        \/ TurnStarts \/ TurnEnds \/ AccountDeleted

Spec == Init /\ [][Next]_prefVars

-----------------------------------------------------------------------------
\* The variables hold what their comments say.
TypeOK ==
  /\ account \in BOOLEAN /\ turn \in BOOLEAN
  /\ \A f \in Fields : ToSet(saved[f]) \subseteq Values
  /\ \A w \in Writers : /\ task[w].step \in {"idle", "read", "write"}
                        /\ ToSet(task[w].plan) \subseteq Changes
  /\ kept \subseteq Values

\* Writers that read the same list all pass its limit, so a typed list may
\* overshoot, by no more than the others that were between read and write; it
\* stays a set, and the memories never overshoot.
AddersInFlight ==
  {w \in Writers : task[w].step = "write" /\ Head(task[w].plan).action = "add"
                     /\ Head(task[w].plan).field = "colors"}
OvershootIsBounded ==
  /\ Len(saved["memories"]) <= MemoryLimit
  /\ Len(saved["colors"]) = Cardinality(ToSet(saved["colors"]))
  /\ Len(saved["colors"]) + Cardinality(AddersInFlight)
       <= TypedLimit + Cardinality(Writers) - 1

\* A colour or brand the caller was told is remembered stays until it is
\* removed or cleared, whatever other callers add meanwhile.
NothingKnownIsLost == kept \subseteq ToSet(saved["colors"])

=============================================================================
