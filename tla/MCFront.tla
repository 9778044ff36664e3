------------------------------- MODULE MCFront -------------------------------
(* The parts of a request's way that share no state, checked side by side:  *)
(* a behaviour picks one of Parts and the others stay where they start.     *)
EXTENDS RateLimit, TLC

CONSTANTS
  Parts, None,
  login, chat, w1, w2, red, blue, green, r1, shoes, c1, c2,
  Writers, Values, TypedLimit, MemoryLimit, Plans,              \* Preferences
  Products, Raw, Limit, Reviews, ProductOf, Questions, Asked,   \* Shopper
  Calls, MaxTurns,
  Conversations,                                                \* Browser
  Rows, PageSize, Shift, MaxClock, MaxInFlight                  \* SessionList

VARIABLES
  part,
  account, saved, turn, task, kept,
  merged, talk, step, question, history, calls, evidence, draft, sent, reply,
  signedIn, busy, active, messages, screen, live, text, stream, outcome, opening, deleting,
  strayed,
  clock, updated, list, cursor, inFlight, loaded, moved, backdated, mixed

limitVars == vars
prefVars == <<account, saved, turn, task, kept>>
shopVars == <<merged, talk, step, question, history, calls, evidence, draft, sent, reply>>
pageVars == <<signedIn, busy, active, messages, screen, live, text, stream, outcome, opening,
              deleting, strayed>>
listVars == <<clock, updated, list, cursor, inFlight, loaded, moved, backdated, mixed>>

-----------------------------------------------------------------------------
(* RateLimit: ticks of half a second, two limits.                          *)

SmallAllowance == login :> 2 @@ chat :> 1
SmallPeriod == login :> 3 @@ chat :> 4

(* Preferences: two writers over lists of two; every kind of change, and a *)
(* direct answer that saves a size and two colours.                        *)

Change(field, action, value) == [field |-> field, action |-> action, value |-> value]
SmallPlans == {<<Change("colors", "add", v)>> : v \in {red, blue, green}}
                \cup {<<Change("memories", "add", v)>> : v \in {red, blue}}
                \cup {<<Change("colors", "remove", red)>>, <<Change("colors", "clear", None)>>,
                      <<Change("size", "set", red), Change("colors", "add", blue),
                        Change("colors", "add", green)>>}

P == INSTANCE Preferences

(* Shopper: two turns of at most two tool calls. Of two products the one    *)
(* rated more often has no price, and a third record has no title.          *)

Record(title, price, ratings) ==
  [title |-> title, words |-> {shoes}, price |-> price, ratings |-> ratings]
SmallRaw == <<Record("boots", [kind |-> "text", numbers |-> <<10, 12>>], None),
              Record("loafers", [kind |-> "text", numbers |-> <<>>], 7),
              Record(None, [kind |-> "number", value |-> 5], 9)>>

Question(saves, best, refersBack) ==
  [memory |-> FALSE, saves |-> saves, best |-> best, refersBack |-> refersBack,
   constrained |-> FALSE]
SmallQuestions == {Question(TRUE, FALSE, FALSE), Question(FALSE, TRUE, FALSE),
                   Question(FALSE, TRUE, TRUE), Question(FALSE, FALSE, FALSE)}
SmallAsked == {[subject |-> shoes, price |-> None], [subject |-> None, price |-> 10],
               [subject |-> None, price |-> 5]}
SmallProductOf == [r \in {r1} |-> 1]

H == INSTANCE Shopper

(* Browser: two conversations.                                             *)

B == INSTANCE Browser

(* SessionList: three conversations in pages of one, one request at a time. *)

L == INSTANCE SessionList

ASSUME PartSettings ==
  P!PreferenceSettings /\ P!PlanShapes /\ H!ShopperSettings /\ L!ListSettings

-----------------------------------------------------------------------------
SuiteInit ==
  /\ part \in Parts
  /\ Init /\ (part # "limits" => now = 0)
  /\ P!Init
  /\ H!Init /\ (part # "shopper" => ~merged)
  /\ B!Init
  /\ L!Init /\ (part # "list" => updated = [r \in Rows |-> 0])

SuiteNext ==
  \/ part = "limits" /\ Next /\ UNCHANGED <<part, prefVars, shopVars, pageVars, listVars>>
  \/ part = "preferences" /\ P!Next /\ UNCHANGED <<part, limitVars, shopVars, pageVars, listVars>>
  \/ part = "shopper" /\ H!Next /\ UNCHANGED <<part, limitVars, prefVars, pageVars, listVars>>
  \/ part = "browser" /\ B!Next /\ UNCHANGED <<part, limitVars, prefVars, shopVars, listVars>>
  \/ part = "list" /\ L!Next /\ UNCHANGED <<part, limitVars, prefVars, shopVars, pageVars>>

SuiteSpec == SuiteInit /\ [][SuiteNext]_<<part, limitVars, prefVars, shopVars, pageVars, listVars>>

TypesOK == P!TypeOK /\ H!TypeOK /\ B!TypeOK /\ L!TypeOK
OvershootIsBounded == P!OvershootIsBounded
NothingKnownIsLost == P!NothingKnownIsLost
ShownIsRetrieved == H!ShownIsRetrieved
FollowUpsStayGrounded == H!FollowUpsStayGrounded
FollowUpContinues == H!FollowUpContinues
ScreenIsHonest == B!ScreenIsHonest
NoRowTwice == L!NoRowTwice
UnmovedRowsReached == L!UnmovedRowsReached

=============================================================================
