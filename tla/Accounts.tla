------------------------------- MODULE Accounts -------------------------------
(***************************************************************************)
(* Accounts and their tokens: the routes of api/auth.py over the users     *)
(* collection of services/database.py, with get_current_user of api/deps.py*)
(* in front of the routes that need a sign-in.                             *)
(*                                                                         *)
(* A route runs between its awaits without interruption, so a step is one  *)
(* database call with what the route does on its answer; what a route has  *)
(* read may be out of date at its next step.  The audit trail, the rate    *)
(* limits (module RateLimit) and the conversations that go with an account *)
(* (module ChatTurns) are left out.                                        *)
(***************************************************************************)
EXTENDS Integers, FiniteSets

CONSTANTS
  Ids,        \* the _ids Mongo may hand out (bounds the accounts ever made)
  Names,      \* usernames
  Passwords,
  Requests,   \* routes that may be running at once
  Indexed,    \* whether Mongo accepted ensure_indexes() at startup
  MaxVersion, \* bound on the token versions at which a bump still begins
  MaxTokens,  \* bound on the tokens in use at once
  None        \* no account, no name, no password

ASSUME IndexedAssumption == Indexed \in BOOLEAN
ASSUME BoundAssumption == MaxVersion \in Nat /\ MaxTokens \in Nat
ASSUME NoneAssumption == None \notin Ids /\ None \notin Names /\ None \notin Passwords

VARIABLES
  accounts, \* the users collection
  tokens,   \* the tokens in use: account and version, and for the
            \* properties how it was obtained and the password that was given
  routes    \* the running requests

vars == <<accounts, tokens, routes>>

Account == [state : {"free", "live", "deleted"}, name : Names \cup {None},
            password : Passwords \cup {None}, version : Nat]

Token == [account : Ids, version : Nat, by : {"signup", "login", "change"},
          password : Passwords]

\* `given` is the password of the request's body (the new one of a change),
\* `version` the token_version the route has read.
Route == [op : {"none", "signup", "login", "change", "signout", "delete"},
          step : {"idle", "look", "insert", "write", "reread", "mint"},
          name : Names \cup {None}, given : Passwords \cup {None},
          account : Ids \cup {None}, version : Nat]

Idle == [op |-> "none", step |-> "idle", name |-> None, given |-> None,
         account |-> None, version |-> 0]

Live(a) == accounts[a].state = "live"

\* find_one({"username": name}): there may be several without the index.
Named(name) == {a \in Ids : Live(a) /\ accounts[a].name = name}

\* get_current_user: the account exists and has the version of the token.
Valid(t) == Live(t.account) /\ accounts[t.account].version = t.version

Init ==
  /\ accounts = [a \in Ids |->
       [state |-> "free", name |-> None, password |-> None, version |-> 0]]
  /\ tokens = {}
  /\ routes = [r \in Requests |-> Idle]

End(r) == routes' = [routes EXCEPT ![r] = Idle]

-----------------------------------------------------------------------------
(* Sign-up and sign-in.                                                    *)

Enter(r, op, name, password) ==
  /\ routes[r].step = "idle"
  /\ routes' = [routes EXCEPT ![r] =
       [Idle EXCEPT !.op = op, !.step = "look", !.name = name, !.given = password]]
  /\ UNCHANGED <<accounts, tokens>>

\* signup: 409 if the name is there, else insert.
LookForSignup(r) ==
  /\ routes[r].op = "signup" /\ routes[r].step = "look"
  /\ routes' = [routes EXCEPT ![r] =
       IF Named(routes[r].name) # {} THEN Idle ELSE [@ EXCEPT !.step = "insert"]]
  /\ UNCHANGED <<accounts, tokens>>

\* Mutant: the insert does not meet the unique index.
InsertUnindexed(r) ==
  /\ routes[r].step = "insert"
  /\ \E a \in Ids :
       /\ accounts[a].state = "free"
       /\ accounts' = [accounts EXCEPT ![a] =
            [state |-> "live", name |-> routes[r].name, password |-> routes[r].given,
             version |-> 1]]
       /\ routes' = [routes EXCEPT ![r] =
            [@ EXCEPT !.step = "mint", !.account = a, !.version = 1]]
  /\ UNCHANGED tokens

\* create_user; with the index, a name that is there raises DuplicateKeyError.
Insert(r) ==
  /\ routes[r].step = "insert"
  /\ IF Indexed /\ Named(routes[r].name) # {}
     THEN End(r) /\ UNCHANGED accounts
     ELSE \E a \in Ids :
       /\ accounts[a].state = "free"
       /\ accounts' = [accounts EXCEPT ![a] =
            [state |-> "live", name |-> routes[r].name, password |-> routes[r].given,
             version |-> 1]]
       /\ routes' = [routes EXCEPT ![r] =
            [@ EXCEPT !.step = "mint", !.account = a, !.version = 1]]
  /\ UNCHANGED tokens

\* Mutant: the answer of find_user_by_username is not tested.
LookForLoginUnchecked(r) ==
  /\ routes[r].op = "login" /\ routes[r].step = "look"
  /\ \/ \E a \in Named(routes[r].name) :
          routes' = [routes EXCEPT ![r] =
            IF accounts[a].password # routes[r].given THEN Idle
            ELSE [@ EXCEPT !.step = "mint", !.account = a, !.version = accounts[a].version]]
     \/ /\ Named(routes[r].name) = {}
        /\ routes' = [routes EXCEPT ![r].step = "mint"]
  /\ UNCHANGED <<accounts, tokens>>

\* login: 401 if there is no such account or the password is another one.
LookForLogin(r) ==
  /\ routes[r].op = "login" /\ routes[r].step = "look"
  /\ \/ \E a \in Named(routes[r].name) :
          routes' = [routes EXCEPT ![r] =
            IF accounts[a].password # routes[r].given THEN Idle
            ELSE [@ EXCEPT !.step = "mint", !.account = a, !.version = accounts[a].version]]
     \/ Named(routes[r].name) = {} /\ End(r)
  /\ UNCHANGED <<accounts, tokens>>

\* Mutant: the version is read again when the token is made.
MintCurrent(r) ==
  /\ routes[r].step = "mint" /\ Cardinality(tokens) < MaxTokens
  /\ LET a == routes[r].account IN
     tokens' = tokens \cup
       {[account |-> a, version |-> accounts[a].version, by |-> routes[r].op,
         password |-> routes[r].given]}
  /\ End(r)
  /\ UNCHANGED accounts

\* create_access_token, with the version the route has read.
Mint(r) ==
  /\ routes[r].step = "mint" /\ Cardinality(tokens) < MaxTokens
  /\ tokens' = tokens \cup
       {[account |-> routes[r].account, version |-> routes[r].version, by |-> routes[r].op,
         password |-> routes[r].given]}
  /\ End(r)
  /\ UNCHANGED accounts

-----------------------------------------------------------------------------
(* The routes of a signed-in caller.                                       *)

\* get_current_user, and the check of the password against the document that
\* it read: 403, which changes nothing, unless it is the current one.
Authenticated(r, op, t, current, new) ==
  /\ routes[r].step = "idle"
  /\ Valid(t)
  /\ op \in {"change", "delete"} => accounts[t.account].password = current
  /\ op \in {"change", "signout"} => accounts[t.account].version < MaxVersion
  /\ routes' = [routes EXCEPT ![r] =
       [Idle EXCEPT !.op = op, !.step = "write", !.account = t.account,
                    !.given = IF op = "change" THEN new ELSE None]]
  /\ UNCHANGED <<accounts, tokens>>

\* Mutant: update_one(..., upsert=True).
SetPasswordUpsert(r) ==
  /\ routes[r].op = "change" /\ routes[r].step = "write"
  /\ LET a == routes[r].account IN
     accounts' = [accounts EXCEPT ![a] =
       [@ EXCEPT !.state = "live", !.password = routes[r].given,
                 !.version = IF Live(a) THEN @ + 1 ELSE 1]]
  /\ routes' = [routes EXCEPT ![r].step = "reread"]
  /\ UNCHANGED tokens

\* set_password: $set and $inc of one document, if it is still there.
SetPassword(r) ==
  /\ routes[r].op = "change" /\ routes[r].step = "write"
  /\ LET a == routes[r].account IN
     accounts' = IF Live(a)
       THEN [accounts EXCEPT ![a].password = routes[r].given, ![a].version = @ + 1]
       ELSE accounts
  /\ routes' = [routes EXCEPT ![r].step = "reread"]
  /\ UNCHANGED tokens

\* find_user_by_id after the change; of an account deleted meanwhile it is
\* None, and refreshed.get raises.
Reread(r) ==
  /\ routes[r].step = "reread"
  /\ LET a == routes[r].account IN
     routes' = [routes EXCEPT ![r] =
       IF Live(a) THEN [@ EXCEPT !.step = "mint", !.version = accounts[a].version] ELSE Idle]
  /\ UNCHANGED <<accounts, tokens>>

\* $inc of the version, if the account is still there.
Bumped(a) == IF Live(a) THEN [accounts EXCEPT ![a].version = @ + 1] ELSE accounts

BumpTokenVersion(r) ==
  /\ routes[r].op = "signout" /\ routes[r].step = "write"
  /\ accounts' = Bumped(routes[r].account)
  /\ End(r)
  /\ UNCHANGED tokens

DeleteUser(r) ==
  /\ routes[r].op = "delete" /\ routes[r].step = "write"
  /\ accounts' = [accounts EXCEPT ![routes[r].account].state = "deleted"]
  /\ End(r)
  /\ UNCHANGED tokens

\* The database cannot be reached, or the process is restarted: the route
\* ends before its next step.
Fail(r) ==
  /\ routes[r].step # "idle"
  /\ End(r)
  /\ UNCHANGED <<accounts, tokens>>

\* A token expires, or the browser that had it signs out.
Expire(t) ==
  /\ t \in tokens
  /\ tokens' = tokens \ {t}
  /\ UNCHANGED <<accounts, routes>>

Next ==
  \/ \E r \in Requests :
       \/ \E op \in {"signup", "login"}, name \in Names, password \in Passwords :
            Enter(r, op, name, password)
       \/ \E op \in {"change", "signout", "delete"}, t \in tokens, current, new \in Passwords :
            Authenticated(r, op, t, current, new)
       \/ LookForSignup(r) \/ Insert(r) \/ LookForLogin(r) \/ Mint(r)
       \/ SetPassword(r) \/ Reread(r) \/ BumpTokenVersion(r) \/ DeleteUser(r)
       \/ Fail(r)
  \/ \E t \in tokens : Expire(t)

Spec == Init /\ [][Next]_vars

-----------------------------------------------------------------------------
(* Properties.                                                             *)

\* Every variable has values of its kind, and a route has what its step needs.
TypeOK ==
  /\ accounts \in [Ids -> Account]
  /\ tokens \subseteq Token
  /\ routes \in [Requests -> Route]
  /\ \A r \in Requests :
       /\ routes[r].step \in {"look", "insert"} => routes[r].op \in {"signup", "login"}
       /\ routes[r].step \in {"look", "insert", "mint"} => routes[r].given \in Passwords
       /\ routes[r].step \in {"write", "reread", "mint"} => routes[r].account \in Ids
       /\ routes[r].step = "mint" => routes[r].op \in {"signup", "login", "change"}
       /\ routes[r].step = "reread" => routes[r].op = "change"
       /\ routes[r].op = "change" => routes[r].given \in Passwords

\* "The index is what survives two simultaneous requests - both would pass the
\* read": no two accounts share a name, and a name that a deletion has freed
\* may be taken again.
UniqueNames ==
  Indexed => \A a, b \in Ids : Live(a) /\ Live(b) /\ accounts[a].name = accounts[b].name => a = b

\* A token that stopped working never works again: not after further changes
\* of the account, nor when its name is taken by another.
RevokedStaysRevoked ==
  [][\A t \in tokens : ~Valid(t) => ~Valid(t)']_vars

\* Whoever signed in with a password is out once it is changed, also when the
\* change came between the read of the account and the making of the token.
SignInsKnowPassword ==
  \A t \in tokens : Valid(t) /\ t.by # "change" =>
    t.password = accounts[t.account].password

\* change_password "changes the password and signs out every other session":
\* a token that works belongs to someone who gave or set the password in force.
ChangeSignsOutOthers ==
  \A t \in tokens : Valid(t) => t.password = accounts[t.account].password

=============================================================================
