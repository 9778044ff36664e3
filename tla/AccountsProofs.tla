---------------------------- MODULE AccountsProofs ----------------------------
(***************************************************************************)
(* Theorems about Accounts, for any accounts, names, passwords and number  *)
(* of routes running at once.                                              *)
(***************************************************************************)
EXTENDS Accounts, TLAPS

LEMMA IdleType == Idle \in Route
  BY DEF Idle, Route

LEMMA TypeInit == Init => TypeOK
  <1> SUFFICES ASSUME Init PROVE TypeOK
    OBVIOUS
  <1>1. accounts \in [Ids -> Account]
    BY DEF Init, Account
  <1>2. routes \in [Requests -> Route] /\ \A r \in Requests : routes[r] = Idle
    BY IdleType DEF Init
  <1>3. tokens \subseteq Token
    BY DEF Init
  <1> QED BY <1>1, <1>2, <1>3 DEF TypeOK, Idle

LEMMA TypeNext == TypeOK /\ [Next]_vars => TypeOK'
  <1> SUFFICES ASSUME TypeOK, [Next]_vars PROVE TypeOK'
    OBVIOUS
  <1>1. ASSUME NEW r \in Requests, End(r), UNCHANGED <<accounts, tokens>> PROVE TypeOK'
    BY <1>1, IdleType DEF End, TypeOK, Idle
  <1>2. ASSUME NEW r \in Requests, NEW op \in {"signup", "login"}, NEW name \in Names,
               NEW password \in Passwords, Enter(r, op, name, password)
        PROVE  TypeOK'
    BY <1>2 DEF Enter, TypeOK, Idle, Route
  <1>3. ASSUME NEW r \in Requests, NEW op \in {"change", "signout", "delete"}, NEW t \in tokens,
               NEW current \in Passwords, NEW new \in Passwords,
               Authenticated(r, op, t, current, new)
        PROVE  TypeOK'
    <2>1. t.account \in Ids
      BY DEF TypeOK, Token
    <2> QED BY <1>3, <2>1 DEF Authenticated, TypeOK, Idle, Route
  <1>4. ASSUME NEW r \in Requests, LookForSignup(r) PROVE TypeOK'
    BY <1>4, IdleType DEF LookForSignup, TypeOK, Idle, Route
  <1>5. ASSUME NEW r \in Requests, Insert(r) PROVE TypeOK'
    <2>1. CASE Indexed /\ Named(routes[r].name) # {}
      BY <1>1, <1>5, <2>1 DEF Insert
    <2>2. CASE ~(Indexed /\ Named(routes[r].name) # {})
      <3>1. PICK a \in Ids :
              /\ accounts' = [accounts EXCEPT ![a] =
                   [state |-> "live", name |-> routes[r].name, password |-> routes[r].given,
                    version |-> 1]]
              /\ routes' = [routes EXCEPT ![r] =
                   [@ EXCEPT !.step = "mint", !.account = a, !.version = 1]]
        BY <1>5, <2>2 DEF Insert
      <3>2. /\ routes[r].name \in Names \cup {None} /\ routes[r].given \in Passwords
            /\ routes[r].op \in {"signup", "login"}
        BY <1>5 DEF Insert, TypeOK, Route
      <3>3. accounts' \in [Ids -> Account]
        BY <3>1, <3>2 DEF TypeOK, Account
      <3>4. tokens' = tokens
        BY <1>5 DEF Insert
      <3> DEFINE new == [routes[r] EXCEPT !.step = "mint", !.account = a, !.version = 1]
      <3>5. new \in Route /\ new.step = "mint" /\ new.account = a
            /\ new.given = routes[r].given /\ new.op = routes[r].op
        BY <3>2 DEF TypeOK, Route
      <3>6. routes' = [routes EXCEPT ![r] = new]
        BY <3>1
      <3> HIDE DEF new
      <3> QED BY <3>2, <3>3, <3>4, <3>5, <3>6 DEF TypeOK
    <2> QED BY <2>1, <2>2
  <1>6. ASSUME NEW r \in Requests, LookForLogin(r) PROVE TypeOK'
    <2>1. CASE End(r)
      BY <1>1, <1>6, <2>1 DEF LookForLogin
    <2>2. CASE \E a \in Named(routes[r].name) :
                 routes' = [routes EXCEPT ![r] =
                   IF accounts[a].password # routes[r].given THEN Idle
                   ELSE [@ EXCEPT !.step = "mint", !.account = a,
                                  !.version = accounts[a].version]]
      <3>1. PICK a \in Named(routes[r].name) :
                 routes' = [routes EXCEPT ![r] =
                   IF accounts[a].password # routes[r].given THEN Idle
                   ELSE [@ EXCEPT !.step = "mint", !.account = a,
                                  !.version = accounts[a].version]]
        BY <2>2
      <3>2. a \in Ids /\ accounts[a].version \in Nat
        BY DEF Named, TypeOK, Account
      <3> QED BY <1>6, <3>1, <3>2, IdleType DEF LookForLogin, TypeOK, Idle, Route
    <2> QED BY <1>6, <2>1, <2>2 DEF LookForLogin
  <1>7. ASSUME NEW r \in Requests, Mint(r) PROVE TypeOK'
    <2>1. tokens' \subseteq Token
      BY <1>7 DEF Mint, TypeOK, Token, Route
    <2> QED BY <1>7, <2>1, IdleType DEF Mint, End, TypeOK, Idle
  <1>8. ASSUME NEW r \in Requests, SetPassword(r) PROVE TypeOK'
    <2> DEFINE a == routes[r].account
    <2>1. a \in Ids /\ routes[r].given \in Passwords
      BY <1>8 DEF SetPassword, TypeOK
    <2>2. accounts' \in [Ids -> Account]
      <3>1. accounts \in [Ids -> Account] /\ accounts[a] \in Account
        BY <2>1 DEF TypeOK
      <3>2. CASE ~Live(a)
        BY <1>8, <3>1, <3>2 DEF SetPassword
      <3>3. CASE Live(a)
        <4>1. accounts' = [accounts EXCEPT ![a].password = routes[r].given, ![a].version = @ + 1]
          BY <1>8, <3>3 DEF SetPassword
        <4>2. accounts[a].version + 1 \in Nat
          BY <3>1 DEF Account
        <4> HIDE DEF a
        <4> QED BY <2>1, <3>1, <4>1, <4>2 DEF Account
      <3> QED BY <3>2, <3>3
    <2>3. routes' = [routes EXCEPT ![r].step = "reread"] /\ routes[r].op = "change"
          /\ tokens' = tokens
      BY <1>8 DEF SetPassword
    <2> DEFINE new == [routes[r] EXCEPT !.step = "reread"]
    <2>4. new \in Route /\ new.step = "reread" /\ new.account = a
          /\ new.given = routes[r].given /\ new.op = "change"
      BY <2>1, <2>3 DEF TypeOK, Route
    <2>5. routes' = [routes EXCEPT ![r] = new]
      BY <2>3
    <2> HIDE DEF new
    <2> QED BY <2>1, <2>2, <2>3, <2>4, <2>5 DEF TypeOK
  <1>9. ASSUME NEW r \in Requests, Reread(r) PROVE TypeOK'
    <2> DEFINE a == routes[r].account
               new == [routes[r] EXCEPT !.step = "mint", !.version = accounts[a].version]
    <2>1. a \in Ids /\ routes[r].op = "change" /\ routes[r].given \in Passwords
      BY <1>9 DEF Reread, TypeOK
    <2>2. accounts[a].version \in Nat
      BY <2>1 DEF TypeOK, Account
    <2>3. new \in Route /\ new.step = "mint" /\ new.account = a
          /\ new.given = routes[r].given /\ new.op = "change"
      BY <2>1, <2>2 DEF TypeOK, Route
    <2>4. routes' = [routes EXCEPT ![r] = IF Live(a) THEN new ELSE Idle]
      BY <1>9 DEF Reread
    <2>5. UNCHANGED <<accounts, tokens>>
      BY <1>9 DEF Reread
    <2> HIDE DEF new
    <2> QED BY <2>1, <2>3, <2>4, <2>5, IdleType DEF TypeOK, Idle
  <1>10. ASSUME NEW r \in Requests, BumpTokenVersion(r) PROVE TypeOK'
    <2>1. accounts' \in [Ids -> Account]
      BY <1>10 DEF BumpTokenVersion, Bumped, TypeOK, Account
    <2> QED BY <1>10, <2>1, IdleType DEF BumpTokenVersion, Bumped, End, TypeOK, Idle
  <1>11. ASSUME NEW r \in Requests, DeleteUser(r) PROVE TypeOK'
    <2>1. accounts' \in [Ids -> Account]
      BY <1>11 DEF DeleteUser, TypeOK, Account
    <2> QED BY <1>11, <2>1, IdleType DEF DeleteUser, End, TypeOK, Idle
  <1>12. ASSUME NEW r \in Requests, Fail(r) PROVE TypeOK'
    BY <1>1, <1>12 DEF Fail
  <1>13. ASSUME NEW t \in tokens, Expire(t) PROVE TypeOK'
    BY <1>13 DEF Expire, TypeOK
  <1>14. CASE UNCHANGED vars
    BY <1>14 DEF vars, TypeOK
  <1> QED BY <1>2, <1>3, <1>4, <1>5, <1>6, <1>7, <1>8, <1>9, <1>10, <1>11, <1>12, <1>13,
             <1>14 DEF Next

\* Every variable keeps values of its kind, and a route what its step needs.
THEOREM TypeCorrect == Spec => []TypeOK
  BY TypeInit, TypeNext, PTL DEF Spec

-----------------------------------------------------------------------------
(* Names.                                                                  *)

\* With the unique index no two accounts have one name, however sign-ups and
\* deletions interleave.
THEOREM OneNameOneAccount == Spec => []UniqueNames
  <1>1. Init => UniqueNames
    BY DEF Init, UniqueNames, Live
  <1>2. TypeOK /\ UniqueNames /\ [Next]_vars => UniqueNames'
    <2> SUFFICES ASSUME TypeOK, UniqueNames, [Next]_vars PROVE UniqueNames'
      OBVIOUS
    <2>1. ASSUME UNCHANGED accounts PROVE UniqueNames'
      BY <2>1 DEF UniqueNames, Live
    <2>2. ASSUME NEW r \in Requests, Insert(r) PROVE UniqueNames'
      <3>1. CASE ~Indexed
        BY <3>1 DEF UniqueNames
      <3>2. CASE Indexed /\ Named(routes[r].name) # {}
        BY <2>1, <2>2, <3>2 DEF Insert
      <3>3. CASE Indexed /\ Named(routes[r].name) = {}
        <4>1. PICK a \in Ids :
                accounts' = [accounts EXCEPT ![a] =
                  [state |-> "live", name |-> routes[r].name, password |-> routes[r].given,
                   version |-> 1]]
          BY <2>2, <3>3 DEF Insert
        <4>2. \A b \in Ids : b # a => accounts'[b] = accounts[b]
          BY <4>1 DEF TypeOK
        <4>3. accounts'[a].name = routes[r].name
          BY <4>1 DEF TypeOK
        <4>4. \A b \in Ids : Live(b) => accounts[b].name # routes[r].name
          BY <3>3 DEF Named
        <4> QED BY <4>2, <4>3, <4>4 DEF UniqueNames, Live
      <3> QED BY <3>1, <3>2, <3>3
    <2>3. ASSUME NEW r \in Requests, SetPassword(r) PROVE UniqueNames'
      BY <2>3 DEF SetPassword, UniqueNames, Live, TypeOK, Account
    <2>4. ASSUME NEW r \in Requests, BumpTokenVersion(r) PROVE UniqueNames'
      BY <2>4 DEF BumpTokenVersion, Bumped, UniqueNames, Live, TypeOK, Account
    <2>5. ASSUME NEW r \in Requests, DeleteUser(r) PROVE UniqueNames'
      BY <2>5 DEF DeleteUser, UniqueNames, Live, TypeOK, Account
    <2>6. ASSUME NEW r \in Requests,
                 \/ LookForSignup(r) \/ LookForLogin(r) \/ Mint(r) \/ Reread(r) \/ Fail(r)
          PROVE  UNCHANGED accounts
      BY <2>6 DEF LookForSignup, LookForLogin, Mint, Reread, Fail
    <2>7. ASSUME NEW r \in Requests, NEW op, NEW name, NEW password, Enter(r, op, name, password)
          PROVE  UNCHANGED accounts
      BY <2>7 DEF Enter
    <2>8. ASSUME NEW r \in Requests, NEW op, NEW t, NEW current, NEW new,
                 Authenticated(r, op, t, current, new)
          PROVE  UNCHANGED accounts
      BY <2>8 DEF Authenticated
    <2>9. ASSUME NEW t \in tokens, Expire(t) PROVE UNCHANGED accounts
      BY <2>9 DEF Expire
    <2>10. ASSUME UNCHANGED vars PROVE UNCHANGED accounts
      BY <2>10 DEF vars
    <2> QED BY <2>1, <2>2, <2>3, <2>4, <2>5, <2>6, <2>7, <2>8, <2>9, <2>10 DEF Next
  <1> QED BY <1>1, <1>2, TypeCorrect, PTL DEF Spec

-----------------------------------------------------------------------------
(* Tokens.  What keeps a token that stopped working from working again is   *)
(* that an account's version never falls, and that a token never has a      *)
(* version its account has not reached.                                     *)

\* How an account may change in a step.
Ages ==
  \A a \in Ids :
    /\ accounts[a].state # "free" =>
         accounts'[a].state # "free" /\ accounts'[a].version >= accounts[a].version
    /\ accounts[a].state = "deleted" => accounts'[a].state = "deleted"
    /\ accounts[a].state # "free" /\ accounts'[a].version = accounts[a].version =>
         accounts'[a].password = accounts[a].password

\* The account of a token, or of a route that is about to make one, exists
\* and has the version or a later one; if it is still the version of a token
\* obtained by a sign-in, the password is the one that was given.
Reached(a, version) == accounts[a].state # "free" /\ version <= accounts[a].version
Current(a, version, password) ==
  accounts[a].version = version => accounts[a].password = password

TokenOK(t) ==
  /\ Reached(t.account, t.version)
  /\ t.by # "change" => Current(t.account, t.version, t.password)

RouteOK(x) ==
  /\ x.step \in {"write", "reread", "mint"} => accounts[x.account].state # "free"
  /\ x.step = "mint" =>
       /\ Reached(x.account, x.version)
       /\ x.op # "change" => Current(x.account, x.version, x.given)

TokenInv ==
  /\ \A t \in tokens : TokenOK(t)
  /\ \A r \in Requests : RouteOK(routes[r])

LEMMA StepAges ==
  ASSUME TypeOK, TokenInv, [Next]_vars
  PROVE  Ages
  <1>1. ASSUME UNCHANGED accounts PROVE Ages
    BY <1>1 DEF Ages, TypeOK, Account
  <1>2. ASSUME NEW r \in Requests, Insert(r) PROVE Ages
    <2>1. CASE UNCHANGED accounts
      BY <1>1, <2>1
    <2>2. CASE ~(UNCHANGED accounts)
      <3>1. PICK a \in Ids :
              /\ accounts[a].state = "free"
              /\ accounts' = [accounts EXCEPT ![a] =
                   [state |-> "live", name |-> routes[r].name, password |-> routes[r].given,
                    version |-> 1]]
        BY <1>2, <2>2 DEF Insert
      <3>2. \A b \in Ids : b # a => accounts'[b] = accounts[b]
        BY <3>1 DEF TypeOK
      <3> QED BY <3>1, <3>2 DEF Ages, TypeOK, Account
    <2> QED BY <2>1, <2>2
  <1>3. ASSUME NEW r \in Requests, SetPassword(r) PROVE Ages
    <2> DEFINE a == routes[r].account
    <2>1. a \in Ids
      BY <1>3 DEF SetPassword, TypeOK
    <2>2. CASE ~Live(a)
      BY <1>1, <1>3, <2>2 DEF SetPassword
    <2>3. CASE Live(a)
      <3>1. accounts' = [accounts EXCEPT ![a].password = routes[r].given, ![a].version = @ + 1]
        BY <1>3, <2>3 DEF SetPassword
      <3>2. \A b \in Ids : b # a => accounts'[b] = accounts[b]
        BY <3>1 DEF TypeOK
      <3>3. accounts[a] \in Account /\ accounts[a].version \in Nat /\ accounts[a].state = "live"
        BY <2>1, <2>3 DEF TypeOK, Account, Live
      <3> HIDE DEF a
      <3>4. accounts'[a].state = "live" /\ accounts'[a].version = accounts[a].version + 1
        BY <2>1, <3>1, <3>3 DEF TypeOK, Account
      <3> QED BY <3>2, <3>3, <3>4 DEF Ages, TypeOK, Account
    <2> QED BY <2>2, <2>3
  <1>4. ASSUME NEW r \in Requests, BumpTokenVersion(r) PROVE Ages
    <2> DEFINE a == routes[r].account
    <2>1. a \in Ids
      BY <1>4 DEF BumpTokenVersion, Bumped, TypeOK
    <2>2. CASE ~Live(a)
      BY <1>1, <1>4, <2>2 DEF BumpTokenVersion, Bumped
    <2>3. CASE Live(a)
      <3>1. accounts' = [accounts EXCEPT ![a].version = @ + 1]
        BY <1>4, <2>3 DEF BumpTokenVersion, Bumped
      <3>2. \A b \in Ids : b # a => accounts'[b] = accounts[b]
        BY <3>1 DEF TypeOK
      <3>3. accounts'[a].state = "live" /\ accounts'[a].version = accounts[a].version + 1
            /\ accounts[a].version \in Nat /\ accounts[a].state = "live"
        BY <2>1, <2>3, <3>1 DEF TypeOK, Account, Live
      <3> HIDE DEF a
      <3> QED BY <3>2, <3>3 DEF Ages, TypeOK, Account
    <2> QED BY <2>2, <2>3
  <1>5. ASSUME NEW r \in Requests, DeleteUser(r) PROVE Ages
    <2> DEFINE a == routes[r].account
    <2>1. a \in Ids
      BY <1>5 DEF DeleteUser, TypeOK
    <2>2. accounts' = [accounts EXCEPT ![a].state = "deleted"]
      BY <1>5 DEF DeleteUser
    <2>3. \A b \in Ids : b # a => accounts'[b] = accounts[b]
      BY <2>2 DEF TypeOK
    <2>4. accounts'[a].state = "deleted" /\ accounts'[a].version = accounts[a].version
          /\ accounts'[a].password = accounts[a].password
      BY <2>1, <2>2 DEF TypeOK, Account
    <2> HIDE DEF a
    <2> QED BY <2>3, <2>4 DEF Ages, TypeOK, Account
  <1>6. ASSUME NEW r \in Requests,
               \/ LookForSignup(r) \/ LookForLogin(r) \/ Mint(r) \/ Reread(r) \/ Fail(r)
        PROVE  UNCHANGED accounts
    BY <1>6 DEF LookForSignup, LookForLogin, Mint, Reread, Fail
  <1>7. ASSUME NEW r \in Requests, NEW op, NEW name, NEW password, Enter(r, op, name, password)
        PROVE  UNCHANGED accounts
    BY <1>7 DEF Enter
  <1>8. ASSUME NEW r \in Requests, NEW op, NEW t, NEW current, NEW new,
               Authenticated(r, op, t, current, new)
        PROVE  UNCHANGED accounts
    BY <1>8 DEF Authenticated
  <1>9. ASSUME NEW t \in tokens, Expire(t) PROVE UNCHANGED accounts
    BY <1>9 DEF Expire
  <1>10. ASSUME UNCHANGED vars PROVE UNCHANGED accounts
    BY <1>10 DEF vars
  <1> QED BY <1>1, <1>2, <1>3, <1>4, <1>5, <1>6, <1>7, <1>8, <1>9, <1>10 DEF Next

LEMMA TokenInit == Init => TokenInv
  BY DEF Init, TokenInv, RouteOK, Idle

\* What held of a token or a waiting route goes on holding.
LEMMA Kept ==
  ASSUME TypeOK, TypeOK', Ages
  PROVE  /\ \A t \in tokens : TokenOK(t) => TokenOK(t)'
         /\ \A r \in Requests :
              RouteOK(routes[r]) /\ routes'[r] = routes[r] => RouteOK(routes[r])'
  <1>1. ASSUME NEW a \in Ids, NEW version \in Nat, Reached(a, version)
        PROVE  /\ Reached(a, version)'
               /\ \A password : Current(a, version, password) => Current(a, version, password)'
    <2>1. accounts[a].version \in Nat /\ accounts'[a].version \in Nat
      BY DEF TypeOK, Account
    <2>2. /\ accounts[a].state # "free" /\ version <= accounts[a].version
          /\ accounts'[a].state # "free" /\ accounts[a].version <= accounts'[a].version
      BY <1>1, <2>1 DEF Reached, Ages
    <2>3. Reached(a, version)'
      BY <2>1, <2>2 DEF Reached
    <2>4. ASSUME accounts'[a].version = version
          PROVE  accounts[a].version = version /\ accounts'[a].password = accounts[a].password
      BY <2>1, <2>2, <2>4 DEF Ages
    <2> QED BY <2>3, <2>4 DEF Current
  <1>2. ASSUME NEW t \in tokens, TokenOK(t) PROVE TokenOK(t)'
    <2>1. t.account \in Ids /\ t.version \in Nat
      BY DEF TypeOK, Token
    <2> QED BY <1>1, <1>2, <2>1 DEF TokenOK
  <1>3. ASSUME NEW r \in Requests, RouteOK(routes[r]), routes'[r] = routes[r]
        PROVE  RouteOK(routes[r])'
    <2> DEFINE x == routes[r]
    <2>1. x.step \in {"write", "reread", "mint"} => x.account \in Ids
      BY DEF TypeOK
    <2>2. x.version \in Nat
      BY DEF TypeOK, Route
    <2>3. x.step \in {"write", "reread", "mint"} => accounts'[x.account].state # "free"
      BY <1>3, <2>1 DEF RouteOK, Ages
    <2>4. x.step = "mint" =>
            /\ Reached(x.account, x.version)'
            /\ x.op # "change" => Current(x.account, x.version, x.given)'
      BY <1>1, <1>3, <2>1, <2>2 DEF RouteOK, Reached, Current
    <2> QED BY <1>3, <2>3, <2>4 DEF RouteOK, Reached, Current
  <1> QED BY <1>2, <1>3

LEMMA TokenNext ==
  ASSUME TypeOK, TokenInv, [Next]_vars
  PROVE  TokenInv'
  <1>1. TypeOK' /\ Ages
    BY TypeNext, StepAges
  <1>2. ASSUME tokens' \subseteq tokens PROVE \A t \in tokens' : TokenOK(t)'
    BY <1>1, <1>2, Kept DEF TokenInv
  <1>3. ASSUME NEW r \in Requests, routes'[r] = routes[r] PROVE RouteOK(routes[r])'
    BY <1>1, <1>3, Kept DEF TokenInv
  <1>4. ASSUME NEW r \in Requests, routes'[r] = Idle PROVE RouteOK(routes[r])'
    BY <1>4 DEF RouteOK, Idle
  <1>5. ASSUME NEW r \in Requests,
               \A q \in Requests \ {r} : routes'[q] = routes[q], RouteOK(routes[r])'
        PROVE  \A q \in Requests : RouteOK(routes[q])'
    BY <1>3, <1>5
  <1>6. ASSUME NEW r \in Requests, NEW op, NEW name, NEW password, Enter(r, op, name, password)
        PROVE  TokenInv'
    <2>1. routes'[r].step = "look"
      BY <1>6 DEF Enter, TypeOK, Idle
    <2>2. RouteOK(routes[r])'
      BY <2>1 DEF RouteOK
    <2> QED BY <1>2, <1>5, <1>6, <2>2 DEF Enter, TokenInv, TypeOK
  <1>7. ASSUME NEW r \in Requests, NEW op, NEW t \in tokens, NEW current, NEW new,
               Authenticated(r, op, t, current, new)
        PROVE  TokenInv'
    <2>1. routes'[r].step = "write" /\ routes'[r].account = t.account
      BY <1>7 DEF Authenticated, TypeOK, Idle
    <2>2. accounts'[t.account].state # "free"
      BY <1>7 DEF Authenticated, Valid, Live
    <2>3. RouteOK(routes[r])'
      BY <2>1, <2>2 DEF RouteOK
    <2> QED BY <1>2, <1>5, <1>7, <2>3 DEF Authenticated, TokenInv, TypeOK
  <1>8. ASSUME NEW r \in Requests, End(r), UNCHANGED tokens PROVE TokenInv'
    <2>1. routes'[r] = Idle
      BY <1>8 DEF End, TypeOK
    <2> QED BY <1>2, <1>4, <1>5, <1>8, <2>1 DEF End, TokenInv, TypeOK
  <1>9. ASSUME NEW r \in Requests, LookForSignup(r) PROVE TokenInv'
    <2>1. CASE Named(routes[r].name) # {}
      BY <1>8, <1>9, <2>1 DEF LookForSignup, End
    <2>2. CASE Named(routes[r].name) = {}
      <3>1. routes' = [routes EXCEPT ![r].step = "insert"]
        BY <1>9, <2>2 DEF LookForSignup
      <3>2. routes'[r].step = "insert"
        BY <3>1 DEF TypeOK, Route
      <3>3. RouteOK(routes[r])'
        BY <3>2 DEF RouteOK
      <3> QED BY <1>2, <1>5, <1>9, <3>1, <3>3 DEF LookForSignup, TokenInv, TypeOK
    <2> QED BY <2>1, <2>2
  <1>10. ASSUME NEW r \in Requests, Insert(r) PROVE TokenInv'
    <2>1. CASE End(r)
      BY <1>8, <1>10, <2>1 DEF Insert
    <2>2. CASE ~End(r)
      <3>1. PICK a \in Ids :
              /\ accounts' = [accounts EXCEPT ![a] =
                   [state |-> "live", name |-> routes[r].name, password |-> routes[r].given,
                    version |-> 1]]
              /\ routes' = [routes EXCEPT ![r] =
                   [@ EXCEPT !.step = "mint", !.account = a, !.version = 1]]
        BY <1>10, <2>2 DEF Insert
      <3>2. /\ routes'[r].account = a /\ routes'[r].version = 1
            /\ routes'[r].given = routes[r].given
        BY <3>1 DEF TypeOK, Route
      <3>3. /\ accounts'[a].state = "live" /\ accounts'[a].version = 1
            /\ accounts'[a].password = routes[r].given
        BY <3>1 DEF TypeOK
      <3>4. RouteOK(routes[r])'
        BY <3>2, <3>3 DEF RouteOK, Reached, Current
      <3> QED BY <1>2, <1>5, <1>10, <3>1, <3>4 DEF Insert, TokenInv, TypeOK
    <2> QED BY <2>1, <2>2
  <1>11. ASSUME NEW r \in Requests, LookForLogin(r) PROVE TokenInv'
    <2>1. CASE End(r)
      BY <1>8, <1>11, <2>1 DEF LookForLogin
    <2>2. CASE ~End(r)
      <3>1. PICK a \in Named(routes[r].name) :
              routes' = [routes EXCEPT ![r] =
                IF accounts[a].password # routes[r].given THEN Idle
                ELSE [@ EXCEPT !.step = "mint", !.account = a, !.version = accounts[a].version]]
        BY <1>11, <2>2 DEF LookForLogin
      <3>2. accounts[a].password = routes[r].given
        BY <2>2, <3>1 DEF End
      <3>3. /\ routes'[r].account = a /\ routes'[r].version = accounts[a].version
            /\ routes'[r].given = routes[r].given
        BY <3>1, <3>2 DEF TypeOK, Route
      <3>4. a \in Ids /\ accounts[a].state = "live" /\ accounts[a].version \in Nat
            /\ accounts' = accounts
        BY <1>11 DEF LookForLogin, Named, Live, TypeOK, Account
      <3>5. RouteOK(routes[r])'
        BY <3>2, <3>3, <3>4 DEF RouteOK, Reached, Current
      <3> QED BY <1>2, <1>5, <1>11, <3>1, <3>5 DEF LookForLogin, TokenInv, TypeOK
    <2> QED BY <2>1, <2>2
  <1>12. ASSUME NEW r \in Requests, Mint(r) PROVE TokenInv'
    <2>1. PICK new : new = [account |-> routes[r].account, version |-> routes[r].version,
                            by |-> routes[r].op, password |-> routes[r].given]
      OBVIOUS
    <2>2. tokens' = tokens \cup {new} /\ routes' = [routes EXCEPT ![r] = Idle]
          /\ accounts' = accounts /\ routes[r].step = "mint"
      BY <1>12, <2>1 DEF Mint, End
    <2>3. RouteOK(routes[r])
      BY DEF TokenInv
    <2>4. TokenOK(new)'
      BY <2>1, <2>2, <2>3 DEF RouteOK, TokenOK, Reached, Current
    <2>5. \A t \in tokens : TokenOK(t)'
      BY <1>1, Kept DEF TokenInv
    <2>6. \A q \in Requests : RouteOK(routes[q])'
      BY <1>4, <1>5, <2>2 DEF TypeOK
    <2> QED BY <2>2, <2>4, <2>5, <2>6 DEF TokenInv
  <1>13. ASSUME NEW r \in Requests, SetPassword(r) PROVE TokenInv'
    <2>1. routes' = [routes EXCEPT ![r].step = "reread"] /\ tokens' = tokens
          /\ routes[r].step = "write"
      BY <1>13 DEF SetPassword
    <2>2. routes'[r].step = "reread" /\ routes'[r].account = routes[r].account
          /\ routes[r].account \in Ids
      BY <2>1 DEF TypeOK, Route
    <2>3. accounts'[routes[r].account].state # "free"
      BY <1>1, <2>1, <2>2 DEF Ages, TokenInv, RouteOK
    <2>4. RouteOK(routes[r])'
      BY <2>2, <2>3 DEF RouteOK
    <2> QED BY <1>2, <1>5, <2>1, <2>4 DEF TokenInv, TypeOK
  <1>14. ASSUME NEW r \in Requests, Reread(r) PROVE TokenInv'
    <2> DEFINE a == routes[r].account
    <2>1. a \in Ids /\ routes[r].op = "change" /\ UNCHANGED <<accounts, tokens>>
      BY <1>14 DEF Reread, TypeOK
    <2>2. CASE ~Live(a)
      BY <1>8, <1>14, <2>1, <2>2 DEF Reread, End
    <2>3. CASE Live(a)
      <3>1. routes' = [routes EXCEPT ![r] =
                        [@ EXCEPT !.step = "mint", !.version = accounts[a].version]]
        BY <1>14, <2>3 DEF Reread
      <3>2. /\ routes'[r].account = a /\ routes'[r].version = accounts[a].version
            /\ routes'[r].op = "change"
        BY <2>1, <3>1 DEF TypeOK, Route
      <3>3. accounts[a].state = "live" /\ accounts[a].version \in Nat
        BY <2>1, <2>3 DEF Live, TypeOK, Account
      <3> HIDE DEF a
      <3>4. RouteOK(routes[r])'
        BY <2>1, <3>2, <3>3 DEF RouteOK, Reached
      <3> QED BY <1>2, <1>5, <2>1, <3>1, <3>4 DEF TokenInv, TypeOK
    <2> QED BY <2>2, <2>3
  <1>15. ASSUME NEW r \in Requests, BumpTokenVersion(r) \/ DeleteUser(r) \/ Fail(r) PROVE TokenInv'
    BY <1>8, <1>15 DEF BumpTokenVersion, Bumped, DeleteUser, Fail
  <1>16. ASSUME NEW t \in tokens, Expire(t) PROVE TokenInv'
    BY <1>2, <1>3, <1>16 DEF Expire, TokenInv
  <1>17. CASE UNCHANGED vars
    BY <1>2, <1>3, <1>17 DEF vars, TokenInv
  <1> QED BY <1>6, <1>7, <1>9, <1>10, <1>11, <1>12, <1>13, <1>14, <1>15, <1>16, <1>17 DEF Next

\* Once a password is changed, no token of a sign-in with another one works,
\* also when the sign-in had read the account before the change.
THEOREM SignInsEnd == Spec => []SignInsKnowPassword
  <1>1. TypeOK /\ TokenInv => SignInsKnowPassword
    BY DEF TokenInv, TokenOK, Current, Valid, SignInsKnowPassword
  <1>2. TypeOK /\ TokenInv /\ [Next]_vars => TokenInv'
    BY TokenNext
  <1> QED BY <1>1, <1>2, TypeCorrect, TokenInit, PTL DEF Spec

\* A token that was revoked, by a change, a sign-out everywhere or the end of
\* its account, is revoked for good.
THEOREM Revoked == Spec => RevokedStaysRevoked
  <1>1. ASSUME TypeOK, TokenInv, [Next]_vars, NEW t \in tokens, ~Valid(t)
        PROVE  ~Valid(t)'
    <2> DEFINE a == t.account
    <2>1. Ages /\ TypeOK'
      BY <1>1, StepAges, TypeNext
    <2>2. a \in Ids /\ t.version \in Nat /\ accounts[a].version \in Nat
          /\ accounts'[a].version \in Nat
      BY <1>1, <2>1 DEF TypeOK, Token, Account
    <2>3. accounts[a].state # "free" /\ t.version <= accounts[a].version
      BY <1>1 DEF TokenInv, TokenOK, Reached
    <2>4. accounts[a].state \in {"free", "live", "deleted"}
      BY <1>1, <2>2 DEF TypeOK, Account
    <2>5. CASE accounts[a].state = "deleted"
      BY <2>1, <2>2, <2>5 DEF Ages, Valid, Live
    <2>6. CASE accounts[a].state = "live"
      <3>1. accounts[a].version # t.version
        BY <1>1, <2>6 DEF Valid, Live
      <3>2. accounts'[a].version >= accounts[a].version
        BY <2>1, <2>2, <2>3 DEF Ages
      <3> HIDE DEF a
      <3>3. accounts'[a].version # t.version
        BY <2>2, <2>3, <3>1, <3>2
      <3> QED BY <3>3 DEF Valid, a
    <2> QED BY <2>3, <2>4, <2>5, <2>6
  <1>2. TypeOK /\ TokenInv /\ [Next]_vars => [\A t \in tokens : ~Valid(t) => ~Valid(t)']_vars
    BY <1>1
  <1>3. TypeOK /\ TokenInv /\ [Next]_vars => TokenInv'
    BY TokenNext
  <1> QED BY <1>2, <1>3, TypeCorrect, TokenInit, PTL DEF Spec, RevokedStaysRevoked

=============================================================================
