------------------------------- MODULE AuthProofs -------------------------------
(***************************************************************************)
(* Proofs about Auth, for any addresses, passwords, lifetime of tokens and *)
(* number of requests at a time.                                           *)
(***************************************************************************)
EXTENDS Auth, TLAPS

Phase == {"idle", "check", "insert", "refresh", "login", "identify", "serve"}

-----------------------------------------------------------------------------
(* The inductive invariant: the frame of the steps *)

\* A step of request r keeps the invariant if it adds at most accounts with new
\* ids, leaves the other requests alone, and r's locals stay right.
LEMMA HandlerStep ==
    ASSUME Inductive, NEW r \in Req,
           NEW p \in Phase, NEW c \in Credentials \cup {None}, NEW i \in Id,
           NEW t \in Token \cup {None}, NEW a \in Nat, NEW b \in BOOLEAN,
           phase' = [phase EXCEPT ![r] = p],
           cred' = [cred EXCEPT ![r] = c],
           id' = [id EXCEPT ![r] = i],
           token' = [token EXCEPT ![r] = t],
           arrived' = [arrived EXCEPT ![r] = a],
           barred' = [barred EXCEPT ![r] = b],
           now' = now,
           users' \in [Address -> User \cup {None}], made' \in Id, made <= made',
           \A e \in Address : ( users'[e] # None /\ users'[e].id <= made )
                              => users'[e] = users[e],
           tokens' \subseteq Token,
           AccountsOK', TokensOK', TokensAreEarned',
           p \in {"check", "insert", "refresh", "login"} => c \in Credentials,
           p \in {"identify", "serve"} => t \in Token,
           p = "serve" => ~b,
           Registering(r)', Identifying(r)'
    PROVE  Inductive'
<1>1. TypeOK'
  <2>1. /\ phase' \in [Req -> Phase]
        /\ cred' \in [Req -> Credentials \cup {None}]
        /\ id' \in [Req -> Id]
        /\ token' \in [Req -> Token \cup {None}]
        /\ arrived' \in [Req -> Nat]
        /\ barred' \in [Req -> BOOLEAN]
    BY DEF Inductive, TypeOK, Phase
  <2>2. \A q \in Req :
          /\ phase'[q] \in {"check", "insert", "refresh", "login"}
               => cred'[q] \in Credentials
          /\ phase'[q] \in {"identify", "serve"} => token'[q] \in Token
    <3> TAKE q \in Req
    <3>1. CASE q = r  BY <3>1 DEF Inductive, TypeOK
    <3>2. CASE q # r  BY <3>2 DEF Inductive, TypeOK
    <3> QED  BY <3>1, <3>2
  <2> QED  BY <2>1, <2>2 DEF TypeOK, Inductive, Phase
<1>2. \A q \in Req : Registering(q)' /\ Identifying(q)'
  <2> TAKE q \in Req
  <2>1. CASE q = r  BY <2>1
  <2>2. CASE q # r
    <3>1. /\ phase'[q] = phase[q] /\ cred'[q] = cred[q] /\ id'[q] = id[q]
          /\ token'[q] = token[q] /\ arrived'[q] = arrived[q]
          /\ barred'[q] = barred[q]
      BY <2>2 DEF Inductive, TypeOK
    <3>2. made \in Nat /\ made' \in Nat /\ id[q] \in Nat
      BY DEF Inductive, TypeOK, Id
    <3>3. Registering(q)'
      BY <3>1, <3>2 DEF Inductive, Registering
    <3>4. Identifying(q)'
      BY <3>1, <3>2 DEF Inductive, Identifying
    <3> QED  BY <3>3, <3>4
  <2> QED  BY <2>1, <2>2
<1>3. \A q \in Req : phase'[q] = "serve" => ~barred'[q]
  <2> TAKE q \in Req
  <2>1. CASE q = r  BY <2>1 DEF Inductive, TypeOK
  <2>2. CASE q # r  BY <2>2 DEF Inductive, TypeOK
  <2> QED  BY <2>1, <2>2
<1> QED  BY <1>1, <1>2, <1>3 DEF Inductive

\* A step that moves request r on, and at most gives it an id, keeps the
\* invariant under the same conditions.
LEMMA MoveOn ==
    ASSUME Inductive, NEW r \in Req, NEW p \in Phase, NEW i \in Id,
           phase' = [phase EXCEPT ![r] = p], id' = [id EXCEPT ![r] = i],
           UNCHANGED <<now, tokens, cred, token, arrived, barred>>,
           users' \in [Address -> User \cup {None}], made' \in Id, made <= made',
           \A e \in Address : ( users'[e] # None /\ users'[e].id <= made )
                              => users'[e] = users[e],
           AccountsOK', TokensOK', TokensAreEarned',
           p \in {"check", "insert", "refresh", "login"} => cred[r] \in Credentials,
           p \in {"identify", "serve"} => token[r] \in Token,
           p = "serve" => ~barred[r],
           Registering(r)', Identifying(r)'
    PROVE  Inductive'
<1> DEFINE c == cred[r]
           t == token[r]
           a == arrived[r]
           b == barred[r]
<1>1. /\ cred' = [cred EXCEPT ![r] = c] /\ c \in Credentials \cup {None}
      /\ token' = [token EXCEPT ![r] = t] /\ t \in Token \cup {None}
      /\ arrived' = [arrived EXCEPT ![r] = a] /\ a \in Nat
      /\ barred' = [barred EXCEPT ![r] = b] /\ b \in BOOLEAN
      /\ tokens' \subseteq Token /\ now' = now
  BY DEF Inductive, TypeOK
<1>2. /\ p \in {"check", "insert", "refresh", "login"} => c \in Credentials
      /\ p \in {"identify", "serve"} => t \in Token
      /\ p = "serve" => ~b
  OBVIOUS
<1> HIDE DEF c, t, a, b
<1> QED  BY <1>1, <1>2, HandlerStep

\* What the invariant says of the table and the tokens stays true with them.
LEMMA SameTable ==
    ASSUME Inductive, users' = users, made' = made
    PROVE  /\ users' \in [Address -> User \cup {None}]
           /\ made' \in Id /\ made <= made'
           /\ \A e \in Address : ( users'[e] # None /\ users'[e].id <= made )
                                 => users'[e] = users[e]
           /\ AccountsOK'
           /\ tokens' = tokens => /\ tokens' \subseteq Token
                                  /\ TokensOK'
                                  /\ TokensAreEarned'
BY DEF Inductive, TypeOK, AccountsOK, TokensOK, TokensAreEarned, Id

\* The end of a request keeps the invariant.
LEMMA EndInductive ==
    ASSUME Inductive, NEW r \in Req, End(r), now' = now,
           users' = users, made' = made,
           tokens' \subseteq Token, TokensOK', TokensAreEarned'
    PROVE  Inductive'
<1>1. phase'[r] = "idle"
  BY DEF End, Inductive, TypeOK
<1>2. Registering(r)' /\ Identifying(r)'
  BY <1>1 DEF Registering, Identifying
<1>3. 0 \in Id /\ 0 \in Nat
  BY ConstantsAssumption DEF Id
<1> QED  BY <1>2, <1>3, SameTable, HandlerStep DEF End, Phase

\* A token that names an account only if the request's credentials are the
\* account's keeps the invariant.
LEMMA IssueInductive ==
    ASSUME Inductive, NEW r \in Req,
           phase[r] \in {"check", "insert", "refresh", "login"},
           NEW sub \in Id, NEW signed \in BOOLEAN, Issue(r, sub, signed),
           now' = now, users' = users, made' = made,
           signed => /\ sub \in 1 .. made
                     /\ \A e \in Address :
                          ( users[e] # None /\ users[e].id = sub )
                          => cred[r] = [email |-> e, password |-> users[e].password]
    PROVE  Inductive'
<1> DEFINE t == [sub |-> sub, signed |-> signed, exp |-> now + EXPIRE,
                 to |-> cred[r]]
<1>1. t \in Token
  BY ConstantsAssumption DEF Inductive, TypeOK, Token
<1>2. tokens' = tokens \cup {t} /\ End(r)
  BY DEF Issue
<1>3. t.sub = sub /\ t.signed = signed /\ t.to = cred[r]
  OBVIOUS
<1> HIDE DEF t
<1>4. tokens' \subseteq Token
  BY <1>1, <1>2 DEF Inductive, TypeOK
<1>5. TokensOK'
  BY <1>2, <1>3 DEF Inductive, TokensOK
<1>6. TokensAreEarned'
  BY <1>2, <1>3 DEF Inductive, TokensAreEarned
<1> QED  BY <1>2, <1>4, <1>5, <1>6, EndInductive

\* A dummy token keeps the invariant.
LEMMA DummyInductive ==
    ASSUME Inductive, NEW r \in Req,
           phase[r] \in {"check", "insert", "refresh", "login"}, IssueDummy(r),
           now' = now, users' = users, made' = made
    PROVE  Inductive'
<1>1. 0 \in Id
  BY ConstantsAssumption DEF Id
<1> QED  BY <1>1, IssueInductive DEF IssueDummy

\* A step that ends a request without a token keeps the invariant.
LEMMA PlainEndInductive ==
    ASSUME Inductive, NEW r \in Req, End(r),
           UNCHANGED <<now, users, made, tokens>>
    PROVE  Inductive'
BY SameTable, EndInductive

\* What the administrator does keeps the invariant: no account gets another id
\* or password, and no request is held barred whose account becomes active.
LEMMA AccountsStep ==
    ASSUME Inductive, UNCHANGED <<now, made, tokens, phase, cred, id, token, arrived>>,
           barred' \in [Req -> BOOLEAN],
           \A r \in Req : barred'[r] => barred[r],
           users' \in [Address -> User \cup {None}],
           \A e \in Address : users'[e] # None =>
               /\ users[e] # None
               /\ users'[e].id = users[e].id
               /\ users'[e].password = users[e].password
               /\ \/ users'[e].is_active => users[e].is_active
                  \/ \A r \in Req : barred'[r] => id[r] # users[e].id
    PROVE  Inductive'
<1>1. TypeOK'
  BY DEF Inductive, TypeOK
<1>2. AccountsOK' /\ TokensOK' /\ TokensAreEarned'
  BY DEF Inductive, AccountsOK, TokensOK, TokensAreEarned
<1>3. \A q \in Req : Registering(q)' /\ Identifying(q)'
  BY DEF Inductive, Registering, Identifying
<1> QED  BY <1>1, <1>2, <1>3 DEF Inductive

-----------------------------------------------------------------------------
(* The inductive invariant: the steps *)

\* The invariant holds initially.
LEMMA InitInductive == Init => Inductive
BY ConstantsAssumption
   DEF Init, Inductive, TypeOK, AccountsOK, TokensOK, TokensAreEarned,
       Registering, Identifying, Id

\* A registration or a login begins: the address is normalised.
LEMMA StartInductive ==
    ASSUME Inductive, NEW r \in Req, NEW e \in Address, NEW pw \in Password,
           NEW p \in {"check", "login"}, Start(r, p, e, pw)
    PROVE  Inductive'
<1> DEFINE c == [email |-> Normalize(e), password |-> pw]
<1>1. c \in Credentials /\ Normal[c.email] = c.email
  BY ConstantsAssumption DEF Credentials, Normalize
<1>2. /\ phase' = [phase EXCEPT ![r] = p] /\ cred' = [cred EXCEPT ![r] = c]
      /\ id' = [id EXCEPT ![r] = id[r]] /\ id[r] \in Id
      /\ token' = [token EXCEPT ![r] = token[r]] /\ token[r] \in Token \cup {None}
      /\ arrived' = [arrived EXCEPT ![r] = arrived[r]] /\ arrived[r] \in Nat
      /\ barred' = [barred EXCEPT ![r] = barred[r]] /\ barred[r] \in BOOLEAN
      /\ UNCHANGED <<now, users, made, tokens>>
  BY DEF Start, Inductive, TypeOK
<1> HIDE DEF c
<1>3. phase'[r] = p /\ cred'[r] = c
  BY <1>2 DEF Inductive, TypeOK
<1>4. Registering(r)' /\ Identifying(r)'
  BY <1>1, <1>3 DEF Registering, Identifying
<1>5. p \in Phase
  BY DEF Phase
<1> QED  BY <1>1, <1>2, <1>4, <1>5, SameTable, HandlerStep

\* The select of a registration keeps the invariant.
LEMMA CheckInductive ==
    ASSUME Inductive, NEW r \in Req, Check(r)
    PROVE  Inductive'
<1>1. CASE IssueDummy(r)
  BY <1>1, DummyInductive DEF Check
<1>2. CASE /\ phase' = [phase EXCEPT ![r] = "insert"]
           /\ UNCHANGED <<tokens, cred, id, token, arrived, barred>>
  <2>1. /\ phase[r] = "check" /\ cred[r] \in Credentials
        /\ id' = [id EXCEPT ![r] = id[r]] /\ id[r] \in Id
        /\ UNCHANGED <<now, users, made, tokens, cred, token, arrived, barred>>
    BY <1>2 DEF Check, Inductive, TypeOK
  <2>2. phase'[r] = "insert" /\ cred'[r] = cred[r]
    BY <1>2 DEF Inductive, TypeOK
  <2>3. Registering(r)' /\ Identifying(r)'
    BY <2>1, <2>2 DEF Inductive, Registering, Identifying
  <2>4. "insert" \in Phase
    BY DEF Phase
  <2> QED  BY <1>2, <2>1, <2>3, <2>4, SameTable, MoveOn
<1> QED  BY <1>1, <1>2 DEF Check

\* The table after an insert of a new account: its id is new, its address was
\* free, and every other account is as it was.
LEMMA InsertTable ==
    ASSUME Inductive, NEW r \in Req, phase[r] = "insert",
           users[cred[r].email] = None, made < MaxAccounts,
           users' = [users EXCEPT ![cred[r].email] = NewUser(r)],
           made' = made + 1, tokens' = tokens
    PROVE  /\ users' \in [Address -> User \cup {None}]
           /\ made' \in Id /\ made <= made'
           /\ \A e \in Address : ( users'[e] # None /\ users'[e].id <= made )
                                 => users'[e] = users[e]
           /\ tokens' \subseteq Token
           /\ AccountsOK' /\ TokensOK' /\ TokensAreEarned'
           /\ \A e \in Address : ( users'[e] # None /\ users'[e].id = made' )
                => cred[r] = [email |-> e, password |-> users'[e].password]
<1> DEFINE e0 == cred[r].email
<1>1. /\ made \in Nat /\ MaxAccounts \in Nat /\ e0 \in Address
      /\ cred[r].password \in Password
      /\ cred[r] = [email |-> e0, password |-> cred[r].password]
      /\ Normal[e0] = e0
  BY ConstantsAssumption DEF Inductive, TypeOK, Id, Credentials, Registering
<1>2. made' \in Id /\ made' \in Nat /\ made' # 0
  BY <1>1 DEF Id
<1>3. /\ NewUser(r) \in User /\ NewUser(r).id = made'
      /\ NewUser(r).password = cred[r].password
  BY <1>1, <1>2 DEF NewUser, User
<1>4. users' \in [Address -> User \cup {None}]
  BY <1>1, <1>3 DEF Inductive, TypeOK
<1>5. users'[e0] = NewUser(r) /\ \A e \in Address : e # e0 => users'[e] = users[e]
  BY <1>1 DEF Inductive, TypeOK
<1> HIDE DEF e0
<1>6. \A e \in Address : users[e] # None => users[e].id \in Nat /\ users[e].id <= made
  BY DEF Inductive, TypeOK, AccountsOK, User, Id
<1>7. \A e \in Address : ( users'[e] # None /\ users'[e].id <= made )
                         => e # e0 /\ users'[e] = users[e]
  BY <1>1, <1>3, <1>5
<1>8. \A e \in Address : ( users'[e] # None /\ users'[e].id = made' ) => e = e0
  BY <1>1, <1>5, <1>6
<1>9. AccountsOK'
  <2> SUFFICES ASSUME NEW a \in Address, users'[a] # None
               PROVE  /\ Normal[a] = a
                      /\ users'[a].id <= made'
                      /\ \A b \in Address :
                           ( users'[b] # None /\ users'[b].id = users'[a].id )
                           => a = b
    BY DEF AccountsOK
  <2>1. CASE a = e0
    BY <2>1, <1>1, <1>3, <1>5, <1>8
  <2>2. CASE a # e0
    <3>1. users'[a] = users[a] /\ users[a].id <= made /\ users[a].id \in Nat
      BY <2>2, <1>5, <1>6
    <3>2. \A b \in Address : ( users'[b] # None /\ users'[b].id = users'[a].id )
                             => users'[b] = users[b]
      BY <3>1, <1>7
    <3> QED  BY <3>1, <3>2, <1>1 DEF Inductive, AccountsOK
  <2> QED  BY <2>1, <2>2
<1>10. TokensOK'
  BY <1>1 DEF Inductive, TokensOK
<1>11. TokensAreEarned'
  <2> SUFFICES ASSUME NEW t \in tokens, NEW e \in Address,
                      t.signed, users'[e] # None, users'[e].id = t.sub
               PROVE  t.to = [email |-> e, password |-> users'[e].password]
    BY DEF TokensAreEarned
  <2>1. users'[e] = users[e]
    BY <1>1, <1>7 DEF Inductive, TokensOK
  <2> QED  BY <2>1 DEF Inductive, TokensAreEarned
<1>12. \A e \in Address : ( users'[e] # None /\ users'[e].id = made' )
         => cred[r] = [email |-> e, password |-> users'[e].password]
  BY <1>1, <1>3, <1>5, <1>8
<1> QED  BY <1>1, <1>2, <1>4, <1>7, <1>9, <1>10, <1>11, <1>12
            DEF Inductive, TypeOK

\* An insert keeps the invariant, and so does one that loses the race.
LEMMA InsertInductive ==
    ASSUME Inductive, NEW r \in Req, Insert(r)
    PROVE  Inductive'
<1>1. CASE users[cred[r].email] # None
  BY <1>1, DummyInductive DEF Insert
<1>2. CASE users[cred[r].email] = None
  <2>1. /\ phase[r] = "insert" /\ made < MaxAccounts
        /\ users' = [users EXCEPT ![cred[r].email] = NewUser(r)]
        /\ made' = made + 1
        /\ id' = [id EXCEPT ![r] = made']
        /\ phase' = [phase EXCEPT ![r] = "refresh"]
        /\ UNCHANGED <<now, tokens, cred, token, arrived, barred>>
    BY <1>2 DEF Insert
  <2>2. cred[r] \in Credentials
    BY <2>1 DEF Inductive, TypeOK
  <2>3. phase'[r] = "refresh" /\ cred'[r] = cred[r] /\ id'[r] = made'
    BY <2>1 DEF Inductive, TypeOK
  <2>4. made' \in 1 .. made' /\ Normal[cred[r].email] = cred[r].email
    BY <2>1 DEF Inductive, TypeOK, Id, Registering
  <2>5. Registering(r)' /\ Identifying(r)'
    BY <1>2, <2>1, <2>3, <2>4, InsertTable DEF Registering, Identifying
  <2>6. "refresh" \in Phase
    BY DEF Phase
  <2> QED  BY <1>2, <2>1, <2>2, <2>5, <2>6, InsertTable, MoveOn
<1> QED  BY <1>1, <1>2

\* The refresh and the token of a registration keep the invariant.
LEMMA RefreshInductive ==
    ASSUME Inductive, NEW r \in Req, Refresh(r)
    PROVE  Inductive'
<1>1. CASE Issue(r, id[r], TRUE)
  <2>1. /\ id[r] \in Id /\ id[r] \in 1 .. made
        /\ \A e \in Address :
             ( users[e] # None /\ users[e].id = id[r] )
             => cred[r] = [email |-> e, password |-> users[e].password]
    BY DEF Refresh, Inductive, TypeOK, Registering
  <2> QED  BY <1>1, <2>1, IssueInductive DEF Refresh
<1>2. CASE End(r) /\ UNCHANGED tokens
  BY <1>2, PlainEndInductive DEF Refresh
<1> QED  BY <1>1, <1>2 DEF Refresh

\* A login keeps the invariant.
LEMMA VerifyInductive ==
    ASSUME Inductive, NEW r \in Req, Verify(r)
    PROVE  Inductive'
<1> DEFINE e0 == cred[r].email
           user == users[e0]
<1>1. CASE user # None /\ user.password = cred[r].password /\ user.is_active
  <2>1. phase[r] = "login" /\ cred[r] \in Credentials /\ e0 \in Address
    BY DEF Verify, Inductive, TypeOK, Credentials
  <2>2. user \in User /\ user.id \in Id /\ user.id \in 1 .. made
    BY <1>1, <2>1 DEF Inductive, TypeOK, AccountsOK, User, Id
  <2>3. \A e \in Address : ( users[e] # None /\ users[e].id = user.id ) => e = e0
    BY <1>1, <2>1 DEF Inductive, AccountsOK
  <2>4. cred[r] = [email |-> e0, password |-> user.password]
    BY <1>1, <2>1 DEF Credentials
  <2>5. Issue(r, user.id, TRUE) /\ UNCHANGED <<now, users, made>>
    BY <1>1 DEF Verify
  <2> QED  BY <2>1, <2>2, <2>3, <2>4, <2>5, IssueInductive
<1>2. CASE ~(user # None /\ user.password = cred[r].password /\ user.is_active)
  BY <1>2, PlainEndInductive DEF Verify
<1> QED  BY <1>1, <1>2

\* A request with a token keeps the invariant.
LEMMA CallInductive ==
    ASSUME Inductive, NEW r \in Req, NEW t \in tokens, Call(r, t)
    PROVE  Inductive'
<1> DEFINE b == ~\E u \in Accounts : u.id = t.sub /\ u.is_active
<1>1. /\ t \in Token /\ t.sub \in Id /\ t.sub \in 1 .. made /\ now \in Nat
      /\ now <= t.exp
  BY DEF Call, Accepts, Inductive, TypeOK, TokensOK, Token
<1>2. /\ phase' = [phase EXCEPT ![r] = "identify"]
      /\ cred' = [cred EXCEPT ![r] = cred[r]] /\ cred[r] \in Credentials \cup {None}
      /\ id' = [id EXCEPT ![r] = t.sub]
      /\ token' = [token EXCEPT ![r] = t]
      /\ arrived' = [arrived EXCEPT ![r] = now]
      /\ barred' = [barred EXCEPT ![r] = b]
      /\ b \in BOOLEAN
      /\ UNCHANGED <<now, users, made, tokens>>
  BY DEF Call, Inductive, TypeOK
<1>3. \A e \in Address : ( b /\ users[e] # None /\ users[e].id = t.sub )
                         => ~users[e].is_active
  BY DEF Accounts
<1> HIDE DEF b
<1>4. /\ phase'[r] = "identify" /\ id'[r] = t.sub /\ token'[r] = t
      /\ arrived'[r] = now /\ barred'[r] = b
  BY <1>2 DEF Inductive, TypeOK
<1>5. Registering(r)'
  BY <1>4 DEF Registering
<1>6. Identifying(r)'
  BY <1>1, <1>2, <1>3, <1>4 DEF Identifying
<1>7. "identify" \in Phase
  BY DEF Phase
<1> QED  BY <1>1, <1>2, <1>5, <1>6, <1>7, SameTable, HandlerStep

\* The select of the user keeps the invariant: a request that goes on was not
\* barred when it arrived.
LEMMA SelectUserInductive ==
    ASSUME Inductive, NEW r \in Req, Identify(r)
    PROVE  Inductive'
<1>1. CASE \E u \in Accounts : u.id = id[r] /\ u.is_active
  <2>1. /\ phase[r] = "identify"
        /\ phase' = [phase EXCEPT ![r] = "serve"]
        /\ UNCHANGED <<now, users, made, tokens, cred, id, token, arrived, barred>>
    BY <1>1 DEF Identify
  <2>2. ~barred[r]
    BY <1>1, <2>1 DEF Inductive, Identifying, Accounts
  <2>3. id' = [id EXCEPT ![r] = id[r]] /\ id[r] \in Id /\ token[r] \in Token
    BY <2>1 DEF Inductive, TypeOK
  <2>4. phase'[r] = "serve"
    BY <2>1 DEF Inductive, TypeOK
  <2>5. Registering(r)' /\ Identifying(r)'
    BY <2>1, <2>4 DEF Inductive, Registering, Identifying
  <2>6. "serve" \in Phase
    BY DEF Phase
  <2> QED  BY <2>1, <2>2, <2>3, <2>5, <2>6, SameTable, MoveOn
<1>2. CASE ~\E u \in Accounts : u.id = id[r] /\ u.is_active
  BY <1>2, PlainEndInductive DEF Identify
<1> QED  BY <1>1, <1>2

\* What the administrator leaves alone but for the table.
LEMMA SameRequests ==
    ASSUME Inductive, UNCHANGED request
    PROVE  /\ UNCHANGED <<phase, cred, id, token, arrived>>
           /\ barred' \in [Req -> BOOLEAN]
           /\ \A r \in Req : barred'[r] => barred[r]
BY DEF Inductive, TypeOK, request

\* Deactivating an account keeps the invariant.
LEMMA DeactivateInductive ==
    ASSUME Inductive, NEW e \in Address, Deactivate(e)
    PROVE  Inductive'
<1> DEFINE u == [users[e] EXCEPT !.is_active = FALSE]
<1>1. users[e] \in User
  BY DEF Deactivate, Inductive, TypeOK
<1>2. /\ u \in User /\ u.id = users[e].id /\ u.password = users[e].password
      /\ ~u.is_active
  BY <1>1 DEF User
<1>3. users' = [users EXCEPT ![e] = u] /\ UNCHANGED <<now, made, tokens, request>>
  BY DEF Deactivate
<1> HIDE DEF u
<1>4. users' \in [Address -> User \cup {None}]
  BY <1>2, <1>3 DEF Inductive, TypeOK
<1>5. \A a \in Address : users'[a] # None =>
        /\ users[a] # None
        /\ users'[a].id = users[a].id
        /\ users'[a].password = users[a].password
        /\ users'[a].is_active => users[a].is_active
  <2> TAKE a \in Address
  <2>1. CASE a = e
    <3>1. users'[a] = u
      BY <1>3, <2>1 DEF Inductive, TypeOK
    <3> QED  BY <1>2, <2>1, <3>1 DEF Deactivate
  <2>2. CASE a # e
    <3>1. users'[a] = users[a]
      BY <1>3, <2>2 DEF Inductive, TypeOK
    <3> QED  BY <3>1
  <2> QED  BY <2>1, <2>2
<1> QED  BY <1>3, <1>4, <1>5, SameRequests, AccountsStep

\* Reactivating an account keeps the invariant: the requests that name it are
\* barred no longer.
LEMMA ReactivateInductive ==
    ASSUME Inductive, NEW e \in Address, Reactivate(e)
    PROVE  Inductive'
<1> DEFINE u == [users[e] EXCEPT !.is_active = TRUE]
<1>1. users[e] \in User
  BY DEF Reactivate, Inductive, TypeOK
<1>2. u \in User /\ u.id = users[e].id /\ u.password = users[e].password
  BY <1>1 DEF User
<1>3. /\ users' = [users EXCEPT ![e] = u]
      /\ barred' = [r \in Req |-> barred[r] /\ id[r] # users[e].id]
      /\ UNCHANGED <<now, made, tokens, phase, cred, id, token, arrived>>
  BY DEF Reactivate
<1> HIDE DEF u
<1>4. users' \in [Address -> User \cup {None}]
  BY <1>2, <1>3 DEF Inductive, TypeOK
<1>5. /\ barred' \in [Req -> BOOLEAN]
      /\ \A r \in Req : barred'[r] => barred[r] /\ id[r] # users[e].id
  BY <1>3
<1>6. \A a \in Address : users'[a] # None =>
        /\ users[a] # None
        /\ users'[a].id = users[a].id
        /\ users'[a].password = users[a].password
        /\ \/ users'[a].is_active => users[a].is_active
           \/ \A r \in Req : barred'[r] => id[r] # users[a].id
  <2> TAKE a \in Address
  <2>1. CASE a = e
    <3>1. users'[a] = u
      BY <1>3, <2>1 DEF Inductive, TypeOK
    <3> QED  BY <1>2, <1>5, <2>1, <3>1 DEF Reactivate
  <2>2. CASE a # e
    <3>1. users'[a] = users[a]
      BY <1>3, <2>2 DEF Inductive, TypeOK
    <3> QED  BY <3>1
  <2> QED  BY <2>1, <2>2
<1> QED  BY <1>3, <1>4, <1>5, <1>6, AccountsStep

\* Deleting an account keeps the invariant.
LEMMA DeleteInductive ==
    ASSUME Inductive, NEW e \in Address, Delete(e)
    PROVE  Inductive'
<1>1. /\ users' = [users EXCEPT ![e] = None]
      /\ UNCHANGED <<now, made, tokens, request>>
  BY DEF Delete
<1>2. users' \in [Address -> User \cup {None}]
  BY <1>1 DEF Inductive, TypeOK
<1>3. \A a \in Address : users'[a] # None => users'[a] = users[a]
  BY <1>1 DEF Inductive, TypeOK
<1> QED  BY <1>1, <1>2, <1>3, SameRequests, AccountsStep

\* Time keeps the invariant.
LEMMA TickInductive ==
    ASSUME Inductive, Tick
    PROVE  Inductive'
<1>1. UNCHANGED <<users, made, tokens, phase, cred, id, token, arrived, barred>>
      /\ now' \in Nat
  BY DEF Tick, request, Inductive, TypeOK
<1>2. TypeOK'
  BY <1>1 DEF Inductive, TypeOK
<1>3. \A q \in Req : Registering(q)' /\ Identifying(q)'
  BY <1>1 DEF Inductive, Registering, Identifying
<1> QED
  BY <1>1, <1>2, <1>3
     DEF Inductive, AccountsOK, TokensOK, TokensAreEarned

\* Every step keeps the invariant.
LEMMA NextInductive == Inductive /\ [Next]_vars => Inductive'
<1> SUFFICES ASSUME Inductive, [Next]_vars  PROVE Inductive'
  OBVIOUS
<1>1. ASSUME NEW r \in Req, NEW e \in Address, NEW p \in Password,
             Register(r, e, p) \/ Login(r, e, p)
      PROVE  Inductive'
  BY <1>1, StartInductive DEF Register, Login
<1>2. ASSUME NEW r \in Req, Check(r)  PROVE Inductive'
  BY <1>2, CheckInductive
<1>3. ASSUME NEW r \in Req, Insert(r)  PROVE Inductive'
  BY <1>3, InsertInductive
<1>4. ASSUME NEW r \in Req, Refresh(r)  PROVE Inductive'
  BY <1>4, RefreshInductive
<1>5. ASSUME NEW r \in Req, Verify(r)  PROVE Inductive'
  BY <1>5, VerifyInductive
<1>6. ASSUME NEW r \in Req, NEW t \in tokens, Call(r, t)  PROVE Inductive'
  BY <1>6, CallInductive
<1>7. ASSUME NEW r \in Req, Identify(r)  PROVE Inductive'
  BY <1>7, SelectUserInductive
<1>8. ASSUME NEW r \in Req, Serve(r) \/ Fail(r)  PROVE Inductive'
  BY <1>8, PlainEndInductive DEF Serve, Fail
<1>9. ASSUME NEW e \in Address, Deactivate(e)  PROVE Inductive'
  BY <1>9, DeactivateInductive
<1>10. ASSUME NEW e \in Address, Delete(e)  PROVE Inductive'
  BY <1>10, DeleteInductive
<1>11. ASSUME NEW e \in Address, Reactivate(e)  PROVE Inductive'
  BY <1>11, ReactivateInductive
<1>12. CASE Tick
  BY <1>12, TickInductive
<1>13. CASE UNCHANGED vars
  <2>1. TypeOK'
    BY <1>13 DEF Inductive, TypeOK, vars
  <2>2. \A q \in Req : Registering(q)' /\ Identifying(q)'
    BY <1>13 DEF Inductive, Registering, Identifying, vars
  <2> QED
    BY <1>13, <2>1, <2>2
       DEF Inductive, AccountsOK, TokensOK, TokensAreEarned, vars
<1> QED
  BY <1>1, <1>2, <1>3, <1>4, <1>5, <1>6, <1>7, <1>8, <1>9, <1>10, <1>11, <1>12,
     <1>13
     DEF Next

-----------------------------------------------------------------------------
(* Theorems *)

\* The inductive invariant of accounts and tokens always holds.
THEOREM AlwaysInductive == Spec => []Inductive
BY InitInductive, NextInductive, PTL DEF Spec

\* The state always has the types of the table, the tokens and the locals.
THEOREM TypeCorrect == Spec => []TypeOK
<1>1. Inductive => TypeOK
  BY DEF Inductive
<1> QED  BY <1>1, AlwaysInductive, PTL

\* A token that names an account was issued to someone who gave the account's
\* address and password (register, login).
THEOREM TokensEarned == Spec => []TokensAreEarned
<1>1. Inductive => TokensAreEarned
  BY DEF Inductive
<1> QED  BY <1>1, AlwaysInductive, PTL

\* Different spellings of an address have one account among them (the
\* normalisation of schemas/auth.py and User.validate_email).
THEOREM OneAccountPerAddress == Spec => []AddressesUnique
<1>1. Inductive => AddressesUnique
  BY DEF Inductive, AccountsOK, AddressesUnique
<1> QED  BY <1>1, AlwaysInductive, PTL

\* A request is only served for an account that has been active at some time
\* since it arrived, with a token that had not expired then (get_current_user).
THEOREM OnlyTheAllowedServed == Spec => []ServedWhenAllowed
<1>1. Inductive => ServedWhenAllowed
  BY DEF Inductive, ServedWhenAllowed, Identifying
<1> QED  BY <1>1, AlwaysInductive, PTL

\* An account keeps its id and password: a second registration of its address
\* leaves it alone (register).
LEMMA NextKeepsAccounts ==
    ASSUME Inductive, [Next]_vars, NEW e \in Address,
           users[e] # None, users'[e] # None
    PROVE  /\ users'[e].id = users[e].id
           /\ users'[e].password = users[e].password
<1>1. ASSUME NEW r \in Req, Insert(r)
      PROVE  users'[e] = users[e]
  <2>1. CASE users[cred[r].email] # None
    BY <1>1, <2>1 DEF Insert
  <2>2. CASE users[cred[r].email] = None
    BY <1>1, <2>2 DEF Insert, Inductive, TypeOK
  <2> QED  BY <2>1, <2>2
<1>2. ASSUME NEW a \in Address, Deactivate(a) \/ Reactivate(a)
      PROVE  /\ users'[e].id = users[e].id
             /\ users'[e].password = users[e].password
  <2>1. users[e] \in User
    BY DEF Inductive, TypeOK
  <2>2. CASE Deactivate(a)
    BY <2>1, <2>2 DEF Deactivate, Inductive, TypeOK, User
  <2>3. CASE Reactivate(a)
    BY <2>1, <2>3 DEF Reactivate, Inductive, TypeOK, User
  <2> QED  BY <1>2, <2>2, <2>3
<1>3. ASSUME NEW a \in Address, Delete(a)
      PROVE  users'[e] = users[e]
  BY <1>3 DEF Delete, Inductive, TypeOK
<1>4. CASE users' = users
  BY <1>4
<1>5. ( /\ ~\E r \in Req : Insert(r)
        /\ ~\E a \in Address : Deactivate(a) \/ Reactivate(a)
        /\ ~\E a \in Address : Delete(a) )
      => users' = users
  BY DEF Next, vars, Register, Login, Start, Check, Refresh, Verify, Call,
         Identify, Serve, Fail, Tick
<1> QED  BY <1>1, <1>2, <1>3, <1>4, <1>5

\* The same as a property of the specification's steps.
THEOREM AccountsStand == Spec => RegistrationStands
<1>1. Inductive /\ [Next]_vars =>
        [\A e \in Address :
           ( users[e] # None /\ users'[e] # None )
           => /\ users'[e].id = users[e].id
              /\ users'[e].password = users[e].password]_vars
  BY NextKeepsAccounts
<1> QED  BY <1>1, AlwaysInductive, PTL DEF Spec, RegistrationStands

\* An account that a step leaves under an address, with the id of a token, was
\* under that address before; it is active only if it was, or the administrator
\* has reactivated it.
LEMMA NextNames ==
    ASSUME Inductive, [Next]_vars, NEW t \in tokens, t.signed, NEW e \in Address,
           users'[e] # None, users'[e].id = t.sub
    PROVE  /\ users[e] # None
           /\ users[e].id = t.sub
           /\ users'[e].is_active => users[e].is_active \/ Reactivate(e)
<1>1. users \in [Address -> User \cup {None}] /\ made \in Id
  BY DEF Inductive, TypeOK
<1>2. ASSUME NEW r \in Req, Insert(r)
      PROVE  users'[e] = users[e]
  <2>1. CASE users[cred[r].email] # None
    BY <1>2, <2>1 DEF Insert
  <2>2. CASE users[cred[r].email] = None
    <3>1. users' = [users EXCEPT ![cred[r].email] = NewUser(r)]
      BY <1>2, <2>2 DEF Insert
    <3>2. t.sub \in 1 .. made /\ NewUser(r).id = made + 1
      BY DEF Inductive, TokensOK, NewUser
    <3>3. made + 1 # t.sub
      BY <1>1, <3>2, ConstantsAssumption DEF Id
    <3>4. ASSUME e = cred[r].email PROVE FALSE
      <4>1. users'[e] = NewUser(r)  BY <1>1, <3>1, <3>4
      <4> QED  BY <3>2, <3>3, <4>1
    <3> QED  BY <1>1, <3>1, <3>4
  <2> QED  BY <2>1, <2>2
<1>3. ASSUME NEW a \in Address, Deactivate(a)
      PROVE  /\ users[e] # None
             /\ users[e].id = t.sub
             /\ users'[e].is_active => users[e].is_active
  <2>1. users[a] \in User  BY <1>1, <1>3 DEF Deactivate
  <2>2. users' = [users EXCEPT ![a] = [users[a] EXCEPT !.is_active = FALSE]]
    BY <1>3 DEF Deactivate
  <2>3. CASE e = a
    <3>1. users'[e] = [users[a] EXCEPT !.is_active = FALSE]
      BY <1>1, <2>2, <2>3
    <3>2. users'[e].is_active = FALSE /\ users'[e].id = users[a].id
      BY <2>1, <3>1 DEF User
    <3> QED  BY <1>3, <2>3, <3>2 DEF Deactivate
  <2>4. CASE e # a
    <3>1. users'[e] = users[e]  BY <1>1, <2>2, <2>4
    <3> QED  BY <3>1
  <2> QED  BY <2>3, <2>4
<1>4. ASSUME NEW a \in Address, Reactivate(a)
      PROVE  /\ users[e] # None
             /\ users[e].id = t.sub
             /\ users'[e].is_active => users[e].is_active \/ Reactivate(e)
  <2>1. users[a] \in User  BY <1>1, <1>4 DEF Reactivate
  <2>2. users' = [users EXCEPT ![a] = [users[a] EXCEPT !.is_active = TRUE]]
    BY <1>4 DEF Reactivate
  <2>3. CASE e = a
    <3>1. users'[e] = [users[a] EXCEPT !.is_active = TRUE]
      BY <1>1, <2>2, <2>3
    <3>2. users'[e].id = users[a].id /\ users[a] # None
      BY <1>4, <2>1, <3>1 DEF User, Reactivate
    <3>3. Reactivate(e)
      BY <1>4, <2>3
    <3> QED  BY <2>3, <3>2, <3>3
  <2>4. CASE e # a
    <3>1. users'[e] = users[e]  BY <1>1, <2>2, <2>4
    <3> QED  BY <3>1
  <2> QED  BY <2>3, <2>4
<1>5. ASSUME NEW a \in Address, Delete(a)
      PROVE  users'[e] = users[e]
  BY <1>1, <1>5 DEF Delete
<1>6. ( /\ ~\E r \in Req : Insert(r)
        /\ ~\E a \in Address : Deactivate(a) \/ Reactivate(a)
        /\ ~\E a \in Address : Delete(a) )
      => users' = users
  BY DEF Next, vars, Register, Login, Start, Check, Refresh, Verify, Call,
         Identify, Serve, Fail, Tick
<1>7. CASE users'[e] = users[e]
  BY <1>7
<1>8. CASE users' # users
  <2>1. \/ \E r \in Req : Insert(r)
        \/ \E a \in Address : Deactivate(a)
        \/ \E a \in Address : Reactivate(a)
        \/ \E a \in Address : Delete(a)
    BY <1>6, <1>8
  <2> QED  BY <1>2, <1>3, <1>4, <1>5, <1>7, <2>1
<1> QED  BY <1>7, <1>8

\* The accounts with the token's subject are what it names and opens.
LEMMA TokenAccounts ==
    ASSUME NEW t
    PROVE  /\ Names(t) <=> \E e \in Address : users[e] # None /\ users[e].id = t.sub
           /\ Opens(t) <=> \E e \in Address : /\ users[e] # None /\ users[e].id = t.sub
                                              /\ users[e].is_active
BY DEF Names, Opens, Accounts

\* The tokens of a deleted account name no other, ever; those of a deactivated
\* one open nothing until the administrator reactivates it.  No handler's step
\* does either, however registrations, logins and deletions interleave.
THEOREM TokensStayShut == Spec => StaysShut
<1>1. ASSUME Inductive, [Next]_vars, NEW t \in tokens, t.signed
      PROVE  /\ ~Names(t) => ~Names(t)'
             /\ ( ~Opens(t) /\ Opens(t)' )
                => \E e \in Address : Reactivate(e) /\ users[e].id = t.sub
  <2>1. ASSUME Names(t)' PROVE Names(t)
    <3>1. PICK e \in Address : users'[e] # None /\ users'[e].id = t.sub
      BY <2>1 DEF Names, Accounts
    <3>2. users[e] # None /\ users[e].id = t.sub
      BY <1>1, <3>1, NextNames
    <3> QED  BY <3>2, TokenAccounts
  <2>2. ASSUME ~Opens(t), Opens(t)'
        PROVE  \E e \in Address : Reactivate(e) /\ users[e].id = t.sub
    <3>1. PICK e \in Address : /\ users'[e] # None /\ users'[e].id = t.sub
                               /\ users'[e].is_active
      BY <2>2 DEF Opens, Accounts
    <3>2. /\ users[e] # None /\ users[e].id = t.sub
          /\ users[e].is_active \/ Reactivate(e)
      BY <1>1, <3>1, NextNames
    <3>3. ~users[e].is_active
      BY <2>2, <3>2, TokenAccounts
    <3> QED  BY <3>2, <3>3
  <2> QED  BY <2>1, <2>2
<1>2. Inductive /\ [Next]_vars =>
        [\A t \in tokens : t.signed =>
           /\ ~Names(t) => ~Names(t)'
           /\ ( ~Opens(t) /\ Opens(t)' )
              => \E e \in Address : Reactivate(e) /\ users[e].id = t.sub]_vars
  BY <1>1
<1> QED  BY <1>2, AlwaysInductive, PTL DEF Spec, StaysShut
===============================================================================
