--------------------------------- MODULE Auth ---------------------------------
(***************************************************************************)
(* Accounts and access tokens: POST /api/v1/auth/register and /login       *)
(* (api/v1/auth.py), the dependency that turns a token into a user         *)
(* (api/v1/dependencies.py), the tokens (core/security.py), the e-mail     *)
(* normalisation (schemas/auth.py) and the table users (db/models.py).     *)
(*                                                                         *)
(* Every await ends an action.  A commit of a new user waits for another   *)
(* transaction's insert of the same e-mail address and fails when that one *)
(* commits, so insert and commit are one step.  No code of the server sets *)
(* is_active or deletes a user; whoever administers the database does.     *)
(***************************************************************************)
EXTENDS Integers

CONSTANTS
    Address,      \* e-mail addresses as users type them
    Normal,       \* [Address -> Address]: lower case, no blanks around
    Password,
    Req,          \* slots for the requests the server works on at a time
    EXPIRE,       \* jwt_access_token_expire_minutes, in ticks of the clock
    MaxTime,      \* bound: the clock stops here
    MaxAccounts,  \* bound: no account is made beyond these
    None

ASSUME ConstantsAssumption ==
    /\ Normal \in [Address -> Address]
    /\ \A e \in Address : Normal[Normal[e]] = Normal[e]
    /\ EXPIRE \in Nat
    /\ MaxTime \in Nat
    /\ MaxAccounts \in Nat

\* A primary key (uuid4): the accounts are numbered as they are made, and 0
\* stands for an id no account has.
Id == 0 .. MaxAccounts

User == [id : Id \ {0}, password : Password, is_active : BOOLEAN]

Credentials == [email : Address, password : Password]

\* A token: its subject, whether it is signed with jwt_secret, its last minute.
\* Who it was issued to is history.
Token == [sub : Id, signed : BOOLEAN, exp : Nat, to : Credentials]

ASSUME NoneAssumption == None \notin User /\ None \notin Token

VARIABLES
    now,
    users,    \* the table, by e-mail address (unique)
    made,     \* how many accounts have been made
    tokens,   \* the tokens that have been issued
    phase,    \* where a request's handler is
    cred,     \* the credentials of a register or login
    id,       \* the id of the row a register has made or a token names
    token,    \* the token a request is authenticated by
    arrived,  \* history: when a request was authenticated, and
    barred    \* whether its account has not been active at any time since

vars == <<now, users, made, tokens, phase, cred, id, token, arrived, barred>>
request == <<phase, cred, id, token, arrived, barred>>

Init ==
    /\ now = 0
    /\ users = [e \in Address |-> None]
    /\ made = 0
    /\ tokens = {}
    /\ phase = [r \in Req |-> "idle"]
    /\ cred = [r \in Req |-> None]
    /\ id = [r \in Req |-> 0]
    /\ token = [r \in Req |-> None]
    /\ arrived = [r \in Req |-> 0]
    /\ barred = [r \in Req |-> FALSE]

\* The accounts: the rows of the table.
Accounts == {users[e] : e \in {a \in Address : users[a] # None}}

-----------------------------------------------------------------------------
\* Fault: the address is used as it was typed.
AsTyped(email) == email

\* UserRegister, UserLogin, User.validate_email
Normalize(email) == Normal[email]

\* The answer is on its way, and the request over.
End(r) ==
    /\ phase' = [phase EXCEPT ![r] = "idle"]
    /\ cred' = [cred EXCEPT ![r] = None]
    /\ id' = [id EXCEPT ![r] = 0]
    /\ token' = [token EXCEPT ![r] = None]
    /\ arrived' = [arrived EXCEPT ![r] = 0]
    /\ barred' = [barred EXCEPT ![r] = FALSE]

\* create_access_token, and the answer that carries the token.
Issue(r, sub, signed) ==
    /\ tokens' = tokens \cup {[sub |-> sub, signed |-> signed,
                               exp |-> now + EXPIRE, to |-> cred[r]]}
    /\ End(r)

\* A token for nobody, signed with another secret.
IssueDummy(r) == Issue(r, 0, FALSE)

Start(r, p, email, password) ==
    /\ phase[r] = "idle"
    /\ phase' = [phase EXCEPT ![r] = p]
    /\ cred' = [cred EXCEPT ![r] = [email |-> Normalize(email), password |-> password]]
    /\ UNCHANGED <<now, users, made, tokens, id, token, arrived, barred>>

-----------------------------------------------------------------------------
(* register *)

Register(r, email, password) == Start(r, "check", email, password)

\* The select by e-mail address: a known one is answered with a dummy token.
Check(r) ==
    /\ phase[r] = "check"
    /\ IF users[cred[r].email] # None
       THEN IssueDummy(r)
       ELSE /\ phase' = [phase EXCEPT ![r] = "insert"]
            /\ UNCHANGED <<tokens, cred, id, token, arrived, barred>>
    /\ UNCHANGED <<now, users, made>>

\* Fault: the id of a deleted account is given again.
NewUserOldId(r) ==
    [id |-> CHOOSE i \in Id \ {0} : \A u \in Accounts : u.id # i,
     password |-> cred[r].password, is_active |-> TRUE]

NewUser(r) ==
    [id |-> made + 1, password |-> cred[r].password, is_active |-> TRUE]

\* Fault: the address is not unique; a second insert takes its row.
InsertTwice(r) ==
    /\ phase[r] = "insert"
    /\ made < MaxAccounts
    /\ users' = [users EXCEPT ![cred[r].email] = NewUser(r)]
    /\ made' = made + 1
    /\ id' = [id EXCEPT ![r] = made + 1]
    /\ phase' = [phase EXCEPT ![r] = "refresh"]
    /\ UNCHANGED <<now, tokens, cred, token, arrived, barred>>

\* Fault: the loser of a race is logged in instead.
InsertOrLogin(r) ==
    /\ phase[r] = "insert"
    /\ IF users[cred[r].email] # None
       THEN /\ Issue(r, users[cred[r].email].id, TRUE)
            /\ UNCHANGED <<users, made>>
       ELSE /\ made < MaxAccounts
            /\ users' = [users EXCEPT ![cred[r].email] = NewUser(r)]
            /\ made' = made + 1
            /\ id' = [id EXCEPT ![r] = made + 1]
            /\ phase' = [phase EXCEPT ![r] = "refresh"]
            /\ UNCHANGED <<tokens, cred, token, arrived, barred>>
    /\ UNCHANGED now

\* INSERT and COMMIT; an IntegrityError, of a race for the address, is answered
\* with a dummy token as well.
Insert(r) ==
    /\ phase[r] = "insert"
    /\ IF users[cred[r].email] # None
       THEN /\ IssueDummy(r)
            /\ UNCHANGED <<users, made>>
       ELSE /\ made < MaxAccounts
            /\ users' = [users EXCEPT ![cred[r].email] = NewUser(r)]
            /\ made' = made + 1
            /\ id' = [id EXCEPT ![r] = made + 1]
            /\ phase' = [phase EXCEPT ![r] = "refresh"]
            /\ UNCHANGED <<tokens, cred, token, arrived, barred>>
    /\ UNCHANGED now

\* The refresh reads the new row again, and fails if it is gone.
Refresh(r) ==
    /\ phase[r] = "refresh"
    /\ IF \E u \in Accounts : u.id = id[r]
       THEN Issue(r, id[r], TRUE)
       ELSE End(r) /\ UNCHANGED tokens
    /\ UNCHANGED <<now, users, made>>

-----------------------------------------------------------------------------
(* login *)

Login(r, email, password) == Start(r, "login", email, password)

\* Fault: the password is not verified.
VerifyNothing(r) ==
    LET user == users[cred[r].email]
    IN  /\ phase[r] = "login"
        /\ IF user # None /\ user.is_active
           THEN Issue(r, user.id, TRUE)
           ELSE End(r) /\ UNCHANGED tokens
        /\ UNCHANGED <<now, users, made>>

\* The select by e-mail address; an unknown one, a wrong password and an
\* inactive account are answered with a 401.
Verify(r) ==
    LET user == users[cred[r].email]
    IN  /\ phase[r] = "login"
        /\ IF user # None /\ user.password = cred[r].password /\ user.is_active
           THEN Issue(r, user.id, TRUE)
           ELSE End(r) /\ UNCHANGED tokens
        /\ UNCHANGED <<now, users, made>>

-----------------------------------------------------------------------------
(* get_current_user, and the handler that depends on it *)

\* Fault: the expiry of a token is not looked at.
Signed(t) == t.signed

\* jwt.decode
Accepts(t) == t.signed /\ now <= t.exp

\* Fault: a request without a token goes on to the select.
CallAnonymous(r, t) ==
    /\ phase[r] = "idle"
    /\ phase' = [phase EXCEPT ![r] = "identify"]
    /\ UNCHANGED <<now, users, made, tokens, cred, id, token, arrived, barred>>

\* A request with a token; one that is not accepted is answered with a 401.
Call(r, t) ==
    /\ phase[r] = "idle"
    /\ Accepts(t)
    /\ phase' = [phase EXCEPT ![r] = "identify"]
    /\ id' = [id EXCEPT ![r] = t.sub]
    /\ token' = [token EXCEPT ![r] = t]
    /\ arrived' = [arrived EXCEPT ![r] = now]
    /\ barred' = [barred EXCEPT ![r] = ~\E u \in Accounts : u.id = t.sub /\ u.is_active]
    /\ UNCHANGED <<now, users, made, tokens, cred>>

\* Fault: an inactive user is let in.
IdentifyInactive(r) ==
    /\ phase[r] = "identify"
    /\ IF \E u \in Accounts : u.id = id[r]
       THEN /\ phase' = [phase EXCEPT ![r] = "serve"]
            /\ UNCHANGED <<cred, id, token, arrived, barred>>
       ELSE End(r)
    /\ UNCHANGED <<now, users, made, tokens>>

\* The select of the user by the token's subject; without one, or with an
\* inactive one, the answer is a 401.
Identify(r) ==
    /\ phase[r] = "identify"
    /\ IF \E u \in Accounts : u.id = id[r] /\ u.is_active
       THEN /\ phase' = [phase EXCEPT ![r] = "serve"]
            /\ UNCHANGED <<cred, id, token, arrived, barred>>
       ELSE End(r)
    /\ UNCHANGED <<now, users, made, tokens>>

\* The handler of the endpoint answers.
Serve(r) ==
    /\ phase[r] = "serve"
    /\ End(r)
    /\ UNCHANGED <<now, users, made, tokens>>

\* A database error, a crash or a lost connection.
Fail(r) ==
    /\ phase[r] # "idle"
    /\ End(r)
    /\ UNCHANGED <<now, users, made, tokens>>

-----------------------------------------------------------------------------
(* The administrator, and time *)

Deactivate(e) ==
    /\ users[e] # None
    /\ users' = [users EXCEPT ![e].is_active = FALSE]
    /\ UNCHANGED <<now, made, tokens, request>>

\* The flag is set back; requests on their way find the account active again.
Reactivate(e) ==
    /\ users[e] # None
    /\ users' = [users EXCEPT ![e].is_active = TRUE]
    /\ barred' = [r \in Req |-> barred[r] /\ id[r] # users[e].id]
    /\ UNCHANGED <<now, made, tokens, phase, cred, id, token, arrived>>

Delete(e) ==
    /\ users[e] # None
    /\ users' = [users EXCEPT ![e] = None]
    /\ UNCHANGED <<now, made, tokens, request>>

Tick ==
    /\ now < MaxTime
    /\ now' = now + 1
    /\ UNCHANGED <<users, made, tokens, request>>

Next ==
    \/ \E r \in Req, e \in Address, p \in Password : Register(r, e, p)
    \/ \E r \in Req : Check(r)
    \/ \E r \in Req : Insert(r)
    \/ \E r \in Req : Refresh(r)
    \/ \E r \in Req, e \in Address, p \in Password : Login(r, e, p)
    \/ \E r \in Req : Verify(r)
    \/ \E r \in Req, t \in tokens : Call(r, t)
    \/ \E r \in Req : Identify(r)
    \/ \E r \in Req : Serve(r)
    \/ \E r \in Req : Fail(r)
    \/ \E e \in Address : Deactivate(e)
    \/ \E e \in Address : Reactivate(e)
    \/ \E e \in Address : Delete(e)
    \/ Tick

Spec == Init /\ [][Next]_vars

-----------------------------------------------------------------------------
(* Properties *)

\* Types; a request has the locals its phase needs.
TypeOK ==
    /\ now \in Nat
    /\ users \in [Address -> User \cup {None}]
    /\ made \in Id
    /\ tokens \subseteq Token
    /\ phase \in [Req -> {"idle", "check", "insert", "refresh", "login",
                          "identify", "serve"}]
    /\ cred \in [Req -> Credentials \cup {None}]
    /\ id \in [Req -> Id]
    /\ token \in [Req -> Token \cup {None}]
    /\ arrived \in [Req -> Nat]
    /\ barred \in [Req -> BOOLEAN]
    /\ \A r \in Req :
         /\ phase[r] \in {"check", "insert", "refresh", "login"}
              => cred[r] \in Credentials
         /\ phase[r] \in {"identify", "serve"} => token[r] \in Token

\* A token that names an account was issued to someone who gave the account's
\* address and password: not to the loser of a race of registrations, not to a
\* failed login, and not before the account of a deleted address was made anew.
TokensAreEarned ==
    \A t \in tokens, e \in Address :
        ( t.signed /\ users[e] # None /\ users[e].id = t.sub )
        => t.to = [email |-> e, password |-> users[e].password]

\* Different spellings of an address have one account among them.
AddressesUnique ==
    \A a, b \in Address :
        ( users[a] # None /\ users[b] # None /\ Normal[a] = Normal[b] ) => a = b

\* A request is only served for an account that has been active at some time
\* since the request arrived, with a token that had not expired when it did.
ServedWhenAllowed ==
    \A r \in Req : phase[r] = "serve" => /\ ~barred[r]
                                         /\ token[r].sub = id[r]
                                         /\ arrived[r] <= token[r].exp

\* An account keeps its id and password for as long as it exists: the second
\* registration of an address, however it races the first, leaves it alone.
RegistrationStands ==
    [][\A e \in Address :
          ( users[e] # None /\ users'[e] # None )
          => /\ users'[e].id = users[e].id
             /\ users'[e].password = users[e].password]_vars

\* The account a token names is there; and it is active.
Names(t) == \E u \in Accounts : u.id = t.sub
Opens(t) == \E u \in Accounts : u.id = t.sub /\ u.is_active

\* The tokens of a deleted account name no account again, not even one made of
\* the same address; and a token that opens no account opens one only when the
\* administrator reactivates the very account it names.
StaysShut ==
    [][\A t \in tokens : t.signed =>
          /\ ~Names(t) => ~Names(t)'
          /\ ( ~Opens(t) /\ Opens(t)' )
             => \E e \in Address : Reactivate(e) /\ users[e].id = t.sub]_vars

-----------------------------------------------------------------------------
(***************************************************************************)
(* The inductive invariant: ids are never given twice, and what a request  *)
(* knows of an account stays true of it for as long as it exists.          *)
(***************************************************************************)

\* An account has a normalised address and an id of its own, given before.
AccountsOK ==
    \A a \in Address : users[a] # None =>
        /\ Normal[a] = a
        /\ users[a].id <= made
        /\ \A b \in Address :
             ( users[b] # None /\ users[b].id = users[a].id ) => a = b

\* A signed token names an account there has been.
TokensOK == \A t \in tokens : t.signed => t.sub \in 1 .. made

\* Credentials are normalised; an account that a register has made is its own.
Registering(r) ==
    /\ phase[r] \in {"check", "insert", "refresh", "login"}
         => Normal[cred[r].email] = cred[r].email
    /\ phase[r] = "refresh" =>
         /\ id[r] \in 1 .. made
         /\ \A e \in Address :
              ( users[e] # None /\ users[e].id = id[r] )
              => cred[r] = [email |-> e, password |-> users[e].password]

\* A request with a token names the token's subject; its account is not active
\* if it has not been since the request arrived.
Identifying(r) ==
    /\ phase[r] \in {"identify", "serve"} =>
         /\ id[r] \in 1 .. made
         /\ token[r].sub = id[r]
         /\ arrived[r] <= token[r].exp
    /\ ( phase[r] = "identify" /\ barred[r] ) =>
         \A e \in Address :
            ( users[e] # None /\ users[e].id = id[r] ) => ~users[e].is_active

Inductive ==
    /\ TypeOK
    /\ AccountsOK
    /\ TokensOK
    /\ TokensAreEarned
    /\ \A r \in Req : Registering(r) /\ Identifying(r)
    /\ \A r \in Req : phase[r] = "serve" => ~barred[r]
===============================================================================
