-------------------------------- MODULE Server --------------------------------
(***************************************************************************)
(* Server processes that come and go while their encryption keys are       *)
(* rotated, and the requests that write and read what is encrypted: the    *)
(* whole-state half of api/v1/sync.py and api/v1/bank.py, on the session   *)
(* of db/session.py and with the settings of core/config.py.               *)
(*                                                                         *)
(* A process reads its settings once (get_settings is cached), when it     *)
(* starts.  The versions and the conflicts of whole-state sync are the     *)
(* subject of StateSync, the rules of per-record sync of RecordSync, the   *)
(* tokens of Auth; here a write may be refused, or is stored.              *)
(***************************************************************************)
EXTENDS Encryption

CONSTANTS
    Process,       \* the processes that may serve
    User,
    Req,           \* slots for the requests worked on at a time
    Key,
    KeyLists,      \* the valid values of ENCRYPTION_KEY
    Body,          \* the bodies of sync requests
    LIMIT,         \* max_size of a decompressed body
    Provider,      \* the providers' names in exchange requests
    Id,            \* ids of bank connections
    Signed,        \* the webhooks Plaid and GoCardless have signed
    WebhookBody,
    Forged,        \* a signature made with another secret than the server's
    MaxExchanges,  \* bound on the exchanges clients ask for
    None

\* A body: its size when decompressed, and how much of it is undamaged.
\* A provider's name: its characters, and its bytes in UTF-8.
ASSUME ConstantsAssumption ==
    /\ KeyLists \subseteq Seq(Key) \ {<<>>}
    /\ Body \subseteq [gzip : BOOLEAN, size : Nat, sound : Nat]
    /\ \A b \in Body : b.sound <= b.size /\ (~b.gzip => b.sound = b.size)
    /\ LIMIT \in Nat
    /\ Provider \subseteq [chars : Nat, bytes : Nat]
    /\ \A v \in Provider : v.bytes <= 4 * v.chars
    /\ Signed \subseteq [by : {"plaid", "gocardless"}, body : WebhookBody]
    /\ MaxExchanges \in Nat

PROVIDER_WIDTH == 100  \* the column bank_connections.provider
TOKEN_CHARS == 1024    \* EncryptedString(length=1024), access_token
TOKEN_WIDTH == 1024    \* the column access_token, as the migration makes it

\* A row of sync_states, as far as its content goes.
Row == Ciphertext(Key, Body)

\* A row of bank_connections; n is the exchange it comes from (history).
Connection == [id : Id, user : User, key : Key, n : 1..MaxExchanges]

\* A request's locals.  Until the answer is delivered there is kept, of an
\* exchange, all but its process, and of a push of a record, the key it is
\* stored under.
Push == [kind : {"push"}, at : Process, user : User, body : Body, found : BOOLEAN]
Exchange == [kind : {"exchange"}, at : Process \cup {None}, user : User, provider : Provider,
             n : 1..MaxExchanges, id : Id \cup {None}]
Reload == [kind : {"reload"}, at : Process, user : User]
Record == [kind : {"record"}, key : Key \cup {None}]

Job == Push \cup Reload \cup Exchange \cup Record

\* 200 and 201; a 500 for a ciphertext, or for a column's width; and all other
\* answers, whichever code they have.
Status == {"ok", "DecryptionError", "DataError", "error"}

ASSUME NoneAssumption ==
    /\ None \notin Row /\ None \notin Job /\ None \notin Status
    /\ None \notin Id /\ None \notin Process /\ None \notin Signed /\ Forged \notin Signed

VARIABLES
    settings,    \* ENCRYPTION_KEY, for the processes that start from now on
    ring,        \* encryption_keys of a process; <<>> if it does not run
    ordered,     \* history: every rotation so far was compatible
    account,     \* users
    state,       \* sync_states, by user_id
    connection,  \* bank_connections
    phase, job, reply,
    exchanges,   \* history: the exchanges asked for
    told,        \* history: the connections clients got a 201 for
    failed       \* history: the exchanges that ended otherwise, for the client

deployVars == <<settings, ring, ordered>>
dbVars == <<account, state, connection>>
reqVars == <<phase, job, reply>>
clientVars == <<exchanges, told, failed>>
vars == <<deployVars, dbVars, reqVars, clientVars>>

Init ==
    /\ settings \in KeyLists
    /\ ring = [p \in Process |-> <<>>]
    /\ ordered = TRUE
    /\ account = User
    /\ state = [u \in User |-> None]
    /\ connection = {}
    /\ phase = [r \in Req |-> "idle"]
    /\ job = [r \in Req |-> None]
    /\ reply = [r \in Req |-> None]
    /\ exchanges = 0
    /\ told = {}
    /\ failed = {}

-----------------------------------------------------------------------------
(* Deployment *)

Running == {p \in Process : ring[p] # <<>>}

StoredKeys == {state[u].key : u \in {v \in User : state[v] # None}}
              \cup {c.key : c \in connection}

\* A rotation that takes one step at a time: no stored value and no running
\* process depends on a key it drops, and none lacks the key it writes under.
Compatible(keys) ==
    /\ StoredKeys \subseteq Keys(keys)
    /\ \A p \in Running : /\ Primary(keys) \in Keys(ring[p])
                          /\ Primary(ring[p]) \in Keys(keys)

\* The operator edits ENCRYPTION_KEY.
Rotate(keys) ==
    /\ keys # settings
    /\ settings' = keys
    /\ ordered' = (ordered /\ Compatible(keys))
    /\ UNCHANGED <<ring, dbVars, reqVars, clientVars>>

\* A process starts.  With keys that are not valid none does
\* (validate_encryption_keys), so there is no step for those.
Start(p) ==
    /\ p \notin Running
    /\ ring' = [ring EXCEPT ![p] = settings]
    /\ UNCHANGED <<settings, ordered, dbVars, reqVars, clientVars>>

IsExchange(r) == job[r] # None /\ job[r].kind = "exchange"

Attempts(R) == {job[r].n : r \in {q \in R : IsExchange(q)}}

\* Fault: a request survives its process.
StopAlone(p) ==
    /\ p \in Running
    /\ ring' = [ring EXCEPT ![p] = <<>>]
    /\ UNCHANGED <<settings, ordered, dbVars, reqVars, clientVars>>

\* A process stops or crashes: its requests are gone, uncommitted work with
\* them, and their clients get no answer.
Stop(p) ==
    LET gone == {r \in Req : phase[r] \in {"write", "refresh"} /\ job[r].at = p}
    IN  /\ p \in Running
        /\ ring' = [ring EXCEPT ![p] = <<>>]
        /\ phase' = [r \in Req |-> IF r \in gone THEN "idle" ELSE phase[r]]
        /\ job' = [r \in Req |-> IF r \in gone THEN None ELSE job[r]]
        /\ failed' = failed \cup Attempts(gone)
        /\ UNCHANGED <<settings, ordered, dbVars, reply, exchanges, told>>

-----------------------------------------------------------------------------
(* A request's steps *)

Go(r, where, j) ==
    /\ phase' = [phase EXCEPT ![r] = where]
    /\ job' = [job EXCEPT ![r] = j]
    /\ UNCHANGED reply

\* The handler returns or raises; the session ends, and its locks with it.
Answer(r, j, status) ==
    /\ phase' = [phase EXCEPT ![r] = "answered"]
    /\ job' = [job EXCEPT ![r] = j]
    /\ reply' = [reply EXCEPT ![r] = status]

Starts(r, p) == phase[r] = "idle" /\ p \in Running

\* Fault: a damaged body is taken as far as it goes.
NeverDamaged(b) == FALSE

\* GzipRequest.body raises once it has read more than LIMIT, and where the
\* compressed data is damaged.
TooLarge(b) == b.gzip /\ \E total \in 1..b.sound : total > LIMIT
Damaged(b) == b.gzip /\ b.sound < b.size

Accepted(b) == ~TooLarge(b) /\ ~Damaged(b)

\* 413 or 400, or 401 by get_current_user, before the handler begins.
Refused(r, p, u, b) ==
    /\ Starts(r, p)
    /\ ~Accepted(b) \/ u \notin account
    /\ Answer(r, None, "error")
    /\ UNCHANGED <<deployVars, dbVars, clientVars>>

-----------------------------------------------------------------------------
(* POST and GET /api/v1/sync: the state is one encrypted value for a user *)

Writes(r) == phase[r] = "write" /\ job[r].kind = "push"

\* A request that found a row holds its lock until its session ends.
Locked(u) == \E r \in Req : Writes(r) /\ job[r].found /\ job[r].user = u

Unreadable(p, u) == state[u] # None /\ ~Opens(ring[p], state[u])

\* Fault: the row is selected without its lock.
SelectUnlocked(r, p, u, b) ==
    /\ Starts(r, p) /\ Accepted(b) /\ u \in account
    /\ IF Unreadable(p, u) THEN Answer(r, None, "DecryptionError")
       ELSE Go(r, "write", [kind |-> "push", at |-> p, user |-> u, body |-> b,
                            found |-> state[u] # None])
    /\ UNCHANGED <<deployVars, dbVars, clientVars>>

\* SELECT .. FOR UPDATE, which decrypts the row it returns.
Select(r, p, u, b) ==
    /\ ~Locked(u)
    /\ SelectUnlocked(r, p, u, b)

\* The version is not the row's.
Conflict(r) ==
    /\ Writes(r)
    /\ Answer(r, None, "error")
    /\ UNCHANGED <<deployVars, dbVars, clientVars>>

\* What the rest of the handler needs once the state is committed.
Reloads(r) == [kind |-> "reload", at |-> job[r].at, user |-> job[r].user]

\* Fault: the new row replaces one that was inserted meanwhile.
StoreAlways(r) ==
    LET u == job[r].user
        b == job[r].body
    IN  /\ Writes(r)
        /\ IF u \in account
           THEN /\ state' = [state EXCEPT ![u] = Encrypt(ring[job[r].at], b)]
                /\ Go(r, "refresh", Reloads(r))
           ELSE Answer(r, None, "error") /\ UNCHANGED state
        /\ UNCHANGED <<deployVars, account, connection, clientVars>>

\* Flush and commit.  The ORM leaves out a column that is set to an equal value,
\* so its ciphertext stays; an insert fails (IntegrityError) if there is a row by
\* now, or no account any more.
Store(r) ==
    LET u == job[r].user
        b == job[r].body
    IN  /\ Writes(r)
        /\ IF job[r].found
           THEN /\ state' = IF state[u].value = b THEN state
                            ELSE [state EXCEPT ![u] = Encrypt(ring[job[r].at], b)]
                /\ Go(r, "refresh", Reloads(r))
           ELSE IF state[u] = None /\ u \in account
           THEN /\ state' = [state EXCEPT ![u] = Encrypt(ring[job[r].at], b)]
                /\ Go(r, "refresh", Reloads(r))
           ELSE Answer(r, None, "error") /\ UNCHANGED state
        /\ UNCHANGED <<deployVars, account, connection, clientVars>>

\* db.refresh decrypts what the row holds by now, if it is still there.
RefreshState(r) ==
    LET u == job[r].user
    IN  /\ phase[r] = "refresh" /\ job[r].kind = "reload"
        /\ Answer(r, None, IF state[u] = None THEN "error"
                           ELSE IF Unreadable(job[r].at, u) THEN "DecryptionError"
                           ELSE "ok")
        /\ UNCHANGED <<deployVars, dbVars, clientVars>>

Pull(r, p, u) ==
    /\ Starts(r, p) /\ u \in account
    /\ Answer(r, None, IF Unreadable(p, u) THEN "DecryptionError" ELSE "ok")
    /\ UNCHANGED <<deployVars, dbVars, clientVars>>

\* A push of a record, whose row is RecordSync's; its data is a JSON column, and
\* is stored as it is.
PushRecord(r, p, u, b) ==
    /\ Starts(r, p) /\ Accepted(b) /\ u \in account
    /\ Answer(r, [kind |-> "record", key |-> None], "ok")
    /\ UNCHANGED <<deployVars, dbVars, clientVars>>

-----------------------------------------------------------------------------
(* POST /api/v1/bank/connections/exchange *)

\* access_token_<provider>_<32 hex digits>
TokenLength(n) == 46 + n

\* The flush: the check of EncryptedString, and the columns' widths.  (An item_id
\* of more than 255 characters fails as a provider's name of more than 100 does.)
Stores(v) ==
    /\ TokenLength(v.chars) <= TOKEN_CHARS
    /\ v.chars <= PROVIDER_WIDTH
    /\ FernetLength(TokenLength(v.bytes)) <= TOKEN_WIDTH

AskExchange(r, p, u, v) ==
    /\ Starts(r, p) /\ u \in account
    /\ exchanges < MaxExchanges
    /\ exchanges' = exchanges + 1
    /\ Go(r, "write", [kind |-> "exchange", at |-> p, user |-> u, provider |-> v,
                       n |-> exchanges + 1, id |-> None])
    /\ UNCHANGED <<deployVars, dbVars, told, failed>>

StoresToken(r) == phase[r] = "write" /\ IsExchange(r)

\* What is left of an exchange when its handler ends.
Ended(r) == [job[r] EXCEPT !.at = None]

NewConnection(r, id) ==
    [id |-> id, user |-> job[r].user, key |-> Primary(ring[job[r].at]),
     n |-> job[r].n]

Fresh(id) == \A c \in connection : c.id # id

\* Fault: a commit whose outcome is unknown is repeated with a new id.
InsertTwice(r) ==
    /\ StoresToken(r) /\ job[r].user \in account /\ Stores(job[r].provider)
    /\ \E id, other \in Id :
          /\ Fresh(id) /\ Fresh(other)
          /\ connection' = connection \cup {NewConnection(r, id),
                                            NewConnection(r, other)}
          /\ Go(r, "refresh", [job[r] EXCEPT !.id = id])
    /\ UNCHANGED <<deployVars, account, state, clientVars>>

\* The row and its commit, under a new uuid.
Insert(r) ==
    /\ StoresToken(r) /\ job[r].user \in account /\ Stores(job[r].provider)
    /\ \E id \in Id :
          /\ Fresh(id)
          /\ connection' = connection \cup {NewConnection(r, id)}
          /\ Go(r, "refresh", [job[r] EXCEPT !.id = id])
    /\ UNCHANGED <<deployVars, account, state, clientVars>>

\* A value too long for its column, or no account any more.
InsertFails(r) ==
    /\ StoresToken(r)
    /\ job[r].user \notin account \/ ~Stores(job[r].provider)
    /\ Answer(r, Ended(r), IF Stores(job[r].provider) THEN "error" ELSE "DataError")
    /\ UNCHANGED <<deployVars, dbVars, clientVars>>

RefreshConnection(r) ==
    LET p     == job[r].at
        found == {c \in connection : c.id = job[r].id}
    IN  /\ phase[r] = "refresh" /\ IsExchange(r)
        /\ Answer(r, Ended(r),
                  IF found = {} THEN "error"
                  ELSE IF \E c \in found : ~Opens(ring[p], c) THEN "DecryptionError"
                  ELSE "ok")
        /\ UNCHANGED <<deployVars, dbVars, clientVars>>

-----------------------------------------------------------------------------
(* POST /api/v1/bank/webhooks *)

\* What a header may hold: nothing, a forgery, or the signature of some webhook,
\* which may have got to another one.
Header == {None, Forged} \cup Signed

\* GoCardless: the HMAC of the body.  Plaid: a JWT that names the body's hash.
Verifies(header, secret, b) ==
    header \in Signed /\ header = [by |-> secret, body |-> b]

\* Webhook-Signature goes before Plaid-Verification; the answer is all that comes
\* of a webhook.
Receive(r, b, plaid, gocardless) ==
    LET by     == IF gocardless # None THEN "gocardless" ELSE "plaid"
        header == IF gocardless # None THEN gocardless ELSE plaid
    IN  /\ \E p \in Process : Starts(r, p)
        /\ Answer(r, None, IF Verifies(header, by, b) THEN "ok" ELSE "error")
        /\ UNCHANGED <<deployVars, dbVars, clientVars>>

-----------------------------------------------------------------------------
(* Failures, answers, clients, and the administrator *)

\* A database error or a lost connection, before or after the commit.
Fail(r) ==
    /\ phase[r] \in {"write", "refresh"}
    /\ Answer(r, IF IsExchange(r) THEN Ended(r) ELSE None, "error")
    /\ UNCHANGED <<deployVars, dbVars, clientVars>>

Done(r) ==
    /\ phase[r] = "answered"
    /\ phase' = [phase EXCEPT ![r] = "idle"]
    /\ job' = [job EXCEPT ![r] = None]
    /\ reply' = [reply EXCEPT ![r] = None]
    /\ UNCHANGED <<deployVars, dbVars, exchanges>>

\* The client learns of its connection only by a 201.
Deliver(r) ==
    /\ Done(r)
    /\ IF IsExchange(r) /\ reply[r] = "ok"
       THEN told' = told \cup {<<job[r].user, job[r].id>>} /\ UNCHANGED failed
       ELSE failed' = failed \cup Attempts({r}) /\ UNCHANGED told

\* The answer is lost, or the client no longer waits for it.
Lose(r) ==
    /\ Done(r)
    /\ failed' = failed \cup Attempts({r})
    /\ UNCHANGED told

\* An account is deleted, and its rows by ON DELETE CASCADE, which waits for
\* their locks.
Delete(u) ==
    /\ u \in account /\ ~Locked(u)
    /\ account' = account \ {u}
    /\ state' = [state EXCEPT ![u] = None]
    /\ connection' = {c \in connection : c.user # u}
    /\ UNCHANGED <<deployVars, reqVars, clientVars>>

Next ==
    \/ \E keys \in KeyLists : Rotate(keys)
    \/ \E p \in Process : Start(p) \/ Stop(p)
    \/ \E r \in Req, p \in Process, u \in User, b \in Body :
          Refused(r, p, u, b) \/ Select(r, p, u, b) \/ PushRecord(r, p, u, b)
    \/ \E r \in Req, p \in Process, u \in User : Pull(r, p, u)
    \/ \E r \in Req : Conflict(r) \/ Store(r) \/ RefreshState(r)
    \/ \E r \in Req, p \in Process, u \in User, v \in Provider :
          AskExchange(r, p, u, v)
    \/ \E r \in Req : Insert(r) \/ InsertFails(r) \/ RefreshConnection(r)
    \/ \E r \in Req, b \in WebhookBody, plaid, gocardless \in Header :
          Receive(r, b, plaid, gocardless)
    \/ \E r \in Req : Fail(r) \/ Deliver(r) \/ Lose(r)
    \/ \E u \in User : Delete(u)

Spec == Init /\ [][Next]_vars

-----------------------------------------------------------------------------
(* Properties *)

\* Types; a request in flight belongs to a running process, an idle slot holds
\* nothing.
TypeOK ==
    /\ settings \in KeyLists
    /\ ring \in [Process -> KeyLists \cup {<<>>}]
    /\ ordered \in BOOLEAN
    /\ account \subseteq User
    /\ state \in [User -> Row \cup {None}]
    /\ connection \subseteq Connection
    /\ phase \in [Req -> {"idle", "write", "refresh", "answered"}]
    /\ job \in [Req -> Job \cup {None}]
    /\ reply \in [Req -> Status \cup {None}]
    /\ exchanges \in 0..MaxExchanges
    /\ told \subseteq User \X Id
    /\ failed \subseteq 1..MaxExchanges
    /\ \A r \in Req :
          /\ phase[r] = "idle" => job[r] = None
          /\ phase[r] # "answered" => reply[r] = None
          /\ phase[r] \in {"write", "refresh"}
             => job[r] \in Push \cup Reload \cup Exchange /\ job[r].at \in Running
          /\ phase[r] = "answered" => reply[r] \in Status
          /\ ( IsExchange(r) /\ ( phase[r] = "refresh" \/ reply[r] = "ok" ) )
             => job[r].id \in Id

\* Nobody notices a rotation that keeps to the order (Compatible), although the
\* processes take it up one by one and go on writing: no request fails because
\* its process cannot open what another has written.
RotationUnnoticed == ordered => \A r \in Req : reply[r] # "DecryptionError"

\* Whatever is done to the keys, no stored state is replaced by a process that
\* could not read it: a wrong ENCRYPTION_KEY makes data unreadable, never lost.
NoBlindOverwrite ==
    [][\A u \in User :
          state[u] # None /\ state'[u] \notin {state[u], None}
          => \E r \in Req : /\ Writes(r) /\ phase'[r] = "refresh"
                            /\ job[r].user = u
                            /\ Opens(ring[job[r].at], state[u])]_vars

\* A connection a client was told of is its user's, and stays so as long as the
\* account does; if rotations keep to the order, every process can open its token.
ToldIsKept ==
    \A t \in told : t[1] \in account =>
        \E c \in connection :
            /\ c.user = t[1] /\ c.id = t[2]
            /\ ordered => \A p \in Running : Opens(ring[p], c)

\* An exchange makes at most one connection, and one its client does not know
\* stems from an exchange that failed for the client or is not over: duplicates
\* come of repeating those, and of nothing else.
SurplusIsUnanswered ==
    /\ \A c, d \in connection : c.n = d.n => c = d
    /\ \A c \in connection :
          \/ <<c.user, c.id>> \in told
          \/ c.n \in failed
          \/ \E r \in Req : IsExchange(r) /\ job[r].n = c.n

\* What sync stores is whole, and within the limit if it came compressed.
Whole(b) == b.sound = b.size /\ (b.gzip => b.size <= LIMIT)

StoredIsWhole == \A u \in User : state[u] # None => Whole(state[u].value)

\* The ciphertext of an access token always fits: a column is too narrow only
\* for the name of the provider.
TokenFits ==
    \A r \in Req : reply[r] = "DataError"
                   => job[r].provider.chars > PROVIDER_WIDTH

-----------------------------------------------------------------------------
(***************************************************************************)
(* The inductive invariant.                                                *)
(***************************************************************************)

\* While rotations keep to the order, all that write and all that read agree on
\* the keys in use, the next process to start included.
RingsAgree ==
    ordered =>
      /\ StoredKeys \subseteq Keys(settings)
      /\ \A p \in Running :
            /\ StoredKeys \subseteq Keys(ring[p])
            /\ Primary(settings) \in Keys(ring[p])
            /\ Primary(ring[p]) \in Keys(settings)
            /\ \A q \in Running : Primary(ring[p]) \in Keys(ring[q])

\* A request about to update has read the row, and the row stays what it was; no
\* other request holds its lock.
LocksHold ==
    \A r \in Req : Writes(r) =>
        /\ Whole(job[r].body)
        /\ job[r].found =>
              /\ job[r].user \in account /\ state[job[r].user] # None
              /\ Opens(ring[job[r].at], state[job[r].user])
              /\ \A s \in Req : ( Writes(s) /\ job[s].found
                                 /\ job[s].user = job[r].user ) => s = r

Has(u, id) == \E c \in connection : c.user = u /\ c.id = id

\* Exchanges are numbered; one that has not inserted yet has no connection, one
\* that is answered with a 201 has, and knows it.
ExchangesOK ==
    /\ \A c \in connection : c.n <= exchanges
    /\ \A r \in Req : IsExchange(r) =>
          /\ job[r].n <= exchanges
          /\ \A s \in Req : IsExchange(s) /\ job[s].n = job[r].n => s = r
          /\ phase[r] = "write" => \A c \in connection : c.n # job[r].n
          /\ phase[r] = "refresh" \/ reply[r] = "ok" =>
                /\ job[r].user \in account => Has(job[r].user, job[r].id)
                /\ \A c \in connection : c.n = job[r].n
                      => c.user = job[r].user /\ c.id = job[r].id
    /\ \A t \in told : t[1] \in account => Has(t[1], t[2])

Inductive ==
    /\ TypeOK /\ RotationUnnoticed /\ SurplusIsUnanswered
    /\ StoredIsWhole /\ TokenFits
    /\ RingsAgree /\ LocksHold /\ ExchangesOK

-----------------------------------------------------------------------------
\* What the README says of sensitive financial data: it is encrypted at rest
\* (README.md, "Key Management & Encryption").
EncryptedAtRest ==
    \A r \in Req : ( job[r] # None /\ job[r].kind = "record" )
                   => job[r].key # None
===============================================================================
