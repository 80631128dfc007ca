------------------------------ MODULE ServerProofs ------------------------------
(***************************************************************************)
(* Proofs about Server, for any processes, users, keys, bodies, providers  *)
(* and number of requests at a time.                                       *)
(***************************************************************************)
EXTENDS Server, EncryptionProofs

-----------------------------------------------------------------------------
(* Types *)

\* What a request's locals are, by their kind.
LEMMA JobKinds ==
    ASSUME TypeOK, NEW r \in Req, job[r] # None
    PROVE  /\ job[r].kind = "push" => job[r] \in Push
           /\ job[r].kind = "reload" => job[r] \in Reload
           /\ job[r].kind = "exchange" => job[r] \in Exchange
<1>1. job[r] \in Job
  BY DEF TypeOK
<1> QED  BY <1>1 DEF Job, Push, Reload, Exchange, Record

\* A request at work belongs to a running process and is a push, a reload or an
\* exchange.
LEMMA AtWork ==
    ASSUME TypeOK, NEW r \in Req, phase[r] \in {"write", "refresh"}
    PROVE  /\ job[r] # None /\ reply[r] = None
           /\ job[r] \in Push \cup Reload \cup Exchange
           /\ job[r].at \in Running /\ job[r].user \in User
<1>1. job[r] \in Push \cup Reload \cup Exchange /\ job[r].at \in Running
      /\ reply[r] = None
  BY DEF TypeOK
<1>2. job[r] # None
  BY <1>1, NoneAssumption DEF Job
<1> QED  BY <1>1, <1>2 DEF Push, Reload, Exchange

\* The keys of a process that runs are a list that is not empty.
LEMMA RingTypes ==
    ASSUME TypeOK, NEW p \in Running
    PROVE  /\ p \in Process /\ ring[p] \in KeyLists
           /\ Primary(ring[p]) \in Key
           /\ Primary(ring[p]) \in Keys(ring[p])
<1>1. p \in Process /\ ring[p] \in KeyLists
  BY DEF TypeOK, Running
<1>2. ring[p] \in Seq(Key) /\ ring[p] # <<>>
  BY <1>1, ConstantsAssumption
<1>3. 1 \in DOMAIN ring[p] /\ ring[p][1] \in Key
  BY <1>2
<1> QED  BY <1>1, <1>3 DEF Primary, Keys

\* A step of request r that leaves the processes and the other requests alone
\* keeps the types if what it writes has them.
LEMMA HandlerTypes ==
    ASSUME TypeOK, NEW r \in Req,
           NEW f \in {"idle", "write", "refresh", "answered"},
           NEW j \in Job \cup {None}, NEW s \in Status \cup {None},
           phase' = [phase EXCEPT ![r] = f],
           job' = [job EXCEPT ![r] = j],
           reply' = [reply EXCEPT ![r] = s],
           UNCHANGED deployVars, account' = account,
           state' \in [User -> Row \cup {None}], connection' \subseteq Connection,
           exchanges' \in 0..MaxExchanges, told' \subseteq User \X Id,
           failed' \subseteq 1..MaxExchanges,
           f = "idle" => j = None,
           f # "answered" => s = None,
           f \in {"write", "refresh"} => /\ j \in Push \cup Reload \cup Exchange
                                         /\ j.at \in Running,
           f = "answered" => s \in Status,
           ( j # None /\ j.kind = "exchange" /\ ( f = "refresh" \/ s = "ok" ) )
           => j.id \in Id
    PROVE  TypeOK'
<1>1. /\ phase' \in [Req -> {"idle", "write", "refresh", "answered"}]
      /\ job' \in [Req -> Job \cup {None}]
      /\ reply' \in [Req -> Status \cup {None}]
  BY DEF TypeOK
<1>2. /\ settings' \in KeyLists /\ ring' \in [Process -> KeyLists \cup {<<>>}]
      /\ ordered' \in BOOLEAN /\ account' \subseteq User /\ Running' = Running
  BY DEF TypeOK, deployVars, Running
<1>3. \A q \in Req :
          /\ phase'[q] = "idle" => job'[q] = None
          /\ phase'[q] # "answered" => reply'[q] = None
          /\ phase'[q] \in {"write", "refresh"}
             => job'[q] \in Push \cup Reload \cup Exchange /\ job'[q].at \in Running
          /\ phase'[q] = "answered" => reply'[q] \in Status
          /\ ( IsExchange(q)' /\ ( phase'[q] = "refresh" \/ reply'[q] = "ok" ) )
             => job'[q].id \in Id
  <2> TAKE q \in Req
  <2>1. CASE q = r
    <3>1. phase'[q] = f /\ job'[q] = j /\ reply'[q] = s
      BY <2>1 DEF TypeOK
    <3> QED  BY <3>1 DEF IsExchange
  <2>2. CASE q # r
    <3>1. phase'[q] = phase[q] /\ job'[q] = job[q] /\ reply'[q] = reply[q]
      BY <2>2 DEF TypeOK
    <3> QED  BY <3>1 DEF TypeOK, IsExchange
  <2> QED  BY <2>1, <2>2
<1> QED  BY <1>1, <1>2, <1>3 DEF TypeOK

\* An answer that changes nothing else keeps the types.
LEMMA AnswerTypes ==
    ASSUME TypeOK, NEW r \in Req, NEW j \in Job \cup {None}, NEW s \in Status,
           Answer(r, j, s), UNCHANGED <<deployVars, dbVars, clientVars>>,
           ( j # None /\ j.kind = "exchange" /\ s = "ok" ) => j.id \in Id
    PROVE  TypeOK'
<1>1. /\ UNCHANGED deployVars /\ account' = account
      /\ state' \in [User -> Row \cup {None}] /\ connection' \subseteq Connection
      /\ exchanges' \in 0..MaxExchanges /\ told' \subseteq User \X Id
      /\ failed' \subseteq 1..MaxExchanges
  BY DEF TypeOK, dbVars, clientVars
<1>2. s # None
  BY NoneAssumption
<1> QED  BY <1>1, <1>2, HandlerTypes DEF Answer

\* A step that goes on to write or to refresh keeps the types.
LEMMA GoTypes ==
    ASSUME TypeOK, NEW r \in Req, NEW f \in {"write", "refresh"},
           NEW j \in Push \cup Reload \cup Exchange, j.at \in Running,
           phase[r] # "answered", Go(r, f, j),
           ( j.kind = "exchange" /\ f = "refresh" ) => j.id \in Id,
           UNCHANGED deployVars, account' = account,
           state' \in [User -> Row \cup {None}], connection' \subseteq Connection,
           exchanges' \in 0..MaxExchanges, told' = told, failed' = failed
    PROVE  TypeOK'
<1>1. reply' = [reply EXCEPT ![r] = None]
  BY DEF TypeOK, Go
<1>2. told' \subseteq User \X Id /\ failed' \subseteq 1..MaxExchanges
  BY DEF TypeOK
<1>3. j \in Job \cup {None} /\ None # "ok"
  BY NoneAssumption DEF Job, Status
<1> QED  BY <1>1, <1>2, <1>3, HandlerTypes DEF Go

-----------------------------------------------------------------------------
(* Types: the steps *)

\* The initial state has its types.
LEMMA InitTypes == Init => TypeOK
<1> SUFFICES ASSUME Init PROVE TypeOK
  OBVIOUS
<1>1. 0 \in 0..MaxExchanges
  BY ConstantsAssumption
<1> QED  BY <1>1 DEF Init, TypeOK, IsExchange

\* A rotation, a start and a stop keep the types.
LEMMA DeployTypes ==
    ASSUME TypeOK, \/ \E keys \in KeyLists : Rotate(keys)
                   \/ \E p \in Process : Start(p) \/ Stop(p)
    PROVE  TypeOK'
<1>1. ASSUME NEW keys \in KeyLists, Rotate(keys) PROVE TypeOK'
  <2>1. Compatible(keys) \in BOOLEAN /\ Running' = Running
    BY <1>1 DEF Compatible, Rotate, Running
  <2>2. settings' \in KeyLists /\ ordered' \in BOOLEAN
    BY <1>1, <2>1 DEF Rotate, TypeOK
  <2> QED  BY <1>1, <2>1, <2>2 DEF Rotate, TypeOK, IsExchange, dbVars, reqVars, clientVars
<1>2. ASSUME NEW p \in Process, Start(p) PROVE TypeOK'
  <2>1. ring' \in [Process -> KeyLists \cup {<<>>}]
    BY <1>2 DEF Start, TypeOK
  <2>2. Running \subseteq Running'
    BY <1>2 DEF Start, TypeOK, Running
  <2> QED  BY <1>2, <2>1, <2>2 DEF Start, TypeOK, IsExchange, dbVars, reqVars, clientVars
<1>3. ASSUME NEW p \in Process, Stop(p) PROVE TypeOK'
  <2> DEFINE gone == {r \in Req : phase[r] \in {"write", "refresh"} /\ job[r].at = p}
  <2>1. ring' \in [Process -> KeyLists \cup {<<>>}] /\ Running' = Running \ {p}
    BY <1>3 DEF Stop, TypeOK, Running
  <2>2. /\ phase' = [r \in Req |-> IF r \in gone THEN "idle" ELSE phase[r]]
        /\ job' = [r \in Req |-> IF r \in gone THEN None ELSE job[r]]
        /\ reply' = reply /\ failed' = failed \cup Attempts(gone)
    BY <1>3 DEF Stop
  <2>3. Attempts(gone) \subseteq 1..MaxExchanges
    <3>1. ASSUME NEW r \in gone, IsExchange(r) PROVE job[r].n \in 1..MaxExchanges
      <4>1. r \in Req /\ job[r] \in Exchange
        BY <3>1, JobKinds DEF IsExchange
      <4> QED  BY <4>1 DEF Exchange
    <3> QED  BY <3>1 DEF Attempts
  <2>4. \A r \in Req : /\ reply'[r] = reply[r]
                       /\ r \in gone => phase'[r] = "idle" /\ job'[r] = None
                       /\ r \notin gone => phase'[r] = phase[r] /\ job'[r] = job[r]
    BY <2>2
  <2>5. /\ phase' \in [Req -> {"idle", "write", "refresh", "answered"}]
        /\ job' \in [Req -> Job \cup {None}]
        /\ reply' \in [Req -> Status \cup {None}]
    BY <2>2 DEF TypeOK
  <2>6. \A r \in Req :
          /\ phase'[r] = "idle" => job'[r] = None
          /\ phase'[r] # "answered" => reply'[r] = None
          /\ phase'[r] \in {"write", "refresh"}
             => job'[r] \in Push \cup Reload \cup Exchange /\ job'[r].at \in Running'
          /\ phase'[r] = "answered" => reply'[r] \in Status
          /\ ( IsExchange(r)' /\ ( phase'[r] = "refresh" \/ reply'[r] = "ok" ) )
             => job'[r].id \in Id
    <3> TAKE r \in Req
    <3>1. CASE r \in gone  BY <3>1, <2>4 DEF TypeOK, IsExchange
    <3>2. CASE r \notin gone  BY <3>2, <2>1, <2>4 DEF TypeOK, IsExchange
    <3> QED  BY <3>1, <3>2
  <2>7. /\ UNCHANGED <<settings, ordered, account, state, connection, exchanges, told>>
        /\ failed' \subseteq 1..MaxExchanges
    BY <1>3, <2>2, <2>3 DEF Stop, TypeOK, dbVars
  <2> HIDE DEF gone
  <2> QED  BY <2>1, <2>5, <2>6, <2>7 DEF TypeOK
<1> QED  BY <1>1, <1>2, <1>3

\* What the requests of sync do keeps the types.
LEMMA SyncTypes ==
    ASSUME TypeOK, NEW r \in Req,
           \/ Conflict(r) \/ Store(r) \/ RefreshState(r)
           \/ \E p \in Process, u \in User : Pull(r, p, u)
           \/ \E p \in Process, u \in User, b \in Body :
                 Refused(r, p, u, b) \/ Select(r, p, u, b) \/ PushRecord(r, p, u, b)
    PROVE  TypeOK'
<1>1. /\ None \in Job \cup {None}
      /\ "ok" \in Status /\ "error" \in Status /\ "DecryptionError" \in Status
      /\ [kind |-> "record", key |-> None] \in Job \cup {None}
      /\ [kind |-> "record", key |-> None].kind = "record"
  BY DEF Status, Job, Record
<1>2. CASE Conflict(r)
  BY <1>1, <1>2, AnswerTypes DEF Conflict
<1>3. CASE Store(r)
  <2> DEFINE u == job[r].user
             new == [state EXCEPT ![u] = Encrypt(ring[job[r].at], job[r].body)]
  <2>1. phase[r] = "write" /\ job[r] \in Push /\ job[r].at \in Running
    BY <1>3, AtWork, JobKinds DEF Store, Writes
  <2>2. Encrypt(ring[job[r].at], job[r].body) \in Row
    BY <2>1, RingTypes DEF Encrypt, Row, Ciphertext, Push
  <2>3. new \in [User -> Row \cup {None}] /\ state \in [User -> Row \cup {None}]
    BY <2>2 DEF TypeOK
  <2>4. /\ Reloads(r) \in Reload /\ Reloads(r).at \in Running
        /\ Reloads(r).kind # "exchange"
    BY <2>1 DEF Reloads, Reload, Push
  <2>5. /\ UNCHANGED <<deployVars, clientVars>> /\ UNCHANGED <<account, connection>>
        /\ \/ Go(r, "refresh", Reloads(r)) /\ state' \in {state, new}
           \/ Answer(r, None, "error") /\ state' = state
    BY <1>3 DEF Store
  <2>6. /\ connection' \subseteq Connection /\ exchanges' \in 0..MaxExchanges
        /\ told' = told /\ failed' = failed
    BY <2>5 DEF TypeOK, clientVars
  <2> HIDE DEF new
  <2>7. CASE Go(r, "refresh", Reloads(r)) /\ state' \in {state, new}
    <3>1. state' \in [User -> Row \cup {None}]
      BY <2>3, <2>7
    <3> QED  BY <2>1, <2>4, <2>5, <2>6, <2>7, <3>1, GoTypes
  <2>8. CASE Answer(r, None, "error") /\ state' = state
    BY <1>1, <2>5, <2>8, AnswerTypes DEF dbVars
  <2> QED  BY <2>5, <2>7, <2>8
<1>4. CASE RefreshState(r)
  BY <1>1, <1>4, AnswerTypes DEF RefreshState
<1>5. ASSUME NEW p \in Process, NEW u \in User, Pull(r, p, u) PROVE TypeOK'
  BY <1>1, <1>5, AnswerTypes DEF Pull
<1>6. ASSUME NEW p \in Process, NEW u \in User, NEW b \in Body,
             Refused(r, p, u, b) \/ PushRecord(r, p, u, b)
      PROVE  TypeOK'
  BY <1>1, <1>6, AnswerTypes DEF Refused, PushRecord
<1>7. ASSUME NEW p \in Process, NEW u \in User, NEW b \in Body, Select(r, p, u, b)
      PROVE  TypeOK'
  <2> DEFINE j == [kind |-> "push", at |-> p, user |-> u, body |-> b,
                   found |-> state[u] # None]
  <2>1. j \in Push /\ j.at \in Running /\ phase[r] = "idle" /\ j.kind = "push"
    BY <1>7 DEF Select, SelectUnlocked, Starts, Push
  <2>2. /\ UNCHANGED <<deployVars, dbVars, clientVars>>
        /\ Answer(r, None, "DecryptionError") \/ Go(r, "write", j)
    BY <1>7 DEF Select, SelectUnlocked
  <2>3. /\ UNCHANGED deployVars /\ account' = account
        /\ state' \in [User -> Row \cup {None}] /\ connection' \subseteq Connection
        /\ exchanges' \in 0..MaxExchanges /\ told' = told /\ failed' = failed
    BY <2>2 DEF TypeOK, dbVars, clientVars
  <2> HIDE DEF j
  <2>4. CASE Go(r, "write", j)  BY <2>1, <2>3, <2>4, GoTypes
  <2>5. CASE Answer(r, None, "DecryptionError")  BY <1>1, <2>2, <2>5, AnswerTypes
  <2> QED  BY <2>2, <2>4, <2>5
<1> QED  BY <1>2, <1>3, <1>4, <1>5, <1>6, <1>7

\* A new connection has its type.
LEMMA NewConnectionType ==
    ASSUME TypeOK, NEW r \in Req, StoresToken(r), NEW id \in Id
    PROVE  NewConnection(r, id) \in Connection
<1>1. phase[r] = "write" /\ job[r] \in Exchange /\ job[r].at \in Running
  BY AtWork, JobKinds DEF StoresToken, IsExchange
<1> QED  BY <1>1, RingTypes DEF NewConnection, Connection, Exchange

\* What is left of an exchange has its type.
LEMMA EndedType ==
    ASSUME TypeOK, NEW r \in Req, IsExchange(r)
    PROVE  /\ Ended(r) \in Exchange /\ Ended(r) \in Job
           /\ Ended(r).kind = "exchange" /\ Ended(r).n = job[r].n
           /\ Ended(r).user = job[r].user /\ Ended(r).id = job[r].id
           /\ Ended(r).provider = job[r].provider
<1>1. job[r] \in Exchange
  BY JobKinds DEF IsExchange
<1> QED  BY <1>1 DEF Ended, Exchange, Job

\* What exchange and webhook requests do keeps the types.
LEMMA BankTypes ==
    ASSUME TypeOK, NEW r \in Req,
           \/ Insert(r) \/ InsertFails(r) \/ RefreshConnection(r) \/ Fail(r)
           \/ \E p \in Process, u \in User, v \in Provider : AskExchange(r, p, u, v)
           \/ \E b \in WebhookBody, plaid, gocardless \in Header :
                 Receive(r, b, plaid, gocardless)
    PROVE  TypeOK'
<1>1. /\ None \in Job \cup {None} /\ "ok" \in Status /\ "error" \in Status
      /\ "DecryptionError" \in Status /\ "DataError" \in Status
  BY DEF Status
<1>2. CASE Insert(r)
  <2>1. PICK id \in Id :
          /\ connection' = connection \cup {NewConnection(r, id)}
          /\ Go(r, "refresh", [job[r] EXCEPT !.id = id])
    BY <1>2 DEF Insert
  <2>2. StoresToken(r) /\ UNCHANGED <<deployVars, account, state, clientVars>>
    BY <1>2 DEF Insert
  <2>3. phase[r] = "write" /\ job[r] \in Exchange /\ job[r].at \in Running
    BY <2>2, AtWork, JobKinds DEF StoresToken, IsExchange
  <2> DEFINE j == [job[r] EXCEPT !.id = id]
  <2>4. j \in Exchange /\ j.at \in Running /\ j.id \in Id
    BY <2>3 DEF Exchange
  <2>5. /\ UNCHANGED deployVars /\ account' = account
        /\ state' \in [User -> Row \cup {None}] /\ connection' \subseteq Connection
        /\ exchanges' \in 0..MaxExchanges /\ told' = told /\ failed' = failed
    BY <2>1, <2>2, NewConnectionType DEF TypeOK, clientVars
  <2>6. Go(r, "refresh", j)
    BY <2>1
  <2> HIDE DEF j
  <2> QED  BY <2>3, <2>4, <2>5, <2>6, GoTypes
<1>3. CASE InsertFails(r)
  <2>1. Ended(r) \in Job \cup {None}
    BY <1>3, EndedType DEF InsertFails, StoresToken
  <2>2. \E s \in Status \ {"ok"} : Answer(r, Ended(r), s)
    BY <1>1, <1>3 DEF InsertFails
  <2> QED  BY <1>3, <2>1, <2>2, AnswerTypes DEF InsertFails
<1>4. CASE RefreshConnection(r)
  <2>1. Ended(r) \in Job \cup {None} /\ Ended(r).id \in Id
    BY <1>4, EndedType DEF RefreshConnection, TypeOK
  <2>2. \E s \in Status : Answer(r, Ended(r), s)
    BY <1>1, <1>4 DEF RefreshConnection
  <2> QED  BY <1>4, <2>1, <2>2, AnswerTypes DEF RefreshConnection
<1>5. CASE Fail(r)
  <2>1. \E j \in Job \cup {None} : Answer(r, j, "error")
    BY <1>5, EndedType DEF Fail
  <2> QED  BY <1>1, <1>5, <2>1, AnswerTypes DEF Fail
<1>6. ASSUME NEW p \in Process, NEW u \in User, NEW v \in Provider,
             AskExchange(r, p, u, v)
      PROVE  TypeOK'
  <2> DEFINE j == [kind |-> "exchange", at |-> p, user |-> u, provider |-> v,
                   n |-> exchanges + 1, id |-> None]
  <2>1. exchanges + 1 \in 1..MaxExchanges
    BY <1>6, ConstantsAssumption DEF AskExchange, TypeOK
  <2>2. j \in Exchange /\ j.at \in Running /\ phase[r] = "idle"
    BY <1>6, <2>1 DEF AskExchange, Starts, Exchange
  <2>3. /\ UNCHANGED deployVars /\ account' = account
        /\ state' \in [User -> Row \cup {None}] /\ connection' \subseteq Connection
        /\ exchanges' \in 0..MaxExchanges /\ told' = told /\ failed' = failed
    BY <1>6, <2>1, ConstantsAssumption DEF AskExchange, TypeOK, dbVars
  <2>4. Go(r, "write", j)
    BY <1>6 DEF AskExchange
  <2> HIDE DEF j
  <2> QED  BY <2>2, <2>3, <2>4, GoTypes
<1>7. ASSUME NEW b \in WebhookBody, NEW plaid \in Header, NEW gocardless \in Header,
             Receive(r, b, plaid, gocardless)
      PROVE  TypeOK'
  <2>1. Answer(r, None, "ok") \/ Answer(r, None, "error")
    BY <1>7 DEF Receive
  <2>2. UNCHANGED <<deployVars, dbVars, clientVars>>
    BY <1>7 DEF Receive
  <2> QED  BY <1>1, <2>1, <2>2, AnswerTypes
<1> QED  BY <1>2, <1>3, <1>4, <1>5, <1>6, <1>7

\* An answer that arrives or gets lost, and the deletion of an account, keep the
\* types.
LEMMA ClientTypes ==
    ASSUME TypeOK, \/ \E r \in Req : Deliver(r) \/ Lose(r)
                   \/ \E u \in User : Delete(u)
    PROVE  TypeOK'
<1>1. ASSUME NEW r \in Req, Deliver(r) \/ Lose(r) PROVE TypeOK'
  <2>1. Done(r)
    BY <1>1 DEF Deliver, Lose
  <2>2. Attempts({r}) \subseteq 1..MaxExchanges
    BY JobKinds DEF Attempts, IsExchange, Exchange
  <2>3. IsExchange(r) /\ reply[r] = "ok" => job[r].user \in User /\ job[r].id \in Id
    BY JobKinds DEF IsExchange, Exchange, TypeOK
  <2>4. failed' \subseteq 1..MaxExchanges
    BY <1>1, <2>2 DEF Deliver, Lose, TypeOK
  <2>5. told' \subseteq User \X Id
    BY <1>1, <2>3 DEF Deliver, Lose, TypeOK
  <2>6. /\ UNCHANGED deployVars /\ account' = account
        /\ state' \in [User -> Row \cup {None}] /\ connection' \subseteq Connection
        /\ exchanges' \in 0..MaxExchanges
    BY <2>1 DEF Done, TypeOK, dbVars
  <2> QED  BY <2>1, <2>4, <2>5, <2>6, HandlerTypes DEF Done
<1>2. ASSUME NEW u \in User, Delete(u) PROVE TypeOK'
  <2>1. state' \in [User -> Row \cup {None}] /\ connection' \subseteq Connection
        /\ account' \subseteq User
    BY <1>2 DEF Delete, TypeOK
  <2> QED  BY <1>2, <2>1 DEF Delete, TypeOK, IsExchange, Running, deployVars, reqVars, clientVars
<1> QED  BY <1>1, <1>2

\* Every step keeps the types.
LEMMA NextTypes == TypeOK /\ [Next]_vars => TypeOK'
<1> SUFFICES ASSUME TypeOK, [Next]_vars PROVE TypeOK'
  OBVIOUS
<1>1. CASE UNCHANGED vars
  BY <1>1 DEF TypeOK, IsExchange, Running, vars, deployVars, dbVars, reqVars, clientVars
<1>2. CASE Next
  BY <1>2, DeployTypes, SyncTypes, BankTypes, ClientTypes DEF Next
<1> QED  BY <1>1, <1>2

-----------------------------------------------------------------------------
(* Keys *)

\* What is decrypted is encrypted under a stored key.
LEMMA StoredAreStored ==
    ASSUME TypeOK
    PROVE  /\ \A u \in User : state[u] # None => state[u].key \in StoredKeys
           /\ \A c \in connection : c.key \in StoredKeys
BY DEF StoredKeys

\* A step that leaves the processes alone, and encrypts with the primary key of
\* one of them if at all, keeps their agreement.
LEMMA SameRings ==
    ASSUME TypeOK, RingsAgree, UNCHANGED deployVars,
           \A k \in StoredKeys' :
              k \in StoredKeys \/ \E p \in Running : k = Primary(ring[p])
    PROVE  RingsAgree'
<1>1. Running' = Running /\ settings' = settings /\ ring' = ring /\ ordered' = ordered
  BY DEF deployVars, Running
<1> SUFFICES ASSUME ordered
             PROVE  /\ StoredKeys' \subseteq Keys(settings)
                    /\ \A q \in Running : StoredKeys' \subseteq Keys(ring[q])
  BY <1>1 DEF RingsAgree
<1> QED  BY DEF RingsAgree

\* Nothing that is stored is encrypted anew, though it may go.
LEMMA FewerKeys ==
    ASSUME TypeOK, \A u \in User : state'[u] \in {state[u], None},
           connection' \subseteq connection
    PROVE  StoredKeys' \subseteq StoredKeys
BY DEF StoredKeys, TypeOK

\* A rotation, a start and a stop keep the agreement.
LEMMA DeployRings ==
    ASSUME TypeOK, RingsAgree, \/ \E keys \in KeyLists : Rotate(keys)
                               \/ \E p \in Process : Start(p) \/ Stop(p)
    PROVE  RingsAgree'
<1>1. StoredKeys' = StoredKeys
  BY DEF Rotate, Start, Stop, dbVars, StoredKeys
<1>2. ASSUME NEW keys \in KeyLists, Rotate(keys) PROVE RingsAgree'
  <2>1. Running' = Running /\ ring' = ring /\ settings' = keys
    BY <1>2 DEF Rotate, Running
  <2>2. ordered' => ordered /\ Compatible(keys)
    BY <1>2 DEF Rotate
  <2> QED  BY <1>1, <2>1, <2>2 DEF RingsAgree, Compatible
<1>3. ASSUME NEW p \in Process, Start(p) PROVE RingsAgree'
  <2>1. /\ settings' = settings /\ ordered' = ordered
        /\ ring'[p] = settings /\ \A q \in Running : q # p /\ ring'[q] = ring[q]
        /\ Running' \subseteq Running \cup {p}
    BY <1>3 DEF Start, TypeOK, Running
  <2>2. Primary(settings) \in Keys(settings)
    <3>1. settings \in Seq(Key) /\ settings # <<>>
      BY ConstantsAssumption DEF TypeOK
    <3> QED  BY <3>1 DEF Primary, Keys
  <2> QED  BY <1>1, <2>1, <2>2 DEF RingsAgree
<1>4. ASSUME NEW p \in Process, Stop(p) PROVE RingsAgree'
  <2>1. /\ settings' = settings /\ ordered' = ordered
        /\ Running' \subseteq Running /\ \A q \in Running' : ring'[q] = ring[q]
    BY <1>4 DEF Stop, TypeOK, Running
  <2> QED  BY <1>1, <2>1 DEF RingsAgree
<1> QED  BY <1>2, <1>3, <1>4

\* A write of a state or of a connection uses the primary key of a process.
LEMMA WriteRings ==
    ASSUME TypeOK, RingsAgree, NEW r \in Req, Store(r) \/ Insert(r)
    PROVE  RingsAgree'
<1>1. phase[r] = "write" /\ job[r].at \in Running /\ UNCHANGED deployVars
  BY AtWork DEF Store, Insert, Writes, StoresToken
<1> DEFINE k == Primary(ring[job[r].at])
<1>2. CASE Store(r)
  <2>1. connection' = connection
        /\ \A u \in User : state'[u] = state[u] \/ state'[u].key = k
    BY <1>2 DEF Store, Encrypt, TypeOK
  <2>2. StoredKeys' \subseteq StoredKeys \cup {k}
    <3> HIDE DEF k
    <3> QED  BY <2>1 DEF StoredKeys
  <2> QED  BY <1>1, <2>2, SameRings
<1>3. CASE Insert(r)
  <2>1. state' = state /\ \A c \in connection' : c \in connection \/ c.key = k
    BY <1>3 DEF Insert, NewConnection
  <2>2. StoredKeys' \subseteq StoredKeys \cup {k}
    <3> HIDE DEF k
    <3> QED  BY <2>1 DEF StoredKeys
  <2> QED  BY <1>1, <2>2, SameRings
<1> QED  BY <1>2, <1>3

\* Every step keeps the agreement.
LEMMA NextRings == TypeOK /\ RingsAgree /\ [Next]_vars => RingsAgree'
<1> SUFFICES ASSUME TypeOK, RingsAgree, [Next]_vars PROVE RingsAgree'
  OBVIOUS
<1>1. ASSUME UNCHANGED deployVars, StoredKeys' \subseteq StoredKeys PROVE RingsAgree'
  BY <1>1, SameRings
<1>2. CASE UNCHANGED vars
  <2>1. UNCHANGED deployVars /\ StoredKeys' = StoredKeys
    BY <1>2 DEF vars, deployVars, dbVars, StoredKeys
  <2> QED  BY <1>1, <2>1
<1>3. ASSUME NEW u \in User, Delete(u) PROVE RingsAgree'
  <2>1. UNCHANGED deployVars /\ \A v \in User : state'[v] \in {state[v], None}
        /\ connection' \subseteq connection
    BY <1>3 DEF Delete, TypeOK
  <2> QED  BY <1>1, <2>1, FewerKeys
<1>4. ASSUME UNCHANGED <<deployVars, dbVars>> PROVE RingsAgree'
  <2>1. UNCHANGED deployVars /\ StoredKeys' = StoredKeys
    BY <1>4 DEF dbVars, StoredKeys
  <2> QED  BY <1>1, <2>1
<1>5. ASSUME NEW r \in Req, NEW p \in Process, NEW u \in User,
             \/ Pull(r, p, u) \/ \E v \in Provider : AskExchange(r, p, u, v)
             \/ \E b \in Body : \/ Refused(r, p, u, b) \/ Select(r, p, u, b)
                               \/ PushRecord(r, p, u, b)
      PROVE  RingsAgree'
  BY <1>4, <1>5 DEF Refused, Select, SelectUnlocked, PushRecord, Pull, AskExchange
<1>6. ASSUME NEW r \in Req,
             \/ Conflict(r) \/ RefreshState(r) \/ InsertFails(r) \/ RefreshConnection(r)
             \/ Fail(r) \/ Deliver(r) \/ Lose(r)
      PROVE  RingsAgree'
  BY <1>4, <1>6 DEF Conflict, RefreshState, InsertFails, RefreshConnection, Fail,
                    Deliver, Lose, Done
<1>7. ASSUME NEW r \in Req, NEW b \in WebhookBody,
             NEW plaid \in Header, NEW gocardless \in Header,
             Receive(r, b, plaid, gocardless)
      PROVE  RingsAgree'
  BY <1>4, <1>7 DEF Receive
<1> QED  BY <1>2, <1>3, <1>5, <1>6, <1>7, DeployRings, WriteRings DEF Next

-----------------------------------------------------------------------------
(* Locks and bodies *)

\* An accepted body is whole.
LEMMA AcceptedIsWhole ==
    ASSUME NEW b \in Body, Accepted(b)
    PROVE  Whole(b)
<1>1. /\ b.size \in Nat /\ b.sound \in Nat /\ b.sound <= b.size
      /\ b.gzip \in BOOLEAN /\ LIMIT \in Nat
      /\ ~b.gzip => b.sound = b.size
  <2>1. b \in [gzip : BOOLEAN, size : Nat, sound : Nat]
    BY ConstantsAssumption
  <2> QED  BY <2>1, ConstantsAssumption
<1>2. b.gzip => b.sound = b.size
  BY <1>1 DEF Accepted, Damaged
<1>3. b.gzip => b.size <= LIMIT
  <2> SUFFICES ASSUME b.gzip, b.size > LIMIT PROVE FALSE
    BY <1>1
  <2>1. b.size \in 1..b.sound
    BY <1>1, <1>2
  <2> QED  BY <2>1 DEF Accepted, TooLarge
<1> QED  BY <1>1, <1>2, <1>3 DEF Whole

\* A step that begins no push and leaves accounts, states and the processes of
\* pushes alone keeps the locks and what is stored.
LEMMA SameLocks ==
    ASSUME LocksHold, StoredIsWhole, account' = account, state' = state,
           \A r \in Req : Writes(r)' => /\ Writes(r) /\ job'[r] = job[r]
                                        /\ ring'[job[r].at] = ring[job[r].at]
    PROVE  LocksHold' /\ StoredIsWhole'
<1>1. StoredIsWhole'
  BY DEF StoredIsWhole
<1>2. LocksHold'
  <2> SUFFICES ASSUME NEW r \in Req, Writes(r)'
               PROVE  /\ Whole(job[r].body)
                      /\ job[r].found =>
                            /\ job[r].user \in account /\ state[job[r].user] # None
                            /\ Opens(ring[job[r].at], state[job[r].user])
                            /\ \A s \in Req : ( Writes(s)' /\ job'[s].found
                                               /\ job'[s].user = job[r].user ) => s = r
    BY DEF LocksHold, Opens, Keys, Whole
  <2>1. Writes(r)
    OBVIOUS
  <2> QED  BY <2>1 DEF LocksHold
<1> QED  BY <1>1, <1>2

\* A step of one request that does not go on to a push begins none.
LEMMA NoPush ==
    ASSUME TypeOK, NEW r \in Req, NEW j, NEW f,
           phase' = [phase EXCEPT ![r] = f], job' = [job EXCEPT ![r] = j],
           f = "write" => j.kind # "push",
           UNCHANGED deployVars
    PROVE  \A q \in Req : Writes(q)' => /\ Writes(q) /\ job'[q] = job[q]
                                        /\ ring'[job[q].at] = ring[job[q].at]
<1> SUFFICES ASSUME NEW q \in Req, Writes(q)'
             PROVE  Writes(q) /\ job'[q] = job[q]
  BY DEF deployVars
<1>1. CASE q = r
  <2>1. phase'[q] = f /\ job'[q] = j
    BY <1>1 DEF TypeOK
  <2> QED  BY <2>1 DEF Writes
<1>2. CASE q # r
  <2>1. phase'[q] = phase[q] /\ job'[q] = job[q]
    BY <1>2 DEF TypeOK
  <2> QED  BY <2>1 DEF Writes
<1> QED  BY <1>1, <1>2

\* A rotation, a start and a stop keep the locks: a start changes the keys of no
\* process that has a push, a stop ends its pushes.
LEMMA DeployLocks ==
    ASSUME TypeOK, LocksHold, StoredIsWhole,
           \/ \E keys \in KeyLists : Rotate(keys)
           \/ \E p \in Process : Start(p) \/ Stop(p)
    PROVE  LocksHold' /\ StoredIsWhole'
<1>1. account' = account /\ state' = state
  BY DEF Rotate, Start, Stop, dbVars
<1>2. \A r \in Req : Writes(r) => job[r].at \in Running
  BY AtWork DEF Writes
<1>3. ASSUME NEW keys \in KeyLists, Rotate(keys) PROVE LocksHold' /\ StoredIsWhole'
  <2>1. phase' = phase /\ job' = job /\ ring' = ring
    BY <1>3 DEF Rotate, reqVars
  <2>2. \A r \in Req : Writes(r)' => /\ Writes(r) /\ job'[r] = job[r]
                                     /\ ring'[job[r].at] = ring[job[r].at]
    BY <2>1 DEF Writes
  <2> QED  BY <1>1, <2>2, SameLocks
<1>4. ASSUME NEW p \in Process, Start(p) PROVE LocksHold' /\ StoredIsWhole'
  <2>1. phase' = phase /\ job' = job /\ \A q \in Running : ring'[q] = ring[q]
    BY <1>4 DEF Start, reqVars, Running, TypeOK
  <2>2. \A r \in Req : Writes(r)' => /\ Writes(r) /\ job'[r] = job[r]
                                     /\ ring'[job[r].at] = ring[job[r].at]
    BY <1>2, <2>1 DEF Writes
  <2> QED  BY <1>1, <2>2, SameLocks
<1>5. ASSUME NEW p \in Process, Stop(p) PROVE LocksHold' /\ StoredIsWhole'
  <2> DEFINE gone == {r \in Req : phase[r] \in {"write", "refresh"} /\ job[r].at = p}
  <2>1. /\ phase' = [r \in Req |-> IF r \in gone THEN "idle" ELSE phase[r]]
        /\ job' = [r \in Req |-> IF r \in gone THEN None ELSE job[r]]
        /\ \A q \in Running : q # p => ring'[q] = ring[q]
    BY <1>5 DEF Stop, Running, TypeOK
  <2>2. \A r \in Req : Writes(r)' => /\ r \notin gone /\ Writes(r) /\ job'[r] = job[r]
    <3> HIDE DEF gone
    <3> QED  BY <2>1 DEF Writes
  <2>3. \A r \in Req : Writes(r) /\ r \notin gone => job[r].at # p
    BY DEF Writes
  <2>4. \A r \in Req : Writes(r)' => /\ Writes(r) /\ job'[r] = job[r]
                                     /\ ring'[job[r].at] = ring[job[r].at]
    BY <1>2, <2>1, <2>2, <2>3
  <2> QED  BY <1>1, <2>4, SameLocks
<1> QED  BY <1>3, <1>4, <1>5

\* The select keeps the locks: it waits for the one on its row.
LEMMA SelectLocks ==
    ASSUME TypeOK, LocksHold, StoredIsWhole,
           NEW r \in Req, NEW p \in Process, NEW u \in User, NEW b \in Body,
           Select(r, p, u, b)
    PROVE  LocksHold' /\ StoredIsWhole'
<1> DEFINE j == [kind |-> "push", at |-> p, user |-> u, body |-> b,
                 found |-> state[u] # None]
<1>1. /\ ~Locked(u) /\ Accepted(b) /\ u \in account
      /\ account' = account /\ state' = state /\ UNCHANGED deployVars
      /\ \/ Answer(r, None, "DecryptionError")
         \/ ~Unreadable(p, u) /\ Go(r, "write", j)
  BY DEF Select, SelectUnlocked, dbVars
<1>2. CASE Answer(r, None, "DecryptionError")
  BY <1>1, <1>2, NoPush, SameLocks DEF Answer
<1>3. CASE ~Unreadable(p, u) /\ Go(r, "write", j)
  <2>1. phase'[r] = "write" /\ job'[r] = j /\ ring' = ring
        /\ \A q \in Req : q # r => phase'[q] = phase[q] /\ job'[q] = job[q]
    BY <1>1, <1>3 DEF Go, TypeOK, deployVars
  <2>2. \A q \in Req : q # r => Writes(q)' = Writes(q)
    BY <2>1 DEF Writes
  <2>3. \A q \in Req : Writes(q) /\ job[q].found => job[q].user # u
    BY <1>1 DEF Locked
  <2>4. Whole(b)
    BY <1>1, AcceptedIsWhole
  <2>5. j.found => state[u] # None /\ Opens(ring[p], state[u])
    BY <1>3 DEF Unreadable
  <2>6. j.body = b /\ j.at = p /\ j.user = u
    OBVIOUS
  <2> HIDE DEF j
  <2>7. ASSUME NEW q \in Req, Writes(q)'
        PROVE  /\ Whole(job'[q].body)
               /\ job'[q].found =>
                     /\ job'[q].user \in account /\ state[job'[q].user] # None
                     /\ Opens(ring[job'[q].at], state[job'[q].user])
                     /\ \A s \in Req : ( Writes(s)' /\ job'[s].found
                                        /\ job'[s].user = job'[q].user ) => s = q
    <3>1. CASE q = r
      BY <1>1, <2>1, <2>2, <2>3, <2>4, <2>5, <2>6, <3>1
    <3>2. CASE q # r
      <4>1. Writes(q) /\ job'[q] = job[q]
        BY <2>1, <2>2, <2>7, <3>2
      <4>2. \A s \in Req : ( Writes(s)' /\ job'[s].found
                            /\ job'[s].user = job'[q].user /\ job[q].found ) => s = q
        BY <2>1, <2>2, <2>3, <2>6, <4>1 DEF LocksHold
      <4> QED  BY <4>1, <4>2 DEF LocksHold
    <3> QED  BY <3>1, <3>2
  <2>8. LocksHold'
    BY <1>1, <2>1, <2>7 DEF LocksHold, Opens, Keys, Whole
  <2> QED  BY <1>1, <2>8 DEF StoredIsWhole
<1> QED  BY <1>1, <1>2, <1>3

\* The store keeps the locks: what it writes is whole, and no other request has
\* found the row it changes.
LEMMA StoreLocks ==
    ASSUME TypeOK, LocksHold, StoredIsWhole, NEW r \in Req, Store(r)
    PROVE  LocksHold' /\ StoredIsWhole'
<1> DEFINE u == job[r].user
           e == Encrypt(ring[job[r].at], job[r].body)
<1>1. /\ Writes(r) /\ UNCHANGED deployVars /\ account' = account
      /\ \/ Answer(r, None, "error") /\ state' = state
         \/ Go(r, "refresh", Reloads(r)) /\ state' = state
         \/ /\ Go(r, "refresh", Reloads(r)) /\ state' = [state EXCEPT ![u] = e]
            /\ job[r].found \/ state[u] = None
  BY DEF Store
<1>2. \A q \in Req : Writes(q)' => /\ Writes(q) /\ q # r /\ job'[q] = job[q]
                                   /\ ring'[job[q].at] = ring[job[q].at]
  <2>1. \E f \in {"refresh", "answered"} : \E j : /\ phase' = [phase EXCEPT ![r] = f]
                                                 /\ job' = [job EXCEPT ![r] = j]
    BY <1>1 DEF Answer, Go
  <2>2. phase'[r] # "write"
    BY <2>1 DEF TypeOK
  <2>3. \A q \in Req : Writes(q)' => q # r
    BY <2>2 DEF Writes
  <2> QED  BY <1>1, <2>1, <2>3, NoPush
<1>3. CASE state' = state
  BY <1>1, <1>2, <1>3, SameLocks
<1>4. CASE state' = [state EXCEPT ![u] = e] /\ ( job[r].found \/ state[u] = None )
  <2>1. \A q \in Req : Writes(q) /\ q # r /\ job[q].found => job[q].user # u
    BY <1>1, <1>4 DEF LocksHold
  <2>2. \A q \in Req : Writes(q)' /\ job'[q].found
                       => state'[job'[q].user] = state[job[q].user]
    <3> SUFFICES ASSUME NEW q \in Req, Writes(q)', job'[q].found
                 PROVE  state'[job'[q].user] = state[job[q].user]
      OBVIOUS
    <3>1. Writes(q) /\ job'[q] = job[q] /\ job[q].user # u
      BY <1>2, <2>1
    <3>2. job[q].user \in User
      BY <3>1, AtWork DEF Writes
    <3> HIDE DEF u, e
    <3> QED  BY <1>4, <3>1, <3>2 DEF TypeOK
  <2>3. ring' = ring
    BY <1>1 DEF deployVars
  <2>4. LocksHold'
    <3>1. ASSUME NEW q \in Req, Writes(q)'
          PROVE  /\ Whole(job'[q].body)
                 /\ job'[q].found =>
                       /\ job'[q].user \in account
                       /\ state'[job'[q].user] # None
                       /\ Opens(ring[job'[q].at], state'[job'[q].user])
                       /\ \A s \in Req : ( Writes(s)' /\ job'[s].found
                                          /\ job'[s].user = job'[q].user ) => s = q
      <4>1. Writes(q) /\ job'[q] = job[q]
        BY <1>2, <3>1
      <4>2. job[q].found => state'[job[q].user] = state[job[q].user]
        BY <2>2, <3>1, <4>1
      <4> QED  BY <1>2, <4>1, <4>2 DEF LocksHold
    <3> QED  BY <1>1, <2>3, <3>1 DEF LocksHold, Opens, Keys, Whole
  <2>5. Whole(e.value)
    BY <1>1 DEF LocksHold, Encrypt
  <2>6. \A v \in User : state'[v] = state[v] \/ state'[v] = e
    <3> HIDE DEF e
    <3> QED  BY <1>4 DEF TypeOK
  <2>7. StoredIsWhole'
    <3> HIDE DEF e
    <3> QED  BY <2>5, <2>6 DEF StoredIsWhole, Whole
  <2> QED  BY <2>4, <2>7
<1> QED  BY <1>1, <1>3, <1>4

\* The deletion of an account keeps the locks: it waits for them.
LEMMA DeleteLocks ==
    ASSUME TypeOK, LocksHold, StoredIsWhole, NEW u \in User, Delete(u)
    PROVE  LocksHold' /\ StoredIsWhole'
<1>1. /\ phase' = phase /\ job' = job /\ ring' = ring /\ account' = account \ {u}
      /\ state'[u] = None /\ \A v \in User : v # u => state'[v] = state[v]
      /\ ~Locked(u)
  BY DEF Delete, TypeOK, deployVars, reqVars
<1>2. StoredIsWhole'
  BY <1>1 DEF StoredIsWhole, Whole
<1>3. \A q \in Req : /\ Writes(q)' = Writes(q)
                     /\ Writes(q) => job[q].user \in User
                     /\ Writes(q) /\ job[q].found => job[q].user # u
  BY <1>1, AtWork DEF Writes, Locked
<1>4. ASSUME NEW q \in Req, Writes(q)'
      PROVE  /\ Whole(job'[q].body)
             /\ job'[q].found =>
                   /\ job'[q].user \in account'
                   /\ state'[job'[q].user] # None
                   /\ Opens(ring'[job'[q].at], state'[job'[q].user])
                   /\ \A s \in Req : ( Writes(s)' /\ job'[s].found
                                      /\ job'[s].user = job'[q].user ) => s = q
  <2>1. Writes(q) /\ job'[q] = job[q] /\ job[q].user \in User
    BY <1>1, <1>3, <1>4
  <2>2. job[q].found => job[q].user # u /\ state'[job[q].user] = state[job[q].user]
    BY <1>1, <1>3, <2>1
  <2> QED  BY <1>1, <1>3, <2>1, <2>2 DEF LocksHold
<1>5. LocksHold'
  BY <1>4 DEF LocksHold, Opens, Keys, Whole
<1> QED  BY <1>2, <1>5

\* Every step keeps the locks and what is stored.
LEMMA NextLocks ==
    TypeOK /\ LocksHold /\ StoredIsWhole /\ [Next]_vars => LocksHold' /\ StoredIsWhole'
<1> SUFFICES ASSUME TypeOK, LocksHold, StoredIsWhole, [Next]_vars
             PROVE  LocksHold' /\ StoredIsWhole'
  OBVIOUS
<1> DEFINE Kept == LocksHold' /\ StoredIsWhole'
<1>1. ASSUME UNCHANGED deployVars, account' = account, state' = state,
             NEW r \in Req, NEW j, NEW f,
             phase' = [phase EXCEPT ![r] = f], job' = [job EXCEPT ![r] = j],
             f = "write" => j.kind # "push"
      PROVE  Kept
  <2>1. \A q \in Req : Writes(q)' => /\ Writes(q) /\ job'[q] = job[q]
                                     /\ ring'[job[q].at] = ring[job[q].at]
    BY <1>1, NoPush
  <2> QED  BY <1>1, <2>1, SameLocks
<1>2. ASSUME UNCHANGED vars PROVE Kept
  <2>1. \A q \in Req : Writes(q)' => /\ Writes(q) /\ job'[q] = job[q]
                                     /\ ring'[job[q].at] = ring[job[q].at]
    BY <1>2 DEF Writes, vars, deployVars, reqVars
  <2> QED  BY <1>2, <2>1, SameLocks DEF vars, dbVars
<1>3. ASSUME NEW r \in Req, NEW j, NEW a, Answer(r, j, a),
             UNCHANGED <<deployVars, account, state>>
      PROVE  Kept
  BY <1>1, <1>3 DEF Answer
<1>4. ASSUME NEW r \in Req, NEW p \in Process, NEW u \in User,
             \/ Pull(r, p, u)
             \/ \E b \in Body : Refused(r, p, u, b) \/ PushRecord(r, p, u, b)
      PROVE  Kept
  BY <1>3, <1>4 DEF Refused, PushRecord, Pull, dbVars
<1>5. ASSUME NEW r \in Req,
             \/ Conflict(r) \/ RefreshState(r) \/ InsertFails(r) \/ RefreshConnection(r)
             \/ Fail(r)
      PROVE  Kept
  BY <1>3, <1>5 DEF Conflict, RefreshState, InsertFails, RefreshConnection, Fail, dbVars
<1>6. ASSUME NEW r \in Req, Deliver(r) \/ Lose(r) PROVE Kept
  BY <1>1, <1>6 DEF Deliver, Lose, Done, dbVars
<1>7. ASSUME NEW r \in Req, NEW b \in WebhookBody,
             NEW plaid \in Header, NEW gocardless \in Header,
             Receive(r, b, plaid, gocardless)
      PROVE  Kept
  BY <1>3, <1>7 DEF Receive, dbVars
<1>8. ASSUME NEW r \in Req, NEW p \in Process, NEW u \in User, NEW v \in Provider,
             AskExchange(r, p, u, v)
      PROVE  Kept
  <2> DEFINE j == [kind |-> "exchange", at |-> p, user |-> u, provider |-> v,
                   n |-> exchanges + 1, id |-> None]
  <2>1. Go(r, "write", j) /\ UNCHANGED <<deployVars, account, state>>
    BY <1>8 DEF AskExchange, dbVars
  <2>2. j.kind # "push"
    OBVIOUS
  <2> HIDE DEF j
  <2> QED  BY <1>1, <2>1, <2>2 DEF Go
<1>9. ASSUME NEW r \in Req, Insert(r) PROVE Kept
  <2>1. PICK j : Go(r, "refresh", j)
    BY <1>9 DEF Insert
  <2> QED  BY <1>1, <1>9, <2>1 DEF Insert, Go
<1> HIDE DEF Kept
<1>10. Kept
  <2>1. CASE \/ \E keys \in KeyLists : Rotate(keys)
             \/ \E p \in Process : Start(p) \/ Stop(p)
    BY <2>1, DeployLocks DEF Kept
  <2>2. ASSUME NEW r \in Req, NEW p \in Process, NEW u \in User, NEW b \in Body,
               Select(r, p, u, b)
        PROVE  Kept
    BY <2>2, SelectLocks DEF Kept
  <2>3. ASSUME NEW r \in Req, Store(r) PROVE Kept
    BY <2>3, StoreLocks DEF Kept
  <2>4. ASSUME NEW u \in User, Delete(u) PROVE Kept
    BY <2>4, DeleteLocks DEF Kept
  <2>5. CASE \E r \in Req : \/ Conflict(r) \/ Store(r) \/ RefreshState(r) \/ Insert(r)
                           \/ InsertFails(r) \/ RefreshConnection(r)
                           \/ Fail(r) \/ Deliver(r) \/ Lose(r)
    BY <1>5, <1>6, <1>9, <2>3, <2>5
  <2>6. CASE \E r \in Req, p \in Process, u \in User :
                \/ Pull(r, p, u) \/ \E v \in Provider : AskExchange(r, p, u, v)
                \/ \E b \in Body : \/ Refused(r, p, u, b) \/ Select(r, p, u, b)
                                  \/ PushRecord(r, p, u, b)
    BY <1>4, <1>8, <2>2, <2>6
  <2>7. CASE \E r \in Req, b \in WebhookBody, plaid, gocardless \in Header :
                Receive(r, b, plaid, gocardless)
    BY <1>7, <2>7
  <2> QED  BY <1>2, <2>1, <2>4, <2>5, <2>6, <2>7 DEF Next
<1> QED  BY <1>10 DEF Kept

-----------------------------------------------------------------------------
(* Answers *)

\* What an answer says of its request.
AnswerOK(r) ==
    /\ ordered => reply[r] # "DecryptionError"
    /\ reply[r] = "DataError" => job[r].provider.chars > PROVIDER_WIDTH

AnswersOK == \A r \in Req : AnswerOK(r)

LEMMA AnswersAre == AnswersOK <=> RotationUnnoticed /\ TokenFits
BY DEF AnswersOK, AnswerOK, RotationUnnoticed, TokenFits

\* A step of one request keeps what the answers of the others say.
LEMMA SameAnswers ==
    ASSUME TypeOK, AnswersOK, NEW r \in Req, ordered' => ordered,
           \A q \in Req \ {r} : job'[q] = job[q] /\ reply'[q] = reply[q],
           AnswerOK(r)'
    PROVE  AnswersOK'
<1> SUFFICES ASSUME NEW q \in Req, q # r PROVE AnswerOK(q)'
  BY DEF AnswersOK
<1> QED  BY DEF AnswersOK, AnswerOK

\* An answer says what it should if it names an error only where there is one.
LEMMA AnswerSays ==
    ASSUME TypeOK, AnswersOK, NEW r \in Req, NEW j, NEW a, Answer(r, j, a),
           UNCHANGED deployVars,
           ordered => a # "DecryptionError",
           a = "DataError" => j.provider.chars > PROVIDER_WIDTH
    PROVE  AnswersOK'
<1>1. /\ job'[r] = j /\ reply'[r] = a /\ ordered' = ordered
      /\ \A q \in Req \ {r} : job'[q] = job[q] /\ reply'[q] = reply[q]
  BY DEF Answer, TypeOK, deployVars
<1>2. AnswerOK(r)'
  BY <1>1 DEF AnswerOK
<1> QED  BY <1>1, <1>2, SameAnswers

\* A request that goes on has no answer yet.
LEMMA GoSays ==
    ASSUME TypeOK, AnswersOK, NEW r \in Req, NEW f, NEW j, Go(r, f, j),
           phase[r] # "answered", UNCHANGED deployVars
    PROVE  AnswersOK'
<1>1. /\ job'[r] = j /\ reply'[r] = None /\ ordered' = ordered
      /\ \A q \in Req \ {r} : job'[q] = job[q] /\ reply'[q] = reply[q]
  BY DEF Go, TypeOK, deployVars
<1>2. None # "DecryptionError" /\ None # "DataError"
  BY NoneAssumption DEF Status
<1>3. AnswerOK(r)'
  BY <1>1, <1>2 DEF AnswerOK
<1> QED  BY <1>1, <1>3, SameAnswers

\* The token of a provider whose name fits its column fits, too.
LEMMA StoresShortNames ==
    ASSUME NEW v \in Provider, v.chars <= PROVIDER_WIDTH
    PROVE  Stores(v)
<1>1. v.chars \in Nat /\ v.bytes \in Nat /\ v.bytes <= 4 * v.chars
  BY ConstantsAssumption
<1>2. v.chars <= 100 /\ v.bytes <= 400
  BY <1>1 DEF PROVIDER_WIDTH
<1>3. TokenLength(v.bytes) \in Nat /\ TokenLength(v.bytes) <= 446
  BY <1>1, <1>2 DEF TokenLength
<1>4. FernetLength(TokenLength(v.bytes)) <= 1024
  BY <1>3, ShortTextFits
<1> QED  BY <1>1, <1>2, <1>4 DEF Stores, TokenLength, TOKEN_CHARS, TOKEN_WIDTH,
                                 PROVIDER_WIDTH

\* While rotations keep to the order, every process can read all that is stored.
LEMMA AllReadable ==
    ASSUME TypeOK, RingsAgree, ordered, NEW p \in Running
    PROVE  /\ \A u \in User : ~Unreadable(p, u)
           /\ \A c \in connection : Opens(ring[p], c)
BY StoredAreStored DEF RingsAgree, Unreadable, Opens

\* What the steps of sync answer.
LEMMA SyncAnswers ==
    ASSUME TypeOK, RingsAgree, AnswersOK, NEW r \in Req,
           \/ Conflict(r) \/ Store(r) \/ RefreshState(r)
           \/ \E p \in Process, u \in User : Pull(r, p, u)
           \/ \E p \in Process, u \in User, b \in Body :
                 Refused(r, p, u, b) \/ Select(r, p, u, b) \/ PushRecord(r, p, u, b)
    PROVE  AnswersOK'
<1>1. ASSUME NEW a \in {"ok", "error"}, Answer(r, None, a), UNCHANGED deployVars
      PROVE  AnswersOK'
  BY <1>1, AnswerSays
<1>2. ASSUME Answer(r, None, "DecryptionError"), UNCHANGED deployVars, ~ordered
      PROVE  AnswersOK'
  BY <1>2, AnswerSays
<1>3. CASE Conflict(r)
  BY <1>1, <1>3 DEF Conflict
<1>4. CASE Store(r)
  <2>1. phase[r] = "write" /\ UNCHANGED deployVars
        /\ \/ Answer(r, None, "error")
           \/ Go(r, "refresh", Reloads(r))
    BY <1>4 DEF Store, Writes
  <2> QED  BY <1>1, <2>1, GoSays
<1>5. CASE RefreshState(r)
  <2>1. /\ job[r].at \in Running /\ job[r].user \in User
        /\ phase[r] = "refresh" /\ UNCHANGED deployVars
    BY <1>5, AtWork DEF RefreshState
  <2>2. \/ Unreadable(job[r].at, job[r].user) /\ Answer(r, None, "DecryptionError")
        \/ Answer(r, None, "ok") \/ Answer(r, None, "error")
    BY <1>5 DEF RefreshState
  <2> QED  BY <1>1, <1>2, <2>1, <2>2, AllReadable
<1>6. ASSUME NEW p \in Process, NEW u \in User, Pull(r, p, u) PROVE AnswersOK'
  <2>1. p \in Running /\ UNCHANGED deployVars
    BY <1>6 DEF Pull, Starts
  <2>2. \/ Unreadable(p, u) /\ Answer(r, None, "DecryptionError")
        \/ Answer(r, None, "ok")
    BY <1>6 DEF Pull
  <2> QED  BY <1>1, <1>2, <2>1, <2>2, AllReadable
<1>7. ASSUME NEW p \in Process, NEW u \in User, NEW b \in Body, Refused(r, p, u, b)
      PROVE  AnswersOK'
  BY <1>1, <1>7 DEF Refused
<1>8. ASSUME NEW p \in Process, NEW u \in User, NEW b \in Body, PushRecord(r, p, u, b)
      PROVE  AnswersOK'
  <2> DEFINE j == [kind |-> "record", key |-> None]
  <2>1. Answer(r, j, "ok") /\ UNCHANGED deployVars
    BY <1>8 DEF PushRecord
  <2> HIDE DEF j
  <2> QED  BY <2>1, AnswerSays
<1>9. ASSUME NEW p \in Process, NEW u \in User, NEW b \in Body, Select(r, p, u, b)
      PROVE  AnswersOK'
  <2> DEFINE j == [kind |-> "push", at |-> p, user |-> u, body |-> b,
                   found |-> state[u] # None]
  <2>1. phase[r] = "idle" /\ p \in Running /\ UNCHANGED deployVars
        /\ \/ Unreadable(p, u) /\ Answer(r, None, "DecryptionError")
           \/ Go(r, "write", j)
    BY <1>9 DEF Select, SelectUnlocked, Starts
  <2> HIDE DEF j
  <2> QED  BY <1>2, <2>1, GoSays, AllReadable
<1> QED  BY <1>3, <1>4, <1>5, <1>6, <1>7, <1>8, <1>9

\* What exchange and webhook requests answer.
LEMMA BankAnswers ==
    ASSUME TypeOK, RingsAgree, AnswersOK, NEW r \in Req,
           \/ Insert(r) \/ InsertFails(r) \/ RefreshConnection(r) \/ Fail(r)
           \/ \E p \in Process, u \in User, v \in Provider : AskExchange(r, p, u, v)
           \/ \E b \in WebhookBody, plaid, gocardless \in Header :
                 Receive(r, b, plaid, gocardless)
    PROVE  AnswersOK'
<1>1. ASSUME NEW a \in {"ok", "error"}, NEW j, Answer(r, j, a), UNCHANGED deployVars
      PROVE  AnswersOK'
  BY <1>1, AnswerSays
<1>2. CASE Insert(r)
  <2>1. PICK id \in Id : Go(r, "refresh", [job[r] EXCEPT !.id = id])
    BY <1>2 DEF Insert
  <2>2. phase[r] = "write" /\ UNCHANGED deployVars
    BY <1>2 DEF Insert, StoresToken
  <2> QED  BY <2>1, <2>2, GoSays
<1>3. CASE InsertFails(r)
  <2>1. IsExchange(r) /\ job[r] \in Exchange /\ UNCHANGED deployVars
    BY <1>3, JobKinds DEF InsertFails, StoresToken, IsExchange
  <2>2. \/ Answer(r, Ended(r), "error")
        \/ ~Stores(job[r].provider) /\ Answer(r, Ended(r), "DataError")
    BY <1>3 DEF InsertFails
  <2>3. ~Stores(job[r].provider) => Ended(r).provider.chars > PROVIDER_WIDTH
    <3>1. job[r].provider \in Provider /\ Ended(r).provider = job[r].provider
      BY <2>1, EndedType DEF Exchange
    <3>2. job[r].provider.chars \in Nat
      BY <3>1, ConstantsAssumption
    <3> QED  BY <3>1, <3>2, StoresShortNames DEF PROVIDER_WIDTH
  <2>4. CASE Answer(r, Ended(r), "error")
    BY <1>1, <2>1, <2>4
  <2>5. CASE ~Stores(job[r].provider) /\ Answer(r, Ended(r), "DataError")
    BY <2>1, <2>3, <2>5, AnswerSays
  <2> QED  BY <2>2, <2>4, <2>5
<1>4. CASE RefreshConnection(r)
  <2>1. IsExchange(r) /\ job[r].at \in Running /\ UNCHANGED deployVars
    BY <1>4, AtWork DEF RefreshConnection
  <2>2. \/ Answer(r, Ended(r), "error") \/ Answer(r, Ended(r), "ok")
        \/ /\ Answer(r, Ended(r), "DecryptionError")
           /\ \E c \in connection : ~Opens(ring[job[r].at], c)
    BY <1>4 DEF RefreshConnection
  <2>3. CASE Answer(r, Ended(r), "error") \/ Answer(r, Ended(r), "ok")
    BY <1>1, <2>1, <2>3
  <2>4. CASE /\ Answer(r, Ended(r), "DecryptionError")
             /\ \E c \in connection : ~Opens(ring[job[r].at], c)
    <3>1. ~ordered
      BY <2>1, <2>4, AllReadable
    <3> QED  BY <2>1, <2>4, <3>1, AnswerSays
  <2> QED  BY <2>2, <2>3, <2>4
<1>5. CASE Fail(r)
  <2>1. UNCHANGED deployVars /\ \/ Answer(r, None, "error")
                                \/ IsExchange(r) /\ Answer(r, Ended(r), "error")
    BY <1>5 DEF Fail
  <2> QED  BY <1>1, <2>1
<1>6. ASSUME NEW p \in Process, NEW u \in User, NEW v \in Provider,
             AskExchange(r, p, u, v)
      PROVE  AnswersOK'
  <2> DEFINE j == [kind |-> "exchange", at |-> p, user |-> u, provider |-> v,
                   n |-> exchanges + 1, id |-> None]
  <2>1. phase[r] = "idle" /\ Go(r, "write", j) /\ UNCHANGED deployVars
    BY <1>6 DEF AskExchange, Starts
  <2> HIDE DEF j
  <2> QED  BY <2>1, GoSays
<1>7. ASSUME NEW b \in WebhookBody, NEW plaid \in Header, NEW gocardless \in Header,
             Receive(r, b, plaid, gocardless)
      PROVE  AnswersOK'
  BY <1>1, <1>7 DEF Receive
<1> QED  BY <1>2, <1>3, <1>4, <1>5, <1>6, <1>7

\* The answers say what they should after every step.
LEMMA NextAnswers == TypeOK /\ RingsAgree /\ AnswersOK /\ [Next]_vars => AnswersOK'
<1> SUFFICES ASSUME TypeOK, RingsAgree, AnswersOK, [Next]_vars PROVE AnswersOK'
  OBVIOUS
<1>1. ASSUME ordered' => ordered, reply' = reply,
             \A r \in Req : job'[r] = job[r] \/ ( job'[r] = None /\ reply[r] = None )
      PROVE  AnswersOK'
  <2>1. None # "DataError"
    BY NoneAssumption DEF Status
  <2> QED  BY <1>1, <2>1 DEF AnswersOK, AnswerOK
<1>2. CASE UNCHANGED vars
  BY <1>1, <1>2 DEF vars, deployVars, reqVars
<1>3. ASSUME \/ \E keys \in KeyLists : Rotate(keys)
             \/ \E p \in Process : Start(p)
             \/ \E u \in User : Delete(u)
      PROVE  AnswersOK'
  BY <1>1, <1>3 DEF Rotate, Start, Delete, reqVars, deployVars
<1>4. ASSUME NEW p \in Process, Stop(p) PROVE AnswersOK'
  <2>1. \A r \in Req : phase[r] # "answered" => reply[r] = None
    BY DEF TypeOK
  <2>2. /\ ordered' = ordered /\ reply' = reply
        /\ \A r \in Req : \/ job'[r] = job[r]
                          \/ job'[r] = None /\ phase[r] \in {"write", "refresh"}
    BY <1>4 DEF Stop
  <2> QED  BY <1>1, <2>1, <2>2
<1>5. ASSUME NEW r \in Req, Deliver(r) \/ Lose(r) PROVE AnswersOK'
  <2>1. /\ ordered' = ordered /\ job'[r] = None /\ reply'[r] = None
        /\ \A q \in Req \ {r} : job'[q] = job[q] /\ reply'[q] = reply[q]
    BY <1>5 DEF Deliver, Lose, Done, TypeOK, deployVars
  <2>2. None # "DecryptionError" /\ None # "DataError"
    BY NoneAssumption DEF Status
  <2>3. AnswerOK(r)'
    BY <2>1, <2>2 DEF AnswerOK
  <2> QED  BY <2>1, <2>3, SameAnswers
<1> QED  BY <1>2, <1>3, <1>4, <1>5, SyncAnswers, BankAnswers DEF Next

-----------------------------------------------------------------------------
(* Exchanges *)

Exchanges == ExchangesOK /\ SurplusIsUnanswered

\* A request's number is bounded and has its type.
LEMMA ExchangeTypes ==
    ASSUME TypeOK, NEW r \in Req, IsExchange(r)
    PROVE  job[r] \in Exchange /\ job[r].n \in 1..MaxExchanges /\ job[r].user \in User
BY JobKinds DEF IsExchange, Exchange

\* What request q takes along of its exchange in a step.
Follows(q) ==
    /\ IsExchange(q)' =>
          /\ IsExchange(q) /\ job'[q].n = job[q].n
          /\ job'[q].user = job[q].user /\ job'[q].id = job[q].id
          /\ phase'[q] = "write" => phase[q] = "write"
          /\ phase'[q] = "refresh" \/ reply'[q] = "ok"
             => phase[q] = "refresh" \/ reply[q] = "ok"
    /\ IsExchange(q) => IsExchange(q)' \/ job[q].n \in failed'

\* A step that leaves connections and clients alone, and ends an exchange only by
\* its failure, keeps what is known of exchanges.
LEMMA SameExchanges ==
    ASSUME TypeOK, Exchanges, account' = account, connection' = connection,
           exchanges' = exchanges, told' = told, failed \subseteq failed',
           \A q \in Req : Follows(q)
    PROVE  Exchanges'
<1>1. \A q \in Req : IsExchange(q)' =>
          /\ job'[q].n <= exchanges'
          /\ \A s \in Req : IsExchange(s)' /\ job'[s].n = job'[q].n => s = q
          /\ phase'[q] = "write" => \A c \in connection' : c.n # job'[q].n
          /\ phase'[q] = "refresh" \/ reply'[q] = "ok" =>
                /\ job'[q].user \in account' => Has(job'[q].user, job'[q].id)
                /\ \A c \in connection' : c.n = job'[q].n
                      => c.user = job'[q].user /\ c.id = job'[q].id
  <2> SUFFICES ASSUME NEW q \in Req, IsExchange(q)'
               PROVE  /\ job'[q].n <= exchanges'
                      /\ \A s \in Req :
                            IsExchange(s)' /\ job'[s].n = job'[q].n => s = q
                      /\ phase'[q] = "write" => \A c \in connection' : c.n # job'[q].n
                      /\ phase'[q] = "refresh" \/ reply'[q] = "ok" =>
                         /\ job'[q].user \in account' => Has(job'[q].user, job'[q].id)
                         /\ \A c \in connection' : c.n = job'[q].n
                               => c.user = job'[q].user /\ c.id = job'[q].id
    OBVIOUS
  <2>1. /\ IsExchange(q) /\ job'[q].n = job[q].n
        /\ job'[q].user = job[q].user /\ job'[q].id = job[q].id
        /\ phase'[q] = "write" => phase[q] = "write"
        /\ phase'[q] = "refresh" \/ reply'[q] = "ok"
           => phase[q] = "refresh" \/ reply[q] = "ok"
    BY DEF Follows
  <2>2. \A s \in Req : IsExchange(s)' => IsExchange(s) /\ job'[s].n = job[s].n
    BY DEF Follows
  <2> QED  BY <2>1, <2>2 DEF Exchanges, ExchangesOK
<1>2. ExchangesOK'
  BY <1>1 DEF Exchanges, ExchangesOK, Has
<1>3. SurplusIsUnanswered'
  BY DEF Follows, Exchanges, SurplusIsUnanswered
<1> QED  BY <1>2, <1>3 DEF Exchanges

\* All requests but r stay as they are.
OthersStay(r) ==
    \A q \in Req \ {r} :
        phase'[q] = phase[q] /\ job'[q] = job[q] /\ reply'[q] = reply[q]

\* A step of one request leaves the others as they are.
LEMMA StepsAlone ==
    ASSUME TypeOK, NEW r \in Req
    PROVE  /\ \A j, a : Answer(r, j, a) =>
                 /\ phase'[r] = "answered" /\ job'[r] = j /\ reply'[r] = a
                 /\ OthersStay(r)
           /\ \A j, f : Go(r, f, j) =>
                 /\ phase'[r] = f /\ job'[r] = j /\ reply'[r] = reply[r]
                 /\ OthersStay(r)
           /\ Done(r) => /\ phase'[r] = "idle" /\ job'[r] = None /\ reply'[r] = None
                         /\ OthersStay(r)
BY DEF TypeOK, Answer, Go, Done, OthersStay

\* A request that stays as it is takes its exchange along.
LEMMA OthersFollow ==
    ASSUME NEW r \in Req, OthersStay(r), NEW q \in Req, q # r
    PROVE  Follows(q)
BY DEF OthersStay, Follows, IsExchange

\* The steps of a request that is no exchange.
LEMMA NoExchange ==
    ASSUME TypeOK, Exchanges, NEW r \in Req, ~IsExchange(r), OthersStay(r),
           job'[r] = None \/ job'[r].kind # "exchange",
           account' = account, connection' = connection, UNCHANGED clientVars
    PROVE  Exchanges'
<1>1. Follows(r)
  BY DEF Follows, IsExchange
<1>2. \A q \in Req : Follows(q)
  BY <1>1, OthersFollow
<1> QED  BY <1>2, SameExchanges DEF clientVars

\* The end of an exchange's handler.
LEMMA HandlerEnds ==
    ASSUME TypeOK, Exchanges, NEW r \in Req, IsExchange(r),
           NEW a, Answer(r, Ended(r), a), a = "ok" => phase[r] = "refresh",
           UNCHANGED <<deployVars, dbVars, clientVars>>
    PROVE  Exchanges'
<1>1. /\ phase'[r] = "answered" /\ job'[r] = Ended(r) /\ reply'[r] = a /\ OthersStay(r)
  BY StepsAlone
<1>2. /\ Ended(r).kind = "exchange" /\ Ended(r).n = job[r].n
      /\ Ended(r).user = job[r].user /\ Ended(r).id = job[r].id
      /\ Ended(r) # None
  BY EndedType, NoneAssumption
<1>3. Follows(r)
  BY <1>1, <1>2 DEF Follows, IsExchange
<1>4. \A q \in Req : Follows(q)
  BY <1>1, <1>3, OthersFollow
<1> QED  BY <1>4, SameExchanges DEF dbVars, clientVars

\* Sync requests and webhooks are no exchanges.
LEMMA SyncExchanges ==
    ASSUME TypeOK, Exchanges, NEW r \in Req,
           \/ Conflict(r) \/ Store(r) \/ RefreshState(r)
           \/ \E p \in Process, u \in User : Pull(r, p, u)
           \/ \E p \in Process, u \in User, b \in Body :
                 Refused(r, p, u, b) \/ Select(r, p, u, b) \/ PushRecord(r, p, u, b)
           \/ \E b \in WebhookBody, plaid, gocardless \in Header :
                 Receive(r, b, plaid, gocardless)
    PROVE  Exchanges'
<1>1. phase[r] = "idle" => job[r] = None
  BY DEF TypeOK
<1>2. ASSUME ~IsExchange(r), NEW j, j = None \/ j.kind # "exchange",
             ( \E a : Answer(r, j, a) ) \/ \E f : Go(r, f, j),
             account' = account, connection' = connection, UNCHANGED clientVars
      PROVE  Exchanges'
  BY <1>2, StepsAlone, NoExchange
<1>3. CASE Conflict(r) \/ Store(r) \/ RefreshState(r)
  <2>1. ~IsExchange(r)
    BY <1>3 DEF Conflict, Store, RefreshState, Writes, IsExchange
  <2>2. Reloads(r).kind # "exchange"
    BY DEF Reloads
  <2>3. account' = account /\ connection' = connection /\ UNCHANGED clientVars
    BY <1>3 DEF Conflict, Store, RefreshState, dbVars
  <2>4. \/ \E a : Answer(r, None, a)
        \/ Go(r, "refresh", Reloads(r))
    BY <1>3 DEF Conflict, Store, RefreshState
  <2> QED  BY <1>2, <2>1, <2>2, <2>3, <2>4
<1>4. ASSUME NEW p \in Process, NEW u \in User, Pull(r, p, u) PROVE Exchanges'
  <2>1. /\ phase[r] = "idle" /\ \E a : Answer(r, None, a)
        /\ account' = account /\ connection' = connection /\ UNCHANGED clientVars
    BY <1>4 DEF Pull, Starts, dbVars
  <2> QED  BY <1>1, <1>2, <2>1 DEF IsExchange
<1>5. ASSUME NEW p \in Process, NEW u \in User, NEW b \in Body,
             Refused(r, p, u, b) \/ PushRecord(r, p, u, b)
      PROVE  Exchanges'
  <2> DEFINE j == [kind |-> "record", key |-> None]
  <2>1. /\ phase[r] = "idle"
        /\ ( \E a : Answer(r, None, a) ) \/ \E a : Answer(r, j, a)
        /\ account' = account /\ connection' = connection /\ UNCHANGED clientVars
    BY <1>5 DEF Refused, PushRecord, Starts, dbVars
  <2>2. j.kind # "exchange"
    OBVIOUS
  <2> HIDE DEF j
  <2> QED  BY <1>1, <1>2, <2>1, <2>2 DEF IsExchange
<1>6. ASSUME NEW p \in Process, NEW u \in User, NEW b \in Body, Select(r, p, u, b)
      PROVE  Exchanges'
  <2> DEFINE j == [kind |-> "push", at |-> p, user |-> u, body |-> b,
                   found |-> state[u] # None]
  <2>1. /\ phase[r] = "idle"
        /\ ( \E a : Answer(r, None, a) ) \/ \E f : Go(r, f, j)
        /\ account' = account /\ connection' = connection /\ UNCHANGED clientVars
    BY <1>6 DEF Select, SelectUnlocked, Starts, dbVars
  <2>2. j.kind # "exchange"
    OBVIOUS
  <2> HIDE DEF j
  <2> QED  BY <1>1, <1>2, <2>1, <2>2 DEF IsExchange
<1>7. ASSUME NEW b \in WebhookBody, NEW plaid \in Header, NEW gocardless \in Header,
             Receive(r, b, plaid, gocardless)
      PROVE  Exchanges'
  <2>1. /\ phase[r] = "idle"
        /\ \E a : Answer(r, None, a)
        /\ account' = account /\ connection' = connection /\ UNCHANGED clientVars
    BY <1>7 DEF Receive, Starts, dbVars
  <2> QED  BY <1>1, <1>2, <2>1 DEF IsExchange
<1> QED  BY <1>3, <1>4, <1>5, <1>6, <1>7

\* A new exchange gets a number of its own.
LEMMA AskExchanges ==
    ASSUME TypeOK, Exchanges, NEW r \in Req, NEW p \in Process, NEW u \in User,
           NEW v \in Provider, AskExchange(r, p, u, v)
    PROVE  Exchanges'
<1> DEFINE j == [kind |-> "exchange", at |-> p, user |-> u, provider |-> v,
                 n |-> exchanges + 1, id |-> None]
<1>1. /\ phase[r] = "idle" /\ job[r] = None /\ reply[r] = None
      /\ account' = account /\ connection' = connection /\ exchanges' = exchanges + 1
      /\ told' = told /\ failed' = failed /\ Go(r, "write", j)
  BY DEF AskExchange, Starts, TypeOK, dbVars
<1>2. j.kind = "exchange" /\ j.n = exchanges + 1
  OBVIOUS
<1> HIDE DEF j
<1>3. /\ phase'[r] = "write" /\ job'[r] = j /\ reply'[r] = None /\ OthersStay(r)
  BY <1>1, StepsAlone
<1>4. exchanges \in Nat /\ None # "ok"
  BY NoneAssumption, ConstantsAssumption DEF TypeOK, Status
<1>5. \A c \in connection : c.n \in Nat /\ c.n <= exchanges
  BY DEF TypeOK, Connection, Exchanges, ExchangesOK
<1>6. \A q \in Req : IsExchange(q) =>
          q # r /\ IsExchange(q)' /\ job[q].n \in Nat /\ job[q].n <= exchanges
  BY <1>1, <1>3, ExchangeTypes DEF OthersStay, IsExchange, Exchanges, ExchangesOK
<1>7. \A q \in Req : IsExchange(q)' /\ q # r => IsExchange(q) /\ job'[q] = job[q]
                     /\ phase'[q] = phase[q] /\ reply'[q] = reply[q]
  BY <1>3 DEF OthersStay, IsExchange
<1>8. \A q \in Req : IsExchange(q)' =>
          /\ job'[q].n <= exchanges'
          /\ \A s \in Req : IsExchange(s)' /\ job'[s].n = job'[q].n => s = q
          /\ phase'[q] = "write" => \A c \in connection' : c.n # job'[q].n
          /\ phase'[q] = "refresh" \/ reply'[q] = "ok" =>
                /\ job'[q].user \in account' => Has(job'[q].user, job'[q].id)
                /\ \A c \in connection' : c.n = job'[q].n
                      => c.user = job'[q].user /\ c.id = job'[q].id
  <2> TAKE q \in Req
  <2> HAVE IsExchange(q)'
  <2>1. CASE q = r
    <3>1. \A s \in Req : IsExchange(s)' /\ s # r => job'[s].n # exchanges + 1
      BY <1>4, <1>6, <1>7
    <3>2. \A c \in connection : c.n # exchanges + 1
      BY <1>4, <1>5
    <3> QED  BY <1>1, <1>2, <1>3, <1>4, <2>1, <3>1, <3>2
  <2>2. CASE q # r
    <3>1. /\ IsExchange(q) /\ job'[q] = job[q] /\ job[q].n \in Nat
          /\ phase'[q] = phase[q] /\ reply'[q] = reply[q] /\ job[q].n <= exchanges
      BY <1>6, <1>7, <2>2
    <3>2. job[q].n # exchanges + 1 /\ job[q].n <= exchanges + 1
      BY <1>4, <3>1
    <3>3. \A s \in Req : IsExchange(s)' /\ job'[s].n = job[q].n => s = q
      BY <1>2, <1>3, <1>7, <3>1, <3>2 DEF Exchanges, ExchangesOK
    <3> QED  BY <1>1, <3>1, <3>2, <3>3 DEF Exchanges, ExchangesOK
  <2> QED  BY <2>1, <2>2
<1>9. \A c \in connection' : c.n <= exchanges'
  BY <1>1, <1>4, <1>5
<1>10. ExchangesOK'
  BY <1>1, <1>8, <1>9 DEF Exchanges, ExchangesOK, Has
<1>11. SurplusIsUnanswered'
  <2>1. \A q \in Req : IsExchange(q) => IsExchange(q)' /\ job'[q].n = job[q].n
    BY <1>3, <1>6 DEF OthersStay
  <2> QED  BY <1>1, <2>1 DEF Exchanges, SurplusIsUnanswered
<1> QED  BY <1>10, <1>11 DEF Exchanges

\* An insert makes the one connection of its exchange.
LEMMA InsertExchanges ==
    ASSUME TypeOK, Exchanges, NEW r \in Req, Insert(r)
    PROVE  Exchanges'
<1>1. PICK id \in Id :
        /\ connection' = connection \cup {NewConnection(r, id)}
        /\ Go(r, "refresh", [job[r] EXCEPT !.id = id])
  BY DEF Insert
<1> DEFINE new == NewConnection(r, id)
           j == [job[r] EXCEPT !.id = id]
<1>2. /\ phase[r] = "write" /\ IsExchange(r) /\ job[r] \in Exchange
      /\ reply[r] = None /\ None # "ok"
      /\ account' = account /\ exchanges' = exchanges /\ told' = told
      /\ failed' = failed
  BY AtWork, ExchangeTypes, NoneAssumption
     DEF Insert, StoresToken, clientVars, Status
<1>3. /\ j.kind = "exchange" /\ j.n = job[r].n /\ j.user = job[r].user /\ j.id = id
      /\ j # None
  BY <1>2, NoneAssumption DEF Exchange, Job
<1>4. new.n = job[r].n /\ new.user = job[r].user /\ new.id = id
  BY DEF NewConnection
<1>5. connection' = connection \cup {new} /\ Go(r, "refresh", j)
  BY <1>1
<1> HIDE DEF j, new
<1>6. /\ phase'[r] = "refresh" /\ job'[r] = j /\ reply'[r] = None /\ OthersStay(r)
  BY <1>2, <1>5, StepsAlone
<1>7. \A q \in Req : /\ IsExchange(q)' = IsExchange(q)
                     /\ job'[q].n = job[q].n /\ job'[q].user = job[q].user
                     /\ q # r => /\ phase'[q] = phase[q] /\ reply'[q] = reply[q]
                                 /\ job'[q] = job[q]
  BY <1>2, <1>3, <1>6 DEF OthersStay, IsExchange
<1>8. \A c \in connection : c.n # job[r].n
  BY <1>2 DEF Exchanges, ExchangesOK
<1>9. \A q \in Req : IsExchange(q)' =>
          /\ job'[q].n <= exchanges'
          /\ \A s \in Req : IsExchange(s)' /\ job'[s].n = job'[q].n => s = q
          /\ phase'[q] = "write" => \A c \in connection' : c.n # job'[q].n
          /\ phase'[q] = "refresh" \/ reply'[q] = "ok" =>
                /\ job'[q].user \in account'
                   => \E c \in connection' : c.user = job'[q].user /\ c.id = job'[q].id
                /\ \A c \in connection' : c.n = job'[q].n
                      => c.user = job'[q].user /\ c.id = job'[q].id
  <2> TAKE q \in Req
  <2> HAVE IsExchange(q)'
  <2>1. /\ job'[q].n <= exchanges'
        /\ \A s \in Req : IsExchange(s)' /\ job'[s].n = job'[q].n => s = q
    BY <1>2, <1>7 DEF Exchanges, ExchangesOK
  <2>2. CASE q = r
    BY <1>2, <1>3, <1>4, <1>5, <1>6, <1>8, <2>1, <2>2
  <2>3. CASE q # r
    <3>1. job[q].n # job[r].n
      BY <1>2, <1>7, <2>3 DEF Exchanges, ExchangesOK
    <3>2. IsExchange(q) /\ job'[q] = job[q]
          /\ phase'[q] = phase[q] /\ reply'[q] = reply[q]
      BY <1>7, <2>3
    <3> QED  BY <1>2, <1>4, <1>5, <2>1, <3>1, <3>2 DEF Exchanges, ExchangesOK, Has
  <2> QED  BY <2>2, <2>3
<1>10. \A c \in connection' : c.n <= exchanges'
  BY <1>2, <1>4, <1>5 DEF Exchanges, ExchangesOK
<1>11. \A t \in told' : t[1] \in account'
          => \E c \in connection' : c.user = t[1] /\ c.id = t[2]
  BY <1>2, <1>5 DEF Exchanges, ExchangesOK, Has
<1>12. ExchangesOK'
  BY <1>9, <1>10, <1>11 DEF ExchangesOK, Has
<1>13. \A c, d \in connection' : c.n = d.n => c = d
  BY <1>4, <1>5, <1>8 DEF Exchanges, SurplusIsUnanswered
<1>14. \A c \in connection' : \/ <<c.user, c.id>> \in told' \/ c.n \in failed'
                              \/ \E q \in Req : IsExchange(q)' /\ job'[q].n = c.n
  <2> TAKE c \in connection'
  <2>1. CASE c = new
    BY <1>2, <1>4, <1>7, <2>1
  <2>2. CASE c \in connection
    <3>1. \A q \in Req : IsExchange(q) => IsExchange(q)' /\ job'[q].n = job[q].n
      BY <1>7
    <3> QED  BY <1>2, <2>2, <3>1 DEF Exchanges, SurplusIsUnanswered
  <2> QED  BY <1>5, <2>1, <2>2
<1> QED  BY <1>12, <1>13, <1>14 DEF Exchanges, SurplusIsUnanswered

\* A 201 that arrives makes known the connection of its exchange.
LEMMA DeliverExchanges ==
    ASSUME TypeOK, Exchanges, NEW r \in Req, Deliver(r) \/ Lose(r)
    PROVE  Exchanges'
<1>1. /\ Done(r) /\ account' = account /\ connection' = connection
      /\ exchanges' = exchanges
  BY DEF Deliver, Lose, Done, dbVars
<1>2. phase'[r] = "idle" /\ job'[r] = None /\ reply'[r] = None /\ OthersStay(r)
  BY <1>1, StepsAlone
<1>3. IsExchange(r) => job[r].n \in Attempts({r})
  BY DEF Attempts
<1>4. CASE told' = told /\ failed' = failed \cup Attempts({r})
  <2>1. Follows(r)
    BY <1>2, <1>3, <1>4 DEF Follows, IsExchange
  <2>2. \A q \in Req : Follows(q)
    BY <1>2, <2>1, OthersFollow
  <2> QED  BY <1>1, <1>4, <2>2, SameExchanges
<1>5. CASE /\ IsExchange(r) /\ reply[r] = "ok" /\ failed' = failed
           /\ told' = told \cup {<<job[r].user, job[r].id>>}
  <2>1. /\ job[r].user \in account => Has(job[r].user, job[r].id)
        /\ \A c \in connection : c.n = job[r].n
              => c.user = job[r].user /\ c.id = job[r].id
    BY <1>5 DEF Exchanges, ExchangesOK
  <2>2. \A q \in Req : IsExchange(q)' => /\ IsExchange(q) /\ job'[q] = job[q] /\ q # r
                                         /\ phase'[q] = phase[q] /\ reply'[q] = reply[q]
    BY <1>2 DEF OthersStay, IsExchange
  <2>3. \A q \in Req : IsExchange(q) /\ q # r => IsExchange(q)' /\ job'[q] = job[q]
    BY <1>2 DEF OthersStay, IsExchange
  <2>4. \A t \in told' : t[1] \in account => Has(t[1], t[2])
    <3> SUFFICES ASSUME NEW t \in told', t[1] \in account PROVE Has(t[1], t[2])
      OBVIOUS
    <3>1. CASE t \in told  BY <3>1 DEF Exchanges, ExchangesOK
    <3>2. CASE t = <<job[r].user, job[r].id>>
      <4>1. t[1] = job[r].user /\ t[2] = job[r].id
        BY <3>2
      <4> QED  BY <2>1, <4>1
    <3> QED  BY <1>5, <3>1, <3>2
  <2>5. ExchangesOK'
    BY <1>1, <2>2, <2>4 DEF Exchanges, ExchangesOK, Has
  <2>6. \A c \in connection : \/ <<c.user, c.id>> \in told' \/ c.n \in failed'
                              \/ \E q \in Req : IsExchange(q)' /\ job'[q].n = c.n
    <3> TAKE c \in connection
    <3>1. CASE c.n = job[r].n
      <4>1. c.user = job[r].user /\ c.id = job[r].id
        BY <2>1, <3>1
      <4> QED  BY <1>5, <4>1
    <3>2. CASE c.n # job[r].n
      BY <1>5, <2>3, <3>2 DEF Exchanges, SurplusIsUnanswered
    <3> QED  BY <3>1, <3>2
  <2>7. SurplusIsUnanswered'
    BY <1>1, <2>6 DEF Exchanges, SurplusIsUnanswered
  <2> QED  BY <2>5, <2>7 DEF Exchanges
<1> QED  BY <1>4, <1>5 DEF Deliver, Lose

\* The deletion of an account takes the connections of its user, and no others.
LEMMA DeleteExchanges ==
    ASSUME TypeOK, Exchanges, NEW u \in User, Delete(u)
    PROVE  Exchanges'
<1>1. /\ account' = account \ {u} /\ connection' = {c \in connection : c.user # u}
      /\ phase' = phase /\ job' = job /\ reply' = reply
      /\ exchanges' = exchanges /\ told' = told /\ failed' = failed
  BY DEF Delete, reqVars, clientVars
<1>2. \A v, id : v # u /\ Has(v, id)
                 => \E c \in connection' : c.user = v /\ c.id = id
  BY <1>1 DEF Has
<1>3. \A q \in Req : IsExchange(q)' = IsExchange(q)
  BY <1>1 DEF IsExchange
<1>4. \A q \in Req : IsExchange(q) =>
          /\ job[q].n <= exchanges
          /\ \A s \in Req : IsExchange(s) /\ job[s].n = job[q].n => s = q
          /\ phase[q] = "write" => \A c \in connection' : c.n # job[q].n
          /\ phase[q] = "refresh" \/ reply[q] = "ok" =>
                /\ job[q].user \in account'
                   => \E c \in connection' : c.user = job[q].user /\ c.id = job[q].id
                /\ \A c \in connection' : c.n = job[q].n
                      => c.user = job[q].user /\ c.id = job[q].id
  BY <1>1, <1>2 DEF Exchanges, ExchangesOK
<1>5. \A t \in told : t[1] \in account'
          => \E c \in connection' : c.user = t[1] /\ c.id = t[2]
  BY <1>1, <1>2 DEF Exchanges, ExchangesOK
<1>6. ExchangesOK'
  BY <1>1, <1>3, <1>4, <1>5 DEF Exchanges, ExchangesOK, Has
<1>7. SurplusIsUnanswered'
  BY <1>1, <1>3 DEF Exchanges, SurplusIsUnanswered
<1> QED  BY <1>6, <1>7 DEF Exchanges

\* A rotation, a start and a stop keep what is known of exchanges: those of a
\* process that stops have failed.
LEMMA DeployExchanges ==
    ASSUME TypeOK, Exchanges, \/ \E keys \in KeyLists : Rotate(keys)
                              \/ \E p \in Process : Start(p) \/ Stop(p)
    PROVE  Exchanges'
<1>1. /\ account' = account /\ connection' = connection
      /\ exchanges' = exchanges /\ told' = told /\ reply' = reply
  BY DEF Rotate, Start, Stop, dbVars, reqVars, clientVars
<1>2. ASSUME phase' = phase, job' = job, failed' = failed PROVE Exchanges'
  <2>1. \A q \in Req : Follows(q)
    BY <1>1, <1>2 DEF Follows, IsExchange
  <2> QED  BY <1>1, <1>2, <2>1, SameExchanges
<1>3. ASSUME NEW p \in Process, Stop(p) PROVE Exchanges'
  <2> DEFINE gone == {r \in Req : phase[r] \in {"write", "refresh"} /\ job[r].at = p}
  <2>1. /\ failed' = failed \cup Attempts(gone)
        /\ \A q \in Req : /\ q \in gone => phase'[q] = "idle" /\ job'[q] = None
                          /\ q \notin gone => phase'[q] = phase[q] /\ job'[q] = job[q]
    BY <1>3 DEF Stop
  <2>2. \A q \in gone : IsExchange(q) => job[q].n \in Attempts(gone)
    BY DEF Attempts
  <2>3. gone \subseteq Req
    OBVIOUS
  <2> HIDE DEF gone
  <2>4. \A q \in Req : Follows(q)
    <3> TAKE q \in Req
    <3>1. CASE q \in gone
      BY <2>1, <2>2, <3>1 DEF Follows, IsExchange
    <3>2. CASE q \notin gone
      BY <1>1, <2>1, <3>2 DEF Follows, IsExchange
    <3> QED  BY <3>1, <3>2
  <2> QED  BY <1>1, <2>1, <2>4, SameExchanges
<1> QED  BY <1>2, <1>3 DEF Rotate, Start, reqVars, clientVars

\* Every step keeps what is known of exchanges.
LEMMA NextExchanges == TypeOK /\ Exchanges /\ [Next]_vars => Exchanges'
<1> SUFFICES ASSUME TypeOK, Exchanges, [Next]_vars PROVE Exchanges'
  OBVIOUS
<1>1. CASE UNCHANGED vars
  <2>1. \A q \in Req : Follows(q)
    BY <1>1 DEF Follows, IsExchange, vars, reqVars
  <2> QED  BY <1>1, <2>1, SameExchanges DEF vars, dbVars, clientVars
<1>2. ASSUME NEW r \in Req, InsertFails(r) \/ RefreshConnection(r) PROVE Exchanges'
  <2>1. IsExchange(r) /\ UNCHANGED <<deployVars, dbVars, clientVars>>
    BY <1>2 DEF InsertFails, RefreshConnection, StoresToken
  <2>2. PICK a : Answer(r, Ended(r), a) /\ ( a = "ok" => phase[r] = "refresh" )
    BY <1>2 DEF InsertFails, RefreshConnection
  <2> QED  BY <2>1, <2>2, HandlerEnds
<1>3. ASSUME NEW r \in Req, Fail(r) PROVE Exchanges'
  <2>1. UNCHANGED <<deployVars, dbVars, clientVars>>
    BY <1>3 DEF Fail
  <2>2. CASE IsExchange(r) /\ Answer(r, Ended(r), "error")
    BY <2>1, <2>2, HandlerEnds
  <2>3. CASE ~IsExchange(r) /\ Answer(r, None, "error")
    BY <2>1, <2>3, StepsAlone, NoExchange DEF dbVars
  <2> QED  BY <1>3, <2>2, <2>3 DEF Fail
<1>4. CASE \E r \in Req : \/ Conflict(r) \/ Store(r) \/ RefreshState(r) \/ Insert(r)
                          \/ InsertFails(r) \/ RefreshConnection(r)
                          \/ Fail(r) \/ Deliver(r) \/ Lose(r)
  BY <1>2, <1>3, <1>4, SyncExchanges, InsertExchanges, DeliverExchanges
<1>5. CASE \E r \in Req, p \in Process, u \in User :
              \/ Pull(r, p, u) \/ \E v \in Provider : AskExchange(r, p, u, v)
              \/ \E b \in Body : \/ Refused(r, p, u, b) \/ Select(r, p, u, b)
                                \/ PushRecord(r, p, u, b)
  BY <1>5, SyncExchanges, AskExchanges
<1>6. CASE \E r \in Req, b \in WebhookBody, plaid, gocardless \in Header :
              Receive(r, b, plaid, gocardless)
  BY <1>6, SyncExchanges
<1> QED  BY <1>1, <1>4, <1>5, <1>6, DeployExchanges, DeleteExchanges DEF Next

-----------------------------------------------------------------------------
(* The inductive invariant *)

LEMMA InductiveIs ==
    Inductive <=> TypeOK /\ AnswersOK /\ RingsAgree /\ LocksHold /\ StoredIsWhole
                  /\ Exchanges
BY AnswersAre DEF Inductive, Exchanges

\* It holds initially.
LEMMA InitInductive == Init => Inductive
<1> SUFFICES ASSUME Init PROVE Inductive
  OBVIOUS
<1>1. TypeOK
  BY InitTypes
<1>2. AnswersOK
  <2>1. None # "DecryptionError" /\ None # "DataError"
    BY NoneAssumption DEF Status
  <2> QED  BY <2>1 DEF Init, AnswersOK, AnswerOK
<1>3. RingsAgree
  <2>1. StoredKeys = {} /\ Running = {}
    BY DEF Init, StoredKeys, Running
  <2> QED  BY <2>1 DEF RingsAgree
<1>4. LocksHold /\ StoredIsWhole /\ Exchanges
  BY DEF Init, LocksHold, Writes, StoredIsWhole, Exchanges, ExchangesOK, IsExchange,
         SurplusIsUnanswered
<1> QED  BY <1>1, <1>2, <1>3, <1>4, InductiveIs

\* Every step keeps it.
LEMMA NextInductive == Inductive /\ [Next]_vars => Inductive'
<1> SUFFICES ASSUME Inductive, [Next]_vars PROVE Inductive'
  OBVIOUS
<1>1. TypeOK /\ AnswersOK /\ RingsAgree /\ LocksHold /\ StoredIsWhole /\ Exchanges
  BY InductiveIs
<1>2. TypeOK' /\ AnswersOK' /\ RingsAgree' /\ LocksHold' /\ StoredIsWhole' /\ Exchanges'
  BY <1>1, NextTypes, NextAnswers, NextRings, NextLocks, NextExchanges
<1>3. RotationUnnoticed' /\ TokenFits'
  BY <1>2 DEF AnswersOK, AnswerOK, RotationUnnoticed, TokenFits
<1> QED  BY <1>2, <1>3 DEF Inductive, Exchanges

\* The invariant holds in every state of every behaviour.
THEOREM AlwaysInductive == Spec => []Inductive
<1>1. Inductive /\ [Next]_vars => Inductive'
  BY NextInductive
<1> QED  BY <1>1, InitInductive, PTL DEF Spec

-----------------------------------------------------------------------------
(* The properties of the runs *)

\* All variables have their types, and a request in flight has a process.
THEOREM TypeCorrect == Spec => []TypeOK
BY AlwaysInductive, PTL DEF Inductive

\* No request fails for a key while the rotations of ENCRYPTION_KEY keep to the
\* order, however many processes take them up, and whenever they do.
THEOREM RotationsUnnoticed == Spec => []RotationUnnoticed
BY AlwaysInductive, PTL DEF Inductive

\* Of one exchange there is at most one connection, and a connection no client
\* knows of stems from an exchange that failed or is not over.
THEOREM SurplusExplained == Spec => []SurplusIsUnanswered
BY AlwaysInductive, PTL DEF Inductive

\* No body that is damaged or too large is stored.
THEOREM StoredAreWhole == Spec => []StoredIsWhole
BY AlwaysInductive, PTL DEF Inductive

\* The access token of no provider is too long for its column, unless the name
\* of the provider is for its own.
THEOREM TokensFit == Spec => []TokenFits
BY AlwaysInductive, PTL DEF Inductive

\* A client does not lose a connection it was told of, nor do rotations that keep
\* to the order make its token unreadable.
THEOREM ToldAreKept == Spec => []ToldIsKept
<1>1. Inductive => ToldIsKept
  <2> SUFFICES ASSUME Inductive, NEW t \in told, t[1] \in account
               PROVE  \E c \in connection :
                          /\ c.user = t[1] /\ c.id = t[2]
                          /\ ordered => \A p \in Running : Opens(ring[p], c)
    BY DEF ToldIsKept
  <2>1. PICK c \in connection : c.user = t[1] /\ c.id = t[2]
    BY DEF Inductive, ExchangesOK, Has
  <2>2. ordered => \A p \in Running : Opens(ring[p], c)
    BY AllReadable DEF Inductive
  <2> QED  BY <2>1, <2>2
<1> QED  BY <1>1, AlwaysInductive, PTL

\* A process that cannot read a stored state does not replace it.
THEOREM NothingOverwrittenBlindly == Spec => NoBlindOverwrite
<1>1. ASSUME Inductive, [Next]_vars, NEW u \in User,
             state[u] # None, state'[u] \notin {state[u], None}
      PROVE  \E r \in Req : /\ Writes(r) /\ phase'[r] = "refresh"
                            /\ job[r].user = u
                            /\ Opens(ring[job[r].at], state[u])
  <2>1. \A v \in User : ~Delete(v)
    BY <1>1 DEF Delete, Inductive, TypeOK
  <2>2. state' # state
    BY <1>1
  <2>3. PICK r \in Req : Store(r)
    BY <1>1, <2>1, <2>2
       DEF Next, vars, dbVars, Rotate, Start, Stop, Refused, Select, SelectUnlocked,
           PushRecord, Pull, Conflict, RefreshState, AskExchange, Insert, InsertFails,
           RefreshConnection, Receive, Fail, Deliver, Lose, Done
  <2>4. Writes(r) /\ job[r].user \in User
    BY <1>1, <2>3, AtWork DEF Store, Writes, Inductive
  <2>5. /\ job[r].user = u /\ Go(r, "refresh", Reloads(r))
        /\ job[r].found \/ state[u] = None
    <3>1. /\ Go(r, "refresh", Reloads(r))
          /\ \E e : state' = [state EXCEPT ![job[r].user] = e]
          /\ job[r].found \/ state[job[r].user] = None
      BY <2>2, <2>3 DEF Store
    <3>2. job[r].user = u
      BY <1>1, <2>4, <3>1 DEF Inductive, TypeOK
    <3> QED  BY <3>1, <3>2
  <2>6. phase'[r] = "refresh"
    BY <1>1, <2>5 DEF Go, Inductive, TypeOK
  <2>7. Opens(ring[job[r].at], state[u])
    BY <1>1, <2>4, <2>5 DEF Inductive, LocksHold
  <2> QED  BY <2>4, <2>5, <2>6, <2>7
<1>2. Inductive /\ [Next]_vars =>
        \A u \in User :
          state[u] # None /\ state'[u] \notin {state[u], None}
          => \E r \in Req : /\ Writes(r) /\ phase'[r] = "refresh"
                            /\ job[r].user = u
                            /\ Opens(ring[job[r].at], state[u])
  BY <1>1
<1> QED  BY <1>2, AlwaysInductive, PTL DEF Spec, NoBlindOverwrite

-----------------------------------------------------------------------------
(* How to rotate *)

\* A key list with one more key, at the end or at the front.
LEMMA MoreKeys ==
    ASSUME NEW keys \in Seq(Key) \ {<<>>}, NEW k \in Key
    PROVE  /\ Keys(keys) \subseteq Keys(Append(keys, k))
           /\ Primary(Append(keys, k)) = Primary(keys)
           /\ Keys(keys) \subseteq Keys(<<k>> \o keys)
<1>1. Len(keys) \in Nat /\ Len(keys) > 0 /\ DOMAIN keys = 1 .. Len(keys)
  OBVIOUS
<1>2. /\ DOMAIN Append(keys, k) = 1 .. Len(keys) + 1
      /\ \A i \in 1 .. Len(keys) : Append(keys, k)[i] = keys[i]
  BY <1>1
<1>3. Keys(keys) \subseteq Keys(Append(keys, k))
  BY <1>1, <1>2 DEF Keys
<1>4. Primary(Append(keys, k)) = Primary(keys)
  BY <1>1, <1>2 DEF Primary
<1>5. ASSUME NEW i \in DOMAIN keys PROVE keys[i] \in Keys(<<k>> \o keys)
  <2> DEFINE longer == <<k>> \o keys
  <2>1. longer \in Seq(Key) /\ Len(longer) = Len(keys) + 1 /\ longer[i + 1] = keys[i]
    BY <1>1
  <2>2. i + 1 \in DOMAIN longer
    BY <1>1, <2>1
  <2> QED  BY <2>1, <2>2 DEF Keys
<1>6. Keys(keys) \subseteq Keys(<<k>> \o keys)
  BY <1>5 DEF Keys
<1> QED  BY <1>3, <1>4, <1>6

\* All running processes have taken up ENCRYPTION_KEY as it is.
CaughtUp == \A p \in Running : ring[p] = settings

\* The rotations that nobody notices: a new key goes to the end of the list; once
\* all processes have it, the order of the keys may change; once all have that, the
\* keys under which nothing is stored may go.  At the front a new key may only
\* be put while no process runs.
RotationOrder ==
    ordered =>
      /\ \A k \in Key : Compatible(Append(settings, k))
      /\ \A keys \in KeyLists :
            CaughtUp /\ Keys(keys) = Keys(settings) => Compatible(keys)
      /\ \A keys \in KeyLists :
            ( /\ CaughtUp /\ StoredKeys \subseteq Keys(keys)
              /\ Primary(keys) = Primary(settings) )
            => Compatible(keys)
      /\ Running = {} => \A k \in Key : Compatible(<<k>> \o settings)

\* In every state that ordered rotations lead to, the next rotation of this
\* procedure is an ordered one again, so that any key can be replaced by any
\* other with no request failing for it (RotationsUnnoticed).
THEOREM RotationsCanBeOrdered == Spec => []RotationOrder
<1>1. Inductive => RotationOrder
  <2> SUFFICES ASSUME Inductive, ordered
               PROVE  /\ \A k \in Key : Compatible(Append(settings, k))
                      /\ \A keys \in KeyLists :
                            CaughtUp /\ Keys(keys) = Keys(settings)
                            => Compatible(keys)
                      /\ \A keys \in KeyLists :
                            ( /\ CaughtUp /\ StoredKeys \subseteq Keys(keys)
                              /\ Primary(keys) = Primary(settings) )
                            => Compatible(keys)
                      /\ Running = {} => \A k \in Key : Compatible(<<k>> \o settings)
    BY DEF RotationOrder
  <2>1. /\ StoredKeys \subseteq Keys(settings)
        /\ \A p \in Running : /\ Primary(settings) \in Keys(ring[p])
                              /\ Primary(ring[p]) \in Keys(settings)
    BY DEF Inductive, RingsAgree
  <2>2. settings \in Seq(Key) \ {<<>>}
    BY ConstantsAssumption DEF Inductive, TypeOK
  <2>3. ASSUME NEW k \in Key PROVE Compatible(Append(settings, k))
    BY <2>1, <2>2, MoreKeys DEF Compatible
  <2>4. ASSUME NEW keys \in KeyLists, CaughtUp, Keys(keys) = Keys(settings)
        PROVE  Compatible(keys)
    <3>1. Primary(keys) \in Keys(keys)
      <4>1. keys \in Seq(Key) /\ keys # <<>>  BY ConstantsAssumption
      <4> QED  BY <4>1 DEF Primary, Keys
    <3> QED  BY <2>1, <2>4, <3>1 DEF Compatible, CaughtUp
  <2>5. ASSUME NEW keys \in KeyLists, CaughtUp, StoredKeys \subseteq Keys(keys),
               Primary(keys) = Primary(settings)
        PROVE  Compatible(keys)
    <3>1. Primary(keys) \in Keys(keys)
      <4>1. keys \in Seq(Key) /\ keys # <<>>  BY ConstantsAssumption
      <4> QED  BY <4>1 DEF Primary, Keys
    <3> QED  BY <2>1, <2>5, <3>1 DEF Compatible, CaughtUp
  <2>6. ASSUME Running = {}, NEW k \in Key PROVE Compatible(<<k>> \o settings)
    BY <2>1, <2>2, <2>6, MoreKeys DEF Compatible
  <2> QED  BY <2>3, <2>4, <2>5, <2>6
<1> QED  BY <1>1, AlwaysInductive, PTL
===============================================================================
