------------------------------- MODULE StateSync -------------------------------
(***************************************************************************)
(* Whole-state synchronisation of one user: GET and POST /api/v1/sync with *)
(* a payload and a version (api/v1/sync.py: get_sync_state and the first   *)
(* half of sync), its row of sync_states (db/models.py: SyncState) and its *)
(* wire format (schemas/sync.py: SyncPayload).  Rows of different users    *)
(* are independent (user_id is the key), so one row is all there is.       *)
(*                                                                         *)
(* Every await ends an action.  PostgreSQL at READ COMMITTED: SELECT FOR   *)
(* UPDATE waits for the row's lock and then reads the committed row; it    *)
(* locks nothing when there is no row; an INSERT waits for a concurrent    *)
(* insert of the key and fails when that one commits.                      *)
(***************************************************************************)
EXTENDS Integers

CONSTANTS
    Device,
    Req,         \* slots for the requests the server works on at a time
    Payload,     \* JSON texts a device may post
    Default,     \* DEFAULT_SYNC_PAYLOAD
    Null,        \* the JSON text null: Python's None, and so SQL's NULL
    MaxVersion,  \* bound: no device posts from this version on
    None

ASSUME ConstantsAssumption ==
    /\ Default \notin {Null, None}
    /\ None \notin Req \cup Payload
    /\ MaxVersion \in Nat

Content == [payload : (Payload \cup {Default}) \ {Null}, version : Nat]
Job == [device : Device, base : Nat, payload : Payload \cup {None}]
Answer == [status : {200}, body : Content] \cup [status : {409, 500}]

ASSUME NoneAssumption == None \notin Content /\ None \notin Job

VARIABLES
    row,        \* the committed row of sync_states
    lock,       \* the request whose transaction holds the row
    phase,      \* where a request's handler is
    job,        \* device, version and payload of a request
    answer,     \* the response on its way
    wait,       \* the request a device is waiting for
    known,      \* the state a device holds, as last told by the server
    committed   \* history: every content the row has had

vars == <<row, lock, phase, job, answer, wait, known, committed>>

Start == [payload |-> Default, version |-> 0]

\* What a reader is shown: an absent row reads as the default at version 0.
Shown == IF row = None THEN Start ELSE row

Init ==
    /\ row = None
    /\ lock = None
    /\ phase = [r \in Req |-> "idle"]
    /\ job = [r \in Req |-> None]
    /\ answer = [r \in Req |-> None]
    /\ wait = [d \in Device |-> None]
    /\ known = [d \in Device |-> Start]
    /\ committed = {Start}

-----------------------------------------------------------------------------
(* Requests *)

\* A device posts its state, made from the version it names.
Post(r, d, base, payload) ==
    /\ phase[r] = "idle" /\ wait[d] = None
    /\ phase' = [phase EXCEPT ![r] = "select"]
    /\ job' = [job EXCEPT ![r] = [device |-> d, base |-> base, payload |-> payload]]
    /\ wait' = [wait EXCEPT ![d] = r]
    /\ UNCHANGED <<row, lock, answer, known, committed>>

\* A device asks for the state.
Get(r, d) ==
    /\ phase[r] = "idle" /\ wait[d] = None
    /\ phase' = [phase EXCEPT ![r] = "get"]
    /\ job' = [job EXCEPT ![r] = [device |-> d, base |-> 0, payload |-> None]]
    /\ wait' = [wait EXCEPT ![d] = r]
    /\ UNCHANGED <<row, lock, answer, known, committed>>

Reply(r, a) ==
    /\ phase' = [phase EXCEPT ![r] = "reply"]
    /\ answer' = [answer EXCEPT ![r] = a]

Conflict == [status |-> 409]

\* get_sync_state: one select.
Read(r) ==
    /\ phase[r] = "get"
    /\ Reply(r, [status |-> 200, body |-> Shown])
    /\ UNCHANGED <<row, lock, job, wait, known, committed>>

-----------------------------------------------------------------------------
(* The handler of a POST *)

\* SELECT .. FOR UPDATE finds no row: go on to insert one, but only from
\* version 0.
SelectNone(r) ==
    /\ phase[r] = "select"
    /\ row = None
    /\ IF job[r].base = 0
       THEN phase' = [phase EXCEPT ![r] = "insert"] /\ UNCHANGED answer
       ELSE Reply(r, Conflict)
    /\ UNCHANGED <<row, lock, job, wait, known, committed>>

\* Fault: a plain SELECT.
SelectUnlocked(r) ==
    /\ phase[r] = "select"
    /\ row # None
    /\ IF job[r].base = row.version
       THEN phase' = [phase EXCEPT ![r] = "update"] /\ UNCHANGED answer
       ELSE Reply(r, Conflict)
    /\ UNCHANGED <<row, lock, job, wait, known, committed>>

\* Fault: the version is not compared.
SelectUnchecked(r) ==
    /\ phase[r] = "select"
    /\ row # None
    /\ lock = None
    /\ lock' = r
    /\ phase' = [phase EXCEPT ![r] = "update"]
    /\ UNCHANGED <<row, job, answer, wait, known, committed>>

\* Fault: the transaction of a rejected request is left open.
SelectLeavesLock(r) ==
    /\ phase[r] = "select"
    /\ row # None
    /\ lock = None
    /\ lock' = r
    /\ IF job[r].base = row.version
       THEN phase' = [phase EXCEPT ![r] = "update"] /\ UNCHANGED answer
       ELSE Reply(r, Conflict)
    /\ UNCHANGED <<row, job, wait, known, committed>>

\* SELECT .. FOR UPDATE finds the row, once no other transaction holds it.
\* The lock is kept for the update; a mismatch raises the 409, which ends the
\* session and with it the lock.
SelectRow(r) ==
    /\ phase[r] = "select"
    /\ row # None
    /\ lock = None
    /\ IF job[r].base = row.version
       THEN /\ lock' = r
            /\ phase' = [phase EXCEPT ![r] = "update"]
            /\ UNCHANGED answer
       ELSE /\ Reply(r, Conflict)
            /\ UNCHANGED lock
    /\ UNCHANGED <<row, job, wait, known, committed>>

Store(content) ==
    /\ row' = content
    /\ committed' = committed \cup {content}

\* Fault: the insert overwrites a row it meets.
InsertOverwrites(r) ==
    /\ phase[r] = "insert"
    /\ job[r].payload # Null
    /\ Store([payload |-> job[r].payload, version |-> 1])
    /\ phase' = [phase EXCEPT ![r] = "refresh"]
    /\ UNCHANGED <<lock, job, answer, wait, known>>

\* INSERT and COMMIT.  An IntegrityError is answered with a 409: the key is
\* taken, or the payload is NULL in a column that is NOT NULL.  (The insert
\* waits for another transaction's uncommitted insert; as that one is then
\* decided by its commit, insert and commit are one step.)
Insert(r) ==
    /\ phase[r] = "insert"
    /\ IF row = None /\ job[r].payload # Null
       THEN /\ Store([payload |-> job[r].payload, version |-> 1])
            /\ phase' = [phase EXCEPT ![r] = "refresh"]
            /\ UNCHANGED answer
       ELSE /\ Reply(r, Conflict)
            /\ UNCHANGED <<row, committed>>
    /\ UNCHANGED <<lock, job, wait, known>>

\* UPDATE and COMMIT under the row's lock.  The version that was read is the
\* one that was compared with base.  The update's IntegrityError (NULL again)
\* is not caught: the request ends in a 500.
Update(r) ==
    /\ phase[r] = "update"
    /\ IF job[r].payload # Null
       THEN /\ Store([payload |-> job[r].payload, version |-> job[r].base + 1])
            /\ phase' = [phase EXCEPT ![r] = "refresh"]
            /\ UNCHANGED answer
       ELSE /\ Reply(r, [status |-> 500])
            /\ UNCHANGED <<row, committed>>
    /\ lock' = None
    /\ UNCHANGED <<job, wait, known>>

\* Fault: the answer pairs the payload of the request with the version of the
\* refreshed row.
RefreshVersionOnly(r) ==
    /\ phase[r] = "refresh"
    /\ Reply(r, [status |-> 200,
                 body |-> [payload |-> job[r].payload, version |-> row.version]])
    /\ UNCHANGED <<row, lock, job, wait, known, committed>>

\* db.refresh reads the row in a new transaction; the answer is what it finds.
Refresh(r) ==
    /\ phase[r] = "refresh"
    /\ Reply(r, [status |-> 200, body |-> row])
    /\ UNCHANGED <<row, lock, job, wait, known, committed>>

-----------------------------------------------------------------------------
(* The end of a request *)

Done(r) ==
    /\ phase' = [phase EXCEPT ![r] = "idle"]
    /\ job' = [job EXCEPT ![r] = None]
    /\ answer' = [answer EXCEPT ![r] = None]
    /\ wait' = [d \in Device |-> IF wait[d] = r THEN None ELSE wait[d]]

\* The response arrives; a device that still waits for it keeps the state of
\* a 200.
Deliver(r) ==
    /\ phase[r] = "reply"
    /\ known' = [d \in Device |-> IF wait[d] = r /\ answer[r].status = 200
                                  THEN answer[r].body ELSE known[d]]
    /\ Done(r)
    /\ UNCHANGED <<row, lock, committed>>

\* A database error, a crash or a lost connection ends the request anywhere.
Fail(r) ==
    /\ phase[r] # "idle"
    /\ lock' = IF lock = r THEN None ELSE lock
    /\ Done(r)
    /\ UNCHANGED <<row, known, committed>>

\* The device stops waiting (a timeout); the request runs on.
GiveUp(d) ==
    /\ wait[d] # None
    /\ wait' = [wait EXCEPT ![d] = None]
    /\ UNCHANGED <<row, lock, phase, job, answer, known, committed>>

Next ==
    \/ \E r \in Req, d \in Device, b \in 0 .. (MaxVersion - 1), p \in Payload :
          Post(r, d, b, p)
    \/ \E r \in Req, d \in Device : Get(r, d)
    \/ \E r \in Req : Read(r)
    \/ \E r \in Req : SelectNone(r)
    \/ \E r \in Req : SelectRow(r)
    \/ \E r \in Req : Insert(r)
    \/ \E r \in Req : Update(r)
    \/ \E r \in Req : Refresh(r)
    \/ \E r \in Req : Deliver(r)
    \/ \E r \in Req : Fail(r)
    \/ \E d \in Device : GiveUp(d)

Spec == Init /\ [][Next]_vars

(***************************************************************************)
(* The event loop is fair to the handlers, and PostgreSQL to those that    *)
(* wait for the row: its lock queue is first come, first served.           *)
(***************************************************************************)
Fairness ==
    \A r \in Req : /\ WF_vars(Read(r))
                   /\ WF_vars(SelectNone(r))
                   /\ SF_vars(SelectRow(r))
                   /\ WF_vars(Insert(r))
                   /\ WF_vars(Update(r))
                   /\ WF_vars(Refresh(r))
                   /\ WF_vars(Deliver(r))

FairSpec == Spec /\ Fairness

-----------------------------------------------------------------------------
(* Properties *)

\* Types; the row's lock is held exactly by a request about to update.
TypeOK ==
    /\ row \in Content \cup {None}
    /\ lock \in Req \cup {None}
    /\ phase \in [Req -> {"idle", "get", "select", "insert", "update",
                          "refresh", "reply"}]
    /\ job \in [Req -> Job \cup {None}]
    /\ answer \in [Req -> Answer \cup {None}]
    /\ wait \in [Device -> Req \cup {None}]
    /\ known \in [Device -> Content]
    /\ committed \subseteq Content
    /\ \A r \in Req : /\ phase[r] # "idle" => job[r] \in Job
                      /\ phase[r] = "reply" => answer[r] \in Answer
                      /\ lock = r <=> phase[r] = "update"

\* No lost update: two writes made from the same version are never both
\* accepted, so that a version has one content for ever.
OneContentPerVersion ==
    \A a, b \in committed : a.version = b.version => a = b

\* What a device holds is a state the row really had: payload and version
\* belong together.
KnownWasCommitted ==
    \A d \in Device : known[d] \in committed

\* The answer to an accepted write shows that write or one built upon it.
AnswerIncludesWrite ==
    \A r \in Req :
        ( phase[r] = "reply" /\ job[r].payload # None /\ answer[r].status = 200 )
        => /\ answer[r].body \in committed
           /\ answer[r].body.version > job[r].base
           /\ [payload |-> job[r].payload, version |-> job[r].base + 1] \in committed

\* An accepted write is answered with the version after the one it was made
\* from (tests/test_api.py: "POST with correct version (0) -> returns version
\* 1").
AnswersNextVersion ==
    \A r \in Req :
        ( phase[r] = "reply" /\ job[r].payload # None /\ answer[r].status = 200 )
        => answer[r].body.version = job[r].base + 1

\* A device never goes back to an older state, however its answers are delayed
\* and whatever other devices write meanwhile.
DevicesAdvance ==
    [][\A d \in Device : known'[d].version >= known[d].version]_vars

\* Every request ends, although a request can wait for the row's lock.
RequestsEnd ==
    \A r \in Req : phase[r] # "idle" ~> phase[r] = "idle"

(***************************************************************************)
(* The handlers implement the register.  A write takes effect when it is   *)
(* committed.  A write of NULL that the database refuses is a broken       *)
(* operation: its answer (409 or 500) says nothing about the version.      *)
(***************************************************************************)
IsWrite(r) == job[r].payload # None

Outcome(r) ==
    IF answer[r].status = 200 THEN "shown"
    ELSE IF answer[r].status = 409 /\ job[r].payload # Null THEN "rejected"
    ELSE "broken"

Op(r) ==
    CASE phase[r] = "idle"    -> "none"
      [] phase[r] = "get"     -> "read"
      [] phase[r] = "refresh" -> "written"
      [] phase[r] = "reply"   -> Outcome(r)
      [] OTHER                -> "write"

Arg(r) == IF phase[r] # "idle" /\ IsWrite(r)
          THEN [base |-> job[r].base, payload |-> job[r].payload]
          ELSE None

Res(r) == IF phase[r] = "reply" /\ answer[r].status = 200
          THEN answer[r].body ELSE None

Register ==
    INSTANCE VersionedRegister
    WITH Nothing <- None,
         Version <- 0 .. (MaxVersion - 1),
         reg <- Shown,
         op  <- [r \in Req |-> Op(r)],
         arg <- [r \in Req |-> Arg(r)],
         res <- [r \in Req |-> Res(r)]

ImplementsRegister == Register!Spec

-----------------------------------------------------------------------------
(***************************************************************************)
(* The inductive invariant: what keeps the invariants true under every     *)
(* step.                                                                   *)
(***************************************************************************)

\* The row is the newest content there has been, and none has gone before it
\* while there is no row.
Newest ==
    /\ Shown \in committed
    /\ row = None => committed = {Start}
    /\ row # None => row.version > 0
    /\ \A c \in committed : c.version <= Shown.version

\* How far a write has come: about to insert, it was made from version 0;
\* about to update, from the version of the row, which its lock keeps;
\* committed, the row is its content or a later one.
WriteProgress(r) ==
    /\ phase[r] \in {"select", "insert", "update", "refresh"} => IsWrite(r)
    /\ phase[r] = "get" => ~IsWrite(r)
    /\ phase[r] = "insert" => job[r].base = 0
    /\ phase[r] = "update" => row # None /\ row.version = job[r].base
    /\ phase[r] = "refresh" =>
         /\ row # None
         /\ row.version > job[r].base
         /\ [payload |-> job[r].payload, version |-> job[r].base + 1] \in committed

\* The answer a device waits for is no older than what the device holds: it
\* was read after the device had been told that.
AnswersNewer ==
    \A d \in Device :
        ( wait[d] # None /\ phase[wait[d]] = "reply" /\ answer[wait[d]].status = 200 )
        => answer[wait[d]].body.version >= known[d].version

\* What an answer shows has been the row.
AnswerWasCommitted(r) ==
    ( phase[r] = "reply" /\ answer[r].status = 200 )
    => answer[r].body \in committed

Inductive ==
    /\ TypeOK
    /\ Newest
    /\ \A r \in Req : WriteProgress(r) /\ AnswerWasCommitted(r)
    /\ OneContentPerVersion
    /\ KnownWasCommitted
    /\ AnswerIncludesWrite
===============================================================================
