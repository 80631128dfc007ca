------------------------------ MODULE RecordSync ------------------------------
(***************************************************************************)
(* Per-record last-write-wins synchronisation: POST /api/v1/sync without a *)
(* whole-state payload (api/v1/sync.py: process_changes and the second     *)
(* half of sync), its table sync_records (db/models.py: SyncRecord) and    *)
(* its wire format (schemas/sync.py).                                      *)
(*                                                                         *)
(* A request is one asyncio task with one database session.  It reads the  *)
(* clock, writes its batch in one transaction (one INSERT .. ON CONFLICT   *)
(* statement per change), commits, and reads a page of the user's records  *)
(* in a second transaction.  Between any two of these awaits other         *)
(* requests run, so each await ends an action here.                        *)
(*                                                                         *)
(* The database is PostgreSQL at READ COMMITTED: an upsert takes the lock  *)
(* of its key, waiting for the transaction that holds it; its WHERE clause *)
(* is evaluated on the latest committed row (or on the transaction's own   *)
(* uncommitted one); a select sees what is committed when it starts.       *)
(***************************************************************************)
EXTENDS Integers, FiniteSets, Sequences

CONSTANTS
    Device,          \* the clients; a device is signed in as one user
    User,
    Owner,           \* [Device -> User]
    Id,              \* record ids, ordered like the strings they stand for
    Req,             \* slots for the requests the server works on at a time
    Batches,         \* the lists of changes a device may push
    PAGE_LIMIT,
    CLAMP_TOLERANCE,
    MaxTime,         \* bound: the clock stops, and no request starts, here
    None

ASSUME ConstantsAssumption ==
    /\ Owner \in [Device -> User]
    /\ Id \subseteq Nat
    /\ Batches \subseteq Seq([id : Id, updated_at : Nat])
    /\ PAGE_LIMIT \in Nat \ {0}
    /\ CLAMP_TOLERANCE \in Nat
    /\ MaxTime \in Nat

VARIABLES
    now,     \* the server clock, one tick per request (distinct microseconds)
    rows,    \* sync_records, what is committed
    lock,    \* row locks: which request's transaction holds a key
    writes,  \* rows written and not yet committed, per request
    phase,   \* where a request's handler is
    job,     \* the handler's locals: the parsed SyncRequest and its progress
    resp,    \* the SyncResponse on its way to the device
    wait,    \* the request a device is waiting for
    cursor,  \* since and last_seen_id as a device keeps them
    view,    \* the records a device has been told of
    late     \* history: stamps at or below a device's cursor that belonged to
             \* a push still in flight when the page was read

serverVars == <<now, rows, lock, writes, phase, job, resp>>
deviceVars == <<wait, cursor, view, late>>
vars == <<now, rows, lock, writes, phase, job, resp, wait, cursor, view, late>>

(***************************************************************************)
(* Data.  type, data and deleted are overwritten together and never        *)
(* looked at; they are abstracted to the device that wrote the row.        *)
(* since = 0 stands for a missing since: every server time is above it.    *)
(***************************************************************************)
Key == User \X Id
Row == [updated_at : Nat, server_updated_at : Nat \ {0}, data : Device]
Table == [Key -> Row \cup {None}]
Cursor == [since : Nat, last_seen_id : Id \cup {None}]
Job == [device : Device, sync_point : Nat \ {0}, cursor : Cursor,
        changes : Batches, idx : Nat \ {0}, retried : BOOLEAN]
Resp == [cursor : Cursor, changes : Table, late : SUBSET Nat]

ASSUME NoneAssumption ==
    None \notin Nat /\ None \notin Req /\ None \notin Row /\ None \notin Job

EmptyTable == [k \in Key |-> None]
StartCursor == [since |-> 0, last_seen_id |-> None]

-----------------------------------------------------------------------------
(* The pieces of process_changes *)

\* Fault: no clamp.
ClientTime(t, sync_point) == t

\* A client time beyond the tolerance becomes the server time itself.
Clamp(t, sync_point) ==
    IF t > sync_point + CLAMP_TOLERANCE THEN sync_point ELSE t

\* Fault: the upsert without its WHERE clause.
LastArrivalWins(new, old) == TRUE

\* WHERE excluded.updated_at >= sync_records.updated_at: a tie goes to the
\* later writer.
Wins(new, old) == old = None \/ new.updated_at >= old.updated_at

ChangeKey(r, c) == <<Owner[job[r].device], c.id>>
HasNext(r) == phase[r] = "push" /\ job[r].idx <= Len(job[r].changes)
NextKey(r) == ChangeKey(r, job[r].changes[job[r].idx])

\* Fault: the batch is compared with the table as it was before it.
Committed(r, k) == rows[k]

\* The row of key k as request r's transaction sees it.
Visible(r, k) == IF writes[r][k] # None THEN writes[r][k] ELSE rows[k]

Released(r) == [k \in Key |-> IF lock[k] = r THEN None ELSE lock[k]]

-----------------------------------------------------------------------------
(* The pieces of the pull *)

\* Fault: the filter without its second half, last_seen_id ignored.
AfterTime(id, row, c) == row.server_updated_at > c.since

\* Fault: id >= last_seen_id.
AtOrAfter(id, row, c) ==
    \/ row.server_updated_at > c.since
    \/ /\ c.last_seen_id # None
       /\ row.server_updated_at = c.since
       /\ id >= c.last_seen_id

\* The keyset filter: rows strictly after the cursor in (server_updated_at, id).
After(id, row, c) ==
    \/ row.server_updated_at > c.since
    \/ /\ c.last_seen_id # None
       /\ row.server_updated_at = c.since
       /\ id > c.last_seen_id

\* Fault: the select without user_id == current_user.id.
MatchingAnyUser(r) ==
    {k \in Key : rows[k] # None /\ After(k[2], rows[k], job[r].cursor)}

Matching(r) ==
    {k \in Key : /\ k[1] = Owner[job[r].device]
                 /\ rows[k] # None
                 /\ After(k[2], rows[k], job[r].cursor)}

\* ORDER BY server_updated_at, id
Before(k, m) ==
    \/ rows[k].server_updated_at < rows[m].server_updated_at
    \/ /\ rows[k].server_updated_at = rows[m].server_updated_at
       /\ k[2] < m[2]

\* LIMIT PAGE_LIMIT: the first rows in that order.
Pages(M) ==
    {P \in SUBSET M :
        /\ \A k \in P, m \in M \ P : Before(k, m)
        /\ IF Cardinality(M) < PAGE_LIMIT THEN P = M
                                          ELSE Cardinality(P) = PAGE_LIMIT}

IsLast(k, P) == \A p \in P : p = k \/ Before(p, k)

InFlight(since) ==
    {job[q].sync_point : q \in {p \in Req : /\ phase[p] = "push"
                                            /\ job[p].sync_point <= since}}

Merge(old, new) == [k \in Key |-> IF new[k] # None THEN new[k] ELSE old[k]]

-----------------------------------------------------------------------------
Init ==
    /\ now = 0
    /\ rows = EmptyTable
    /\ lock = [k \in Key |-> None]
    /\ writes = [r \in Req |-> EmptyTable]
    /\ phase = [r \in Req |-> "idle"]
    /\ job = [r \in Req |-> None]
    /\ resp = [r \in Req |-> None]
    /\ wait = [d \in Device |-> None]
    /\ cursor = [d \in Device |-> StartCursor]
    /\ view = [d \in Device |-> EmptyTable]
    /\ late = [d \in Device |-> {}]

\* A device posts its changes with its cursor; the handler parses the body and
\* takes the sync point, before it touches the database.
Receive(r, d, changes) ==
    /\ now < MaxTime
    /\ phase[r] = "idle"
    /\ wait[d] = None
    /\ now' = now + 1
    /\ job' = [job EXCEPT ![r] =
                 [device |-> d, sync_point |-> now + 1, cursor |-> cursor[d],
                  changes |-> changes, idx |-> 1, retried |-> FALSE]]
    /\ phase' = [phase EXCEPT ![r] = IF changes = <<>> THEN "pull" ELSE "push"]
    /\ wait' = [wait EXCEPT ![d] = r]
    /\ UNCHANGED <<rows, lock, writes, resp, cursor, view, late>>

\* Fault: every upsert is committed by itself.
UpsertAlone(r) ==
    LET k   == NextKey(r)
        c   == job[r].changes[job[r].idx]
        new == [updated_at |-> Clamp(c.updated_at, job[r].sync_point),
                server_updated_at |-> job[r].sync_point,
                data |-> job[r].device]
    IN  /\ HasNext(r)
        /\ lock[k] = None
        /\ rows' = IF Wins(new, rows[k]) THEN [rows EXCEPT ![k] = new] ELSE rows
        /\ job' = [job EXCEPT ![r].idx = @ + 1]
        /\ UNCHANGED <<now, lock, writes, phase, resp, deviceVars>>

\* One round of the loop of process_changes: one upsert statement.  The key's
\* lock is taken even when the WHERE clause rejects the new row.
Upsert(r) ==
    LET k   == NextKey(r)
        c   == job[r].changes[job[r].idx]
        new == [updated_at |-> Clamp(c.updated_at, job[r].sync_point),
                server_updated_at |-> job[r].sync_point,
                data |-> job[r].device]
    IN  /\ HasNext(r)
        /\ lock[k] \in {None, r}
        /\ lock' = [lock EXCEPT ![k] = r]
        /\ writes' = IF Wins(new, Visible(r, k))
                     THEN [writes EXCEPT ![r][k] = new]
                     ELSE writes
        /\ job' = [job EXCEPT ![r].idx = @ + 1]
        /\ UNCHANGED <<now, rows, phase, resp, deviceVars>>

\* Fault: the second attempt goes on behind the change that failed.
RetryRemaining(r) ==
    /\ phase[r] = "push"
    /\ ~job[r].retried
    /\ lock' = Released(r)
    /\ writes' = [writes EXCEPT ![r] = EmptyTable]
    /\ job' = [job EXCEPT ![r].retried = TRUE]
    /\ UNCHANGED <<now, rows, phase, resp, deviceVars>>

\* Fault: the handler retries for as long as it meets an IntegrityError.
RetryForever(r) ==
    /\ phase[r] = "push"
    /\ lock' = Released(r)
    /\ writes' = [writes EXCEPT ![r] = EmptyTable]
    /\ job' = [job EXCEPT ![r].idx = 1]
    /\ UNCHANGED <<now, rows, phase, resp, deviceVars>>

\* IntegrityError in the loop or at the commit: roll back, and run the whole
\* batch once more with the same sync point.
IntegrityRetry(r) ==
    /\ phase[r] = "push"
    /\ ~job[r].retried
    /\ lock' = Released(r)
    /\ writes' = [writes EXCEPT ![r] = EmptyTable]
    /\ job' = [job EXCEPT ![r].idx = 1, ![r].retried = TRUE]
    /\ UNCHANGED <<now, rows, phase, resp, deviceVars>>

\* Fault: the commit is left out; the pull runs in the push's transaction.
NoCommit(r) ==
    /\ phase[r] = "push"
    /\ job[r].idx > Len(job[r].changes)
    /\ rows' = Merge(rows, writes[r])
    /\ phase' = [phase EXCEPT ![r] = "pull"]
    /\ UNCHANGED <<now, lock, writes, job, resp, deviceVars>>

Commit(r) ==
    /\ phase[r] = "push"
    /\ job[r].idx > Len(job[r].changes)
    /\ rows' = Merge(rows, writes[r])
    /\ lock' = Released(r)
    /\ writes' = [writes EXCEPT ![r] = EmptyTable]
    /\ phase' = [phase EXCEPT ![r] = "pull"]
    /\ UNCHANGED <<now, job, resp, deviceVars>>

\* The select of the pull and the response built from page P.
Answer(r, P, next) ==
    /\ resp' = [resp EXCEPT ![r] =
                 [cursor  |-> next,
                  changes |-> [k \in Key |-> IF k \in P THEN rows[k] ELSE None],
                  late    |-> InFlight(next.since)]]
    /\ phase' = [phase EXCEPT ![r] = "reply"]
    /\ UNCHANGED <<now, rows, lock, writes, job, deviceVars>>

\* A page that is not full: the device is told the sync point of its request.
PullRest(r) ==
    /\ phase[r] = "pull"
    /\ \E P \in Pages(Matching(r)) :
         /\ Cardinality(P) # PAGE_LIMIT
         /\ Answer(r, P, [since |-> job[r].sync_point, last_seen_id |-> None])

\* A full page: the device is told the place of the last row in the page.
PullPage(r) ==
    /\ phase[r] = "pull"
    /\ \E P \in Pages(Matching(r)) :
         /\ Cardinality(P) = PAGE_LIMIT
         /\ \E k \in P :
              /\ IsLast(k, P)
              /\ Answer(r, P, [since |-> rows[k].server_updated_at,
                               last_seen_id |-> k[2]])

\* The request is over: its slot, locals and transaction are gone.
Done(r) ==
    /\ phase' = [phase EXCEPT ![r] = "idle"]
    /\ job' = [job EXCEPT ![r] = None]
    /\ resp' = [resp EXCEPT ![r] = None]

\* The response arrives.  A device that has given the request up drops it;
\* one that waits for it merges the changes and keeps the new cursor.
Deliver(r) ==
    LET d == job[r].device
    IN  /\ phase[r] = "reply"
        /\ Done(r)
        /\ IF wait[d] = r
           THEN /\ wait' = [wait EXCEPT ![d] = None]
                /\ cursor' = [cursor EXCEPT ![d] = resp[r].cursor]
                /\ view' = [view EXCEPT ![d] = Merge(@, resp[r].changes)]
                /\ late' = [late EXCEPT ![d] = @ \cup resp[r].late]
           ELSE UNCHANGED deviceVars
        /\ UNCHANGED <<now, rows, lock, writes>>

\* Roll back whatever is uncommitted and answer 500, or not at all.
Abort(r) ==
    /\ Done(r)
    /\ lock' = Released(r)
    /\ writes' = [writes EXCEPT ![r] = EmptyTable]
    /\ wait' = [d \in Device |-> IF wait[d] = r THEN None ELSE wait[d]]
    /\ UNCHANGED <<now, rows, cursor, view, late>>

\* A database error other than the first IntegrityError, a crash of the
\* process or a lost connection, at any point of the handler.
Fail(r) == phase[r] # "idle" /\ Abort(r)

Waits(r, q) == r # q /\ HasNext(r) /\ lock[NextKey(r)] = q

OnCycle(r) ==
    \E S \in SUBSET Req :
        /\ r \in S
        /\ \A p \in S : (\E q \in S : Waits(p, q)) /\ (\E q \in S : Waits(q, p))

\* PostgreSQL aborts a transaction of a cycle of waiting transactions; the
\* error is not an IntegrityError, so the handler does not retry it.
DeadlockAbort(r) == OnCycle(r) /\ Abort(r)

\* The device stops waiting (a timeout); the request runs on.
GiveUp(d) ==
    /\ wait[d] # None
    /\ wait' = [wait EXCEPT ![d] = None]
    /\ UNCHANGED <<serverVars, cursor, view, late>>

Next ==
    \/ \E r \in Req, d \in Device, changes \in Batches : Receive(r, d, changes)
    \/ \E r \in Req : Upsert(r)
    \/ \E r \in Req : IntegrityRetry(r)
    \/ \E r \in Req : Commit(r)
    \/ \E r \in Req : PullRest(r)
    \/ \E r \in Req : PullPage(r)
    \/ \E r \in Req : Deliver(r)
    \/ \E r \in Req : Fail(r)
    \/ \E r \in Req : DeadlockAbort(r)
    \/ \E d \in Device : GiveUp(d)

Spec == Init /\ [][Next]_vars

(***************************************************************************)
(* A handler that can go on does: the event loop is fair, a lock request   *)
(* that keeps becoming grantable is granted (the lock queue of PostgreSQL  *)
(* is first come, first served), and the deadlock detector runs.  Nothing  *)
(* makes a device post, a request fail or a device give up.                *)
(***************************************************************************)
Fairness ==
    \A r \in Req : /\ SF_vars(Upsert(r))
                   /\ WF_vars(Commit(r))
                   /\ WF_vars(PullRest(r))
                   /\ WF_vars(PullPage(r))
                   /\ WF_vars(Deliver(r))
                   /\ WF_vars(DeadlockAbort(r))

FairSpec == Spec /\ Fairness

-----------------------------------------------------------------------------
(* Properties *)

\* A slot in use has its locals and, at the end, its answer; only a pushing
\* request has an open transaction (locks and uncommitted rows).
SlotOK(r) ==
    /\ phase[r] # "idle" => job[r] \in Job
    /\ phase[r] = "reply" => resp[r] \in Resp
    /\ phase[r] # "push" => /\ writes[r] = EmptyTable
                            /\ \A k \in Key : lock[k] # r

\* The state has the types of the table and of the handlers' locals.
TypeOK ==
    /\ now \in Nat
    /\ rows \in Table
    /\ lock \in [Key -> Req \cup {None}]
    /\ writes \in [Req -> Table]
    /\ phase \in [Req -> {"idle", "push", "pull", "reply"}]
    /\ job \in [Req -> Job \cup {None}]
    /\ resp \in [Req -> Resp \cup {None}]
    /\ wait \in [Device -> Req \cup {None}]
    /\ cursor \in [Device -> Cursor]
    /\ view \in [Device -> Table]
    /\ late \in [Device -> SUBSET Nat]
    /\ \A r \in Req : SlotOK(r)

\* No client clock, however wrong, puts a stored record further ahead of the
\* server time it was stored at than the tolerance (CLAMP_TOLERANCE_MINUTES).
SkewBounded ==
    \A k \in Key : rows[k] # None =>
        rows[k].updated_at <= rows[k].server_updated_at + CLAMP_TOLERANCE

\* Change i of request r is stored, or has lost to a record at least as late.
Landed(r, i) ==
    LET c == job[r].changes[i]
        k == ChangeKey(r, c)
    IN  /\ rows[k] # None
        /\ rows[k].updated_at >= Clamp(c.updated_at, job[r].sync_point)

\* Once a push is committed, each of its changes is stored or has lost to a
\* record with at least its (clamped) time, whatever other requests, retries
\* and aborts come between the commit and the answer.
PushedBeforeReply ==
    \A r \in Req : phase[r] \in {"pull", "reply"} =>
        \A i \in 1 .. Len(job[r].changes) : Landed(r, i)

\* What a device's cursor has passed, the device has been told: a record at or
\* before the cursor is in the device's view as it is stored, unless its stamp
\* is one of a push that was still in flight when the device's page was read.
OnlyLateCommitsMissed ==
    \A d \in Device, k \in Key :
        ( /\ k[1] = Owner[d]
          /\ rows[k] # None
          /\ ~After(k[2], rows[k], cursor[d]) )
        => \/ view[d][k] = rows[k]
           \/ rows[k].server_updated_at \in late[d]

\* The same without the exception: the sync point a device gets is one to
\* resume from (schemas/sync.py: "The server's current timestamp to use as
\* 'since' in the next sync.").
NothingMissed ==
    \A d \in Device, k \in Key :
        ( /\ k[1] = Owner[d]
          /\ rows[k] # None
          /\ ~After(k[2], rows[k], cursor[d]) )
        => view[d][k] = rows[k]

\* The cursor of an answer lies beyond the cursor of the request, in the order
\* (server_updated_at, id) of the pull: paging makes progress with every page
\* and a device never goes back.
AnswersAdvance ==
    \A r \in Req : phase[r] = "reply" =>
        LET new == resp[r].cursor
            old == job[r].cursor
        IN  \/ new.since > old.since
            \/ /\ new.since = old.since
               /\ new.last_seen_id # None /\ old.last_seen_id # None
               /\ new.last_seen_id > old.last_seen_id

\* A device is only ever told of its own user's records.
UserIsolation ==
    \A d \in Device, k \in Key :
        view[d][k] # None => /\ k[1] = Owner[d]
                             /\ Owner[view[d][k].data] = Owner[d]

\* A device's later edit is not lost to its own earlier one: after a push, the
\* stored record is not an older edit of that device (last write wins; the
\* clamp is to "server time + tolerance", sync.py).
OwnEditsInOrder ==
    \A r \in Req : phase[r] \in {"pull", "reply"} =>
        \A i \in 1 .. Len(job[r].changes) :
            LET c == job[r].changes[i]
                k == ChangeKey(r, c)
            IN  ~ /\ rows[k] # None
                  /\ rows[k].data = job[r].device
                  /\ rows[k].server_updated_at < job[r].sync_point
                  /\ rows[k].updated_at < c.updated_at

\* Last write wins: the time of a stored record never goes back, and no record
\* disappears.
UpdatedAtMonotone ==
    [][\A k \in Key : rows[k] # None =>
          /\ rows'[k] # None
          /\ rows'[k].updated_at >= rows[k].updated_at]_vars

\* A device never goes back to an older edit of a record, and forgets none,
\* however its answers are delayed, lost and overtaken by other requests.
ViewsAdvance ==
    [][\A d \in Device, k \in Key : view[d][k] # None =>
          /\ view'[d][k] # None
          /\ view'[d][k].updated_at >= view[d][k].updated_at]_vars

\* Every request ends, whatever locks it contends for: no deadlock of batches
\* in opposite orders, no endless retry.
RequestsEnd ==
    \A r \in Req : phase[r] # "idle" ~> phase[r] = "idle"

(***************************************************************************)
(* The handlers implement the store.  A push takes effect when it is       *)
(* committed, with all of its changes; the records on their way to a       *)
(* device are those of the answer it waits for.                            *)
(***************************************************************************)
Copy(d) == IF wait[d] # None /\ phase[wait[d]] = "reply"
           THEN resp[wait[d]].changes ELSE EmptyTable

Store ==
    INSTANCE RecordStore
    WITH Time <- 1 .. MaxTime,
         copy <- [d \in Device |-> Copy(d)]

ImplementsStore == Store!Spec

-----------------------------------------------------------------------------
(***************************************************************************)
(* The inductive invariant.  Each part is what keeps the invariants above  *)
(* true under every step; together they are Inductive.                     *)
(***************************************************************************)

\* No stamp is ahead of the clock, and a request is later than its cursor.
Stamps ==
    /\ \A k \in Key : rows[k] # None => rows[k].server_updated_at <= now
    /\ \A d \in Device : cursor[d].since <= now
    /\ \A r \in Req :
         /\ phase[r] # "idle" => /\ job[r].sync_point <= now
                                /\ job[r].cursor.since < job[r].sync_point
         /\ phase[r] = "reply" => resp[r].cursor.since <= now

\* An uncommitted row is stamped with its request's sync point, is protected
\* by the lock of its key, and does not lose to the committed row.
Transactions ==
    \A r \in Req, k \in Key :
        LET w == writes[r][k]
        IN  w # None =>
              /\ phase[r] = "push"
              /\ lock[k] = r
              /\ w.server_updated_at = job[r].sync_point
              /\ w.data = job[r].device
              /\ k[1] = Owner[job[r].device]
              /\ w.updated_at <= w.server_updated_at + CLAMP_TOLERANCE
              /\ rows[k] # None => w.updated_at >= rows[k].updated_at

\* The same of an open transaction, whose lock on the record keeps it so.
Passed(r, i) ==
    LET c == job[r].changes[i]
        k == ChangeKey(r, c)
    IN  /\ lock[k] = r
        /\ Visible(r, k) # None
        /\ Visible(r, k).updated_at >= Clamp(c.updated_at, job[r].sync_point)

\* The changes a push has been through are locked, and stored or beaten.
Progress ==
    \A r \in Req : phase[r] = "push" =>
        \A i \in 1 .. Len(job[r].changes) : i < job[r].idx => Passed(r, i)

\* A device waits for a live request of its own, made with its cursor.
Waiting ==
    \A d \in Device : wait[d] # None =>
        /\ phase[wait[d]] # "idle"
        /\ job[wait[d]].device = d
        /\ job[wait[d]].cursor = cursor[d]

\* Stored records, and those on their way to a device, belong to their user.
Owned ==
    /\ \A k \in Key : rows[k] # None => Owner[rows[k].data] = k[1]
    /\ \A r \in Req, k \in Key :
         ( phase[r] = "reply" /\ resp[r].changes[k] # None )
         => /\ k[1] = Owner[job[r].device]
            /\ Owner[resp[r].changes[k].data] = k[1]

\* A push in flight below a cursor is known as late, at the device and in
\* the answer that carries the cursor.
LateKnown ==
    \A q \in Req : phase[q] = "push" =>
        /\ \A d \in Device : job[q].sync_point <= cursor[d].since
                              => job[q].sync_point \in late[d]
        /\ \A r \in Req :
             ( phase[r] = "reply" /\ job[q].sync_point <= resp[r].cursor.since )
             => job[q].sync_point \in resp[r].late

\* What OnlyLateCommitsMissed will say of a device that merges the answer it
\* waits for.
AnswersComplete ==
    \A d \in Device, k \in Key :
        LET r == wait[d]
        IN  ( /\ r # None
              /\ phase[r] = "reply"
              /\ k[1] = Owner[d]
              /\ rows[k] # None
              /\ ~After(k[2], rows[k], resp[r].cursor) )
            => \/ Merge(view[d], resp[r].changes)[k] = rows[k]
               \/ rows[k].server_updated_at \in late[d] \cup resp[r].late

Inductive ==
    /\ TypeOK
    /\ SkewBounded
    /\ Stamps
    /\ Transactions
    /\ Progress
    /\ PushedBeforeReply
    /\ Waiting
    /\ Owned
    /\ UserIsolation
    /\ AnswersAdvance
    /\ LateKnown
    /\ AnswersComplete
    /\ OnlyLateCommitsMissed

(***************************************************************************)
(* What makes a push atomic: an open transaction sees, of every record,    *)
(* the latest of the changes it has been through, or the committed row if  *)
(* that is later than all of them.                                         *)
(***************************************************************************)
PassedRows(r, k) ==
    {Store!Stamped(job[r].device, job[r].sync_point, job[r].changes[i]) :
        i \in {j \in 1 .. Len(job[r].changes) :
                /\ j < job[r].idx
                /\ ChangeKey(r, job[r].changes[j]) = k}}

BatchesMerge ==
    \A r \in Req, k \in Key : phase[r] = "push" =>
        Visible(r, k) \in Store!Winners(rows[k], PassedRows(r, k))
===============================================================================
