-------------------------- MODULE RecordSyncProofs --------------------------
(***************************************************************************)
(* Proofs about RecordSync, for any devices, users, ids, batches, page     *)
(* size, tolerance and number of requests at a time.                       *)
(***************************************************************************)
EXTENDS RecordSync, FiniteSetTheorems, WellFoundedInduction, TLAPS

-----------------------------------------------------------------------------
(* Type correctness *)

\* An element of a sequence over S is in S.
LEMMA SeqElement ==
    ASSUME NEW S, NEW s \in Seq(S), NEW i \in 1 .. Len(s)
    PROVE  s[i] \in S
OBVIOUS

\* What the type invariant says of a request in flight.
LEMMA JobTypes ==
    ASSUME TypeOK, NEW r \in Req, phase[r] # "idle"
    PROVE  /\ job[r] \in Job
           /\ job[r].device \in Device
           /\ job[r].sync_point \in Nat \ {0}
           /\ job[r].cursor \in Cursor
           /\ job[r].changes \in Seq([id : Id, updated_at : Nat])
           /\ job[r].idx \in Nat \ {0}
           /\ Owner[job[r].device] \in User
BY ConstantsAssumption DEF TypeOK, SlotOK, Job

\* The change a push is at, and its key.
LEMMA NextChange ==
    ASSUME TypeOK, NEW r \in Req, HasNext(r)
    PROVE  /\ job[r].changes[job[r].idx] \in [id : Id, updated_at : Nat]
           /\ NextKey(r) \in Key
<1>1. phase[r] # "idle"  BY DEF HasNext
<1>2. job[r].idx \in 1 .. Len(job[r].changes)
  BY <1>1, JobTypes DEF HasNext
<1>3. job[r].changes[job[r].idx] \in [id : Id, updated_at : Nat]
  BY <1>1, <1>2, JobTypes, SeqElement
<1>4. NextKey(r) = <<Owner[job[r].device], job[r].changes[job[r].idx].id>>
  BY DEF NextKey, ChangeKey
<1> QED  BY <1>1, <1>3, <1>4, JobTypes DEF Key

\* The clamp yields a time at most the tolerance ahead of the sync point.
LEMMA ClampType ==
    ASSUME NEW t \in Nat, NEW p \in Nat
    PROVE  /\ Clamp(t, p) \in Nat
           /\ Clamp(t, p) <= p + CLAMP_TOLERANCE
BY ConstantsAssumption DEF Clamp

\* A table merged with a table is a table.
LEMMA MergeType ==
    ASSUME NEW old \in Table, NEW new \in Table
    PROVE  Merge(old, new) \in Table
BY DEF Merge, Table

\* The table without rows is a table.
LEMMA EmptyTableType == EmptyTable \in Table
BY DEF EmptyTable, Table

\* A page holds rows of the request's user that lie after its cursor.
LEMMA PageSubset ==
    ASSUME TypeOK, NEW r \in Req, NEW P \in Pages(Matching(r))
    PROVE  /\ P \subseteq Matching(r)
           /\ \A k \in P : k \in Key /\ rows[k] \in Row
                           /\ k[1] = Owner[job[r].device]
                           /\ After(k[2], rows[k], job[r].cursor)
BY DEF Pages, Matching, TypeOK, Table

\* The types hold initially.
LEMMA InitTypeOK == Init => TypeOK
BY EmptyTableType, NoneAssumption
   DEF Init, TypeOK, SlotOK, StartCursor, Cursor

\* A request that comes in keeps the types.
LEMMA ReceiveTypeOK ==
    ASSUME TypeOK, NEW r \in Req, NEW d \in Device, NEW changes \in Batches,
           Receive(r, d, changes)
    PROVE  TypeOK'
<1> DEFINE j == [device |-> d, sync_point |-> now + 1, cursor |-> cursor[d],
                 changes |-> changes, idx |-> 1, retried |-> FALSE]
<1>1. j \in Job
  BY DEF TypeOK, Job
<1>2. job' = [job EXCEPT ![r] = j]  BY DEF Receive
<1>3. job'[r] \in Job /\ job' \in [Req -> Job \cup {None}]
  BY <1>1, <1>2 DEF TypeOK
<1>4. phase' \in [Req -> {"idle", "push", "pull", "reply"}]
  BY DEF TypeOK, Receive
<1>5. \A q \in Req \ {r} : phase'[q] = phase[q] /\ job'[q] = job[q]
  BY <1>2 DEF TypeOK, Receive
<1>6. phase[r] = "idle" /\ phase'[r] \in {"push", "pull"}
  BY DEF TypeOK, Receive
<1>7. writes' = writes /\ lock' = lock /\ resp' = resp /\ writes[r] = EmptyTable
      /\ \A k \in Key : lock[k] # r
  BY <1>6 DEF TypeOK, SlotOK, Receive
<1>8. \A q \in Req : SlotOK(q)'
  <2> TAKE q \in Req
  <2>1. CASE q = r  BY <2>1, <1>3, <1>6, <1>7 DEF SlotOK
  <2>2. CASE q # r  BY <2>2, <1>5, <1>7 DEF TypeOK, SlotOK
  <2> QED  BY <2>1, <2>2
<1>9. now' \in Nat /\ wait' \in [Device -> Req \cup {None}]
  BY DEF TypeOK, Receive
<1> QED  BY <1>3, <1>4, <1>8, <1>9 DEF TypeOK, Receive

\* An upsert keeps the types: the row it writes is one of the table's.
LEMMA UpsertTypeOK ==
    ASSUME TypeOK, NEW r \in Req, Upsert(r)
    PROVE  TypeOK'
<1> DEFINE k == NextKey(r)
           c == job[r].changes[job[r].idx]
           new == [updated_at |-> Clamp(c.updated_at, job[r].sync_point),
                   server_updated_at |-> job[r].sync_point,
                   data |-> job[r].device]
<1>1. HasNext(r) /\ phase[r] = "push"  BY DEF Upsert, HasNext
<1>2. k \in Key /\ new \in Row
  BY <1>1, JobTypes, NextChange, ClampType DEF Row
<1>3. job'[r] \in Job /\ job' \in [Req -> Job \cup {None}]
  <2>1. [job[r] EXCEPT !.idx = @ + 1] \in Job
    BY <1>1, JobTypes DEF Job
  <2>2. job' = [job EXCEPT ![r] = [job[r] EXCEPT !.idx = @ + 1]]
    BY DEF Upsert
  <2> QED  BY <2>1, <2>2 DEF TypeOK
<1>4. writes' \in [Req -> Table]
  BY <1>2 DEF Upsert, TypeOK, Table
<1>5. lock' \in [Key -> Req \cup {None}]
  BY <1>2 DEF Upsert, TypeOK
<1>6. \A q \in Req \ {r} : job'[q] = job[q] /\ writes'[q] = writes[q]
  BY DEF Upsert, TypeOK
<1>7. \A m \in Key : lock'[m] \in {lock[m], r}
  BY <1>2 DEF Upsert, TypeOK
<1>8. UNCHANGED <<now, rows, phase, resp, wait, cursor, view, late>>
  BY DEF Upsert, deviceVars
<1>9. \A q \in Req : SlotOK(q)'
  <2> TAKE q \in Req
  <2>1. CASE q = r  BY <2>1, <1>1, <1>3, <1>8 DEF SlotOK
  <2>2. CASE q # r  BY <2>2, <1>6, <1>7, <1>8 DEF TypeOK, SlotOK
  <2> QED  BY <2>1, <2>2
<1> QED  BY <1>3, <1>4, <1>5, <1>8, <1>9 DEF TypeOK

\* The same transition of a request's locks and rows ends every transaction.
LEMMA Rollback ==
    ASSUME TypeOK, NEW r \in Req,
           lock' = Released(r), writes' = [writes EXCEPT ![r] = EmptyTable]
    PROVE  /\ lock' \in [Key -> Req \cup {None}]
           /\ writes' \in [Req -> Table]
           /\ writes'[r] = EmptyTable
           /\ \A q \in Req \ {r} : writes'[q] = writes[q]
           /\ \A k \in Key : lock'[k] = IF lock[k] = r THEN None ELSE lock[k]
           /\ \A k \in Key : lock'[k] # r
<1>1. None # r  BY NoneAssumption
<1> QED  BY <1>1, EmptyTableType DEF TypeOK, Released

\* Other requests' slots do not notice.
LEMMA RollbackOthers ==
    ASSUME TypeOK, NEW r \in Req,
           lock' = Released(r), writes' = [writes EXCEPT ![r] = EmptyTable],
           NEW q \in Req \ {r},
           phase'[q] = phase[q], job'[q] = job[q], resp'[q] = resp[q]
    PROVE  SlotOK(q)'
<1>1. SlotOK(q) /\ q # None  BY NoneAssumption DEF TypeOK
<1>2. /\ writes'[q] = writes[q]
      /\ \A k \in Key : lock'[k] = IF lock[k] = r THEN None ELSE lock[k]
  BY Rollback
<1> QED  BY <1>1, <1>2 DEF SlotOK

\* The second attempt of a batch keeps the types.
LEMMA IntegrityRetryTypeOK ==
    ASSUME TypeOK, NEW r \in Req, IntegrityRetry(r)
    PROVE  TypeOK'
<1>1. phase[r] = "push" /\ phase[r] # "idle"  BY DEF IntegrityRetry
<1>2. /\ lock' = Released(r) /\ writes' = [writes EXCEPT ![r] = EmptyTable]
      /\ UNCHANGED <<now, rows, phase, resp, wait, cursor, view, late>>
  BY DEF IntegrityRetry, deviceVars
<1> DEFINE j1 == [job[r] EXCEPT !.idx = 1]
           j2 == [j1 EXCEPT !.retried = TRUE]
<1>3. j2 \in Job
  <2>1. job[r] \in Job  BY <1>1, JobTypes
  <2>2. j1 \in Job  BY <2>1 DEF Job
  <2> QED  BY <2>2 DEF Job
<1>4. job' = [job EXCEPT ![r] = j2]
  <2>1. j2 = [job[r] EXCEPT !.idx = 1, !.retried = TRUE]  OBVIOUS
  <2> QED  BY <2>1 DEF IntegrityRetry
<1>5. /\ job' \in [Req -> Job \cup {None}] /\ job'[r] \in Job
      /\ \A q \in Req \ {r} : job'[q] = job[q]
  BY <1>3, <1>4 DEF TypeOK
<1>6. \A q \in Req : SlotOK(q)'
  <2> TAKE q \in Req
  <2>1. CASE q = r  BY <2>1, <1>1, <1>2, <1>5 DEF SlotOK
  <2>2. CASE q # r  BY <2>2, <1>2, <1>5, RollbackOthers
  <2> QED  BY <2>1, <2>2
<1> QED  BY <1>2, <1>5, <1>6, Rollback DEF TypeOK

\* A commit keeps the types.
LEMMA CommitTypeOK ==
    ASSUME TypeOK, NEW r \in Req, Commit(r)
    PROVE  TypeOK'
<1>1. /\ lock' = Released(r) /\ writes' = [writes EXCEPT ![r] = EmptyTable]
      /\ rows' = Merge(rows, writes[r])
      /\ phase[r] = "push" /\ phase' = [phase EXCEPT ![r] = "pull"]
      /\ UNCHANGED <<now, job, resp, wait, cursor, view, late>>
  BY DEF Commit, deviceVars
<1>2. rows' \in Table  BY <1>1, MergeType DEF TypeOK
<1>3. phase' \in [Req -> {"idle", "push", "pull", "reply"}]
  BY <1>1 DEF TypeOK
<1>4. \A q \in Req : SlotOK(q)'
  <2> TAKE q \in Req
  <2>1. CASE q = r
    <3>1. /\ writes'[r] = EmptyTable /\ \A k \in Key : lock'[k] # r
          /\ phase'[r] = "pull" /\ job'[r] \in Job
      BY <1>1, Rollback DEF TypeOK, SlotOK
    <3> QED  BY <2>1, <3>1 DEF SlotOK
  <2>2. CASE q # r
    <3>1. phase'[q] = phase[q] /\ job'[q] = job[q] /\ resp'[q] = resp[q]
      BY <2>2, <1>1 DEF TypeOK
    <3> QED  BY <2>2, <3>1, <1>1, RollbackOthers
  <2> QED  BY <2>1, <2>2
<1> QED  BY <1>1, <1>2, <1>3, <1>4, Rollback DEF TypeOK

\* Both kinds of page lead to an answer of the right type.
LEMMA AnswerTypeOK ==
    ASSUME TypeOK, NEW r \in Req, phase[r] = "pull",
           NEW P \in Pages(Matching(r)), NEW next \in Cursor, Answer(r, P, next)
    PROVE  TypeOK'
<1> DEFINE a == [cursor  |-> next,
                 changes |-> [k \in Key |-> IF k \in P THEN rows[k] ELSE None],
                 late    |-> InFlight(next.since)]
<1>1. [k \in Key |-> IF k \in P THEN rows[k] ELSE None] \in Table
  BY PageSubset DEF Table
<1>2. InFlight(next.since) \in SUBSET Nat
  BY JobTypes DEF InFlight
<1>3. a \in Resp  BY <1>1, <1>2 DEF Resp
<1>4. /\ resp' = [resp EXCEPT ![r] = a] /\ phase' = [phase EXCEPT ![r] = "reply"]
      /\ UNCHANGED <<now, rows, lock, writes, job, wait, cursor, view, late>>
  BY DEF Answer, deviceVars
<1> HIDE DEF a
<1>5. /\ phase' \in [Req -> {"idle", "push", "pull", "reply"}]
      /\ resp' \in [Req -> Resp \cup {None}]
  BY <1>3, <1>4 DEF TypeOK
<1>6. \A q \in Req : SlotOK(q)'
  BY <1>3, <1>4 DEF TypeOK, SlotOK
<1> QED  BY <1>4, <1>5, <1>6 DEF TypeOK

\* The cursor of a page that is not full is a cursor.
LEMMA PullRestNext ==
    ASSUME TypeOK, NEW r \in Req, PullRest(r)
    PROVE  \E P \in Pages(Matching(r)), next \in Cursor :
             /\ phase[r] = "pull" /\ Cardinality(P) # PAGE_LIMIT
             /\ next = [since |-> job[r].sync_point, last_seen_id |-> None]
             /\ Answer(r, P, next)
<1>1. phase[r] # "idle"  BY DEF PullRest
<1>2. [since |-> job[r].sync_point, last_seen_id |-> None] \in Cursor
  BY <1>1, JobTypes DEF Cursor
<1> QED  BY <1>2 DEF PullRest

\* The cursor of a full page, the place of its last row, is a cursor.
LEMMA PullPageNext ==
    ASSUME TypeOK, NEW r \in Req, PullPage(r)
    PROVE  \E P \in Pages(Matching(r)), next \in Cursor : \E k \in P :
             /\ phase[r] = "pull" /\ IsLast(k, P)
             /\ next = [since |-> rows[k].server_updated_at, last_seen_id |-> k[2]]
             /\ Answer(r, P, next)
<1>1. PICK P \in Pages(Matching(r)) : \E k \in P :
        /\ phase[r] = "pull" /\ IsLast(k, P)
        /\ Answer(r, P, [since |-> rows[k].server_updated_at,
                         last_seen_id |-> k[2]])
  BY DEF PullPage
<1>2. PICK k \in P :
        /\ phase[r] = "pull" /\ IsLast(k, P)
        /\ Answer(r, P, [since |-> rows[k].server_updated_at,
                         last_seen_id |-> k[2]])
  BY <1>1
<1>3. [since |-> rows[k].server_updated_at, last_seen_id |-> k[2]] \in Cursor
  BY <1>2, PageSubset DEF Cursor, Row, Key
<1> QED  BY <1>2, <1>3

\* The delivery of an answer keeps the types.
LEMMA DeliverTypeOK ==
    ASSUME TypeOK, NEW r \in Req, Deliver(r)
    PROVE  TypeOK'
<1> DEFINE d == job[r].device
<1>1. phase[r] = "reply" /\ phase[r] # "idle" /\ resp[r] \in Resp
  BY DEF Deliver, TypeOK, SlotOK
<1>2. d \in Device  BY <1>1, JobTypes
<1>3. /\ phase' = [phase EXCEPT ![r] = "idle"]
      /\ job' = [job EXCEPT ![r] = None]
      /\ resp' = [resp EXCEPT ![r] = None]
      /\ UNCHANGED <<now, rows, lock, writes>>
  BY DEF Deliver, Done
<1>4. /\ wait' \in [Device -> Req \cup {None}]
      /\ cursor' \in [Device -> Cursor]
      /\ view' \in [Device -> Table]
      /\ late' \in [Device -> SUBSET Nat]
  <2>1. CASE wait[d] # r
    BY <2>1 DEF Deliver, TypeOK, deviceVars
  <2>2. CASE wait[d] = r
    <3>1. /\ wait' = [wait EXCEPT ![d] = None]
          /\ cursor' = [cursor EXCEPT ![d] = resp[r].cursor]
          /\ view' = [view EXCEPT ![d] = Merge(view[d], resp[r].changes)]
          /\ late' = [late EXCEPT ![d] = late[d] \cup resp[r].late]
      BY <2>2 DEF Deliver
    <3>2. /\ resp[r].cursor \in Cursor /\ resp[r].late \in SUBSET Nat
          /\ Merge(view[d], resp[r].changes) \in Table
      BY <1>1, <1>2, MergeType DEF TypeOK, Resp
    <3> QED  BY <3>1, <3>2 DEF TypeOK
  <2> QED  BY <2>1, <2>2
<1>5. /\ phase' \in [Req -> {"idle", "push", "pull", "reply"}]
      /\ job' \in [Req -> Job \cup {None}]
      /\ resp' \in [Req -> Resp \cup {None}]
  BY <1>3 DEF TypeOK
<1>6. \A q \in Req : SlotOK(q)'
  BY <1>1, <1>3 DEF TypeOK, SlotOK
<1> QED  BY <1>3, <1>4, <1>5, <1>6 DEF TypeOK

\* A request that ends without an answer keeps the types.
LEMMA AbortTypeOK ==
    ASSUME TypeOK, NEW r \in Req, Abort(r)
    PROVE  TypeOK'
<1>1. /\ phase' = [phase EXCEPT ![r] = "idle"]
      /\ job' = [job EXCEPT ![r] = None]
      /\ resp' = [resp EXCEPT ![r] = None]
      /\ lock' = Released(r) /\ writes' = [writes EXCEPT ![r] = EmptyTable]
      /\ wait' = [d \in Device |-> IF wait[d] = r THEN None ELSE wait[d]]
      /\ UNCHANGED <<now, rows, cursor, view, late>>
  BY DEF Abort, Done
<1>2. /\ phase' \in [Req -> {"idle", "push", "pull", "reply"}]
      /\ job' \in [Req -> Job \cup {None}]
      /\ resp' \in [Req -> Resp \cup {None}]
      /\ wait' \in [Device -> Req \cup {None}]
  BY <1>1 DEF TypeOK
<1>3. \A q \in Req : SlotOK(q)'
  <2> TAKE q \in Req
  <2>1. CASE q = r
    <3>1. /\ writes'[r] = EmptyTable /\ \A k \in Key : lock'[k] # r
          /\ phase'[r] = "idle"
      BY <1>1, Rollback DEF TypeOK
    <3> QED  BY <2>1, <3>1 DEF SlotOK
  <2>2. CASE q # r
    <3>1. phase'[q] = phase[q] /\ job'[q] = job[q] /\ resp'[q] = resp[q]
      BY <2>2, <1>1 DEF TypeOK
    <3> QED  BY <2>2, <3>1, <1>1, RollbackOthers
  <2> QED  BY <2>1, <2>2
<1>4. /\ lock' \in [Key -> Req \cup {None}]
      /\ writes' \in [Req -> Table]
  BY <1>1, Rollback
<1> QED  BY <1>1, <1>2, <1>3, <1>4 DEF TypeOK

\* A device that gives a request up keeps the types.
LEMMA GiveUpTypeOK ==
    ASSUME TypeOK, NEW d \in Device, GiveUp(d)
    PROVE  TypeOK'
<1>1. \A q \in Req : SlotOK(q)'
  BY DEF TypeOK, SlotOK, GiveUp, serverVars
<1> QED  BY <1>1 DEF TypeOK, GiveUp, serverVars

-----------------------------------------------------------------------------
(* What each action does, field by field *)

\* What a request that comes in changes, and what it leaves.
LEMMA ReceiveEffect ==
    ASSUME TypeOK, NEW r \in Req, NEW d \in Device, NEW changes \in Batches,
           Receive(r, d, changes)
    PROVE  /\ phase[r] = "idle" /\ phase'[r] \in {"push", "pull"}
           /\ phase'[r] = "pull" => changes = <<>>
           /\ job'[r].device = d /\ job'[r].sync_point = now + 1
           /\ job'[r].cursor = cursor[d] /\ job'[r].changes = changes
           /\ job'[r].idx = 1
           /\ now' = now + 1
           /\ wait[d] = None /\ wait'[d] = r
           /\ \A e \in Device \ {d} : wait'[e] = wait[e]
           /\ \A q \in Req \ {r} : phase'[q] = phase[q] /\ job'[q] = job[q]
           /\ UNCHANGED <<rows, lock, writes, resp, cursor, view, late>>
BY DEF TypeOK, Receive

\* What an upsert changes, and what it leaves: one lock, at most one
\* uncommitted row, the progress of its request.
LEMMA UpsertEffect ==
    ASSUME TypeOK, NEW r \in Req, Upsert(r)
    PROVE  LET k == NextKey(r)
               c == job[r].changes[job[r].idx]
           IN  /\ phase[r] = "push" /\ job[r].idx \in 1 .. Len(job[r].changes)
               /\ k \in Key /\ c \in [id : Id, updated_at : Nat]
               /\ lock[k] \in {None, r} /\ lock'[k] = r
               /\ \A m \in Key \ {k} : /\ lock'[m] = lock[m]
                                       /\ writes'[r][m] = writes[r][m]
               /\ \A q \in Req \ {r} : job'[q] = job[q] /\ writes'[q] = writes[q]
               /\ job'[r] = [job[r] EXCEPT !.idx = @ + 1]
               /\ UNCHANGED <<now, rows, phase, resp, wait, cursor, view, late>>
<1>1. HasNext(r) /\ phase[r] = "push" /\ phase[r] # "idle"
  BY DEF Upsert, HasNext
<1>2. job[r].idx \in 1 .. Len(job[r].changes)
  BY <1>1, JobTypes DEF HasNext
<1>3. /\ NextKey(r) \in Key
      /\ job[r].changes[job[r].idx] \in [id : Id, updated_at : Nat]
  BY <1>1, NextChange
<1>4. UNCHANGED <<now, rows, phase, resp, wait, cursor, view, late>>
  BY DEF Upsert, deviceVars
<1>5. /\ lock[NextKey(r)] \in {None, r} /\ lock' = [lock EXCEPT ![NextKey(r)] = r]
      /\ job' = [job EXCEPT ![r] = [job[r] EXCEPT !.idx = @ + 1]]
  BY DEF Upsert
<1>6. \A q \in Req \ {r} : writes'[q] = writes[q]
  BY DEF Upsert, TypeOK
<1>7. \A m \in Key \ {NextKey(r)} : writes'[r][m] = writes[r][m]
  BY DEF Upsert, TypeOK, Table
<1> QED  BY <1>1, <1>2, <1>3, <1>4, <1>5, <1>6, <1>7 DEF TypeOK

\* The row an upsert is about, before and after.
LEMMA UpsertRow ==
    ASSUME TypeOK, NEW r \in Req, Upsert(r)
    PROVE  LET k == NextKey(r)
               c == job[r].changes[job[r].idx]
               new == [updated_at |-> Clamp(c.updated_at, job[r].sync_point),
                       server_updated_at |-> job[r].sync_point,
                       data |-> job[r].device]
           IN  /\ new \in Row /\ new # None
               /\ \/ writes'[r][k] = new /\ Wins(new, Visible(r, k))
                  \/ writes'[r][k] = writes[r][k] /\ ~Wins(new, Visible(r, k))
<1> DEFINE k == NextKey(r)
           c == job[r].changes[job[r].idx]
           new == [updated_at |-> Clamp(c.updated_at, job[r].sync_point),
                   server_updated_at |-> job[r].sync_point,
                   data |-> job[r].device]
<1>1. HasNext(r) /\ phase[r] # "idle"  BY DEF Upsert, HasNext
<1>2. k \in Key /\ new \in Row
  BY <1>1, JobTypes, NextChange, ClampType DEF Row
<1>3. new # None  BY <1>2, NoneAssumption
<1>4. writes' = IF Wins(new, Visible(r, k))
                THEN [writes EXCEPT ![r][k] = new]
                ELSE writes
  BY DEF Upsert
<1> QED  BY <1>2, <1>3, <1>4 DEF TypeOK, Table

\* What the second attempt changes, and what it leaves.
LEMMA IntegrityRetryEffect ==
    ASSUME TypeOK, NEW r \in Req, IntegrityRetry(r)
    PROVE  /\ phase[r] = "push"
           /\ job'[r].device = job[r].device /\ job'[r].cursor = job[r].cursor
           /\ job'[r].sync_point = job[r].sync_point
           /\ job'[r].changes = job[r].changes /\ job'[r].idx = 1
           /\ \A q \in Req \ {r} : job'[q] = job[q] /\ writes'[q] = writes[q]
           /\ writes'[r] = EmptyTable
           /\ \A k \in Key : lock'[k] = IF lock[k] = r THEN None ELSE lock[k]
           /\ UNCHANGED <<now, rows, phase, resp, wait, cursor, view, late>>
<1>1. /\ phase[r] = "push"
      /\ lock' = Released(r) /\ writes' = [writes EXCEPT ![r] = EmptyTable]
      /\ UNCHANGED <<now, rows, phase, resp, wait, cursor, view, late>>
  BY DEF IntegrityRetry, deviceVars
<1> DEFINE j1 == [job[r] EXCEPT !.idx = 1]
           j2 == [j1 EXCEPT !.retried = TRUE]
<1>2. job' = [job EXCEPT ![r] = j2]
  <2>1. j2 = [job[r] EXCEPT !.idx = 1, !.retried = TRUE]  OBVIOUS
  <2> QED  BY <2>1 DEF IntegrityRetry
<1>3. job[r] \in Job  BY <1>1, JobTypes
<1>4. /\ j2.device = job[r].device /\ j2.cursor = job[r].cursor
      /\ j2.sync_point = job[r].sync_point /\ j2.changes = job[r].changes
      /\ j2.idx = 1
  BY <1>3 DEF Job
<1> HIDE DEF j2
<1>5. job'[r] = j2 /\ \A q \in Req \ {r} : job'[q] = job[q]
  BY <1>2 DEF TypeOK
<1> QED  BY <1>1, <1>4, <1>5, Rollback

\* What a commit changes, and what it leaves: the rows of its request become
\* the committed ones.
LEMMA CommitEffect ==
    ASSUME TypeOK, NEW r \in Req, Commit(r)
    PROVE  /\ phase[r] = "push" /\ phase'[r] = "pull"
           /\ job[r].idx > Len(job[r].changes)
           /\ \A q \in Req \ {r} : phase'[q] = phase[q] /\ writes'[q] = writes[q]
           /\ writes'[r] = EmptyTable
           /\ \A k \in Key : lock'[k] = IF lock[k] = r THEN None ELSE lock[k]
           /\ \A k \in Key : rows'[k] = Visible(r, k)
           /\ UNCHANGED <<now, job, resp, wait, cursor, view, late>>
<1>1. /\ phase[r] = "push" /\ phase' = [phase EXCEPT ![r] = "pull"]
      /\ job[r].idx > Len(job[r].changes)
      /\ lock' = Released(r) /\ writes' = [writes EXCEPT ![r] = EmptyTable]
      /\ rows' = Merge(rows, writes[r])
      /\ UNCHANGED <<now, job, resp, wait, cursor, view, late>>
  BY DEF Commit, deviceVars
<1>2. \A k \in Key : rows'[k] = Visible(r, k)
  BY <1>1 DEF Merge, Visible
<1>3. phase'[r] = "pull" /\ \A q \in Req \ {r} : phase'[q] = phase[q]
  BY <1>1 DEF TypeOK
<1> QED  BY <1>1, <1>2, <1>3, Rollback

\* What the answer to a pull changes, and what it leaves.
LEMMA AnswerEffect ==
    ASSUME TypeOK, NEW r \in Req, NEW P \in Pages(Matching(r)),
           NEW next \in Cursor, Answer(r, P, next)
    PROVE  /\ phase'[r] = "reply"
           /\ resp'[r].cursor = next
           /\ \A k \in Key : resp'[r].changes[k] = IF k \in P THEN rows[k] ELSE None
           /\ resp'[r].late = InFlight(next.since)
           /\ \A q \in Req \ {r} : phase'[q] = phase[q] /\ resp'[q] = resp[q]
           /\ UNCHANGED <<now, rows, lock, writes, job, wait, cursor, view, late>>
BY DEF TypeOK, Answer, deviceVars

\* What a delivery changes, and what it leaves: the device that still waits
\* for it, and no other.
LEMMA DeliverEffect ==
    ASSUME TypeOK, NEW r \in Req, Deliver(r)
    PROVE  LET d == job[r].device
           IN  /\ d \in Device /\ phase[r] = "reply" /\ phase'[r] = "idle"
               /\ resp[r] \in Resp
               /\ \A q \in Req \ {r} : /\ phase'[q] = phase[q] /\ job'[q] = job[q]
                                       /\ resp'[q] = resp[q]
               /\ wait[d] # r => UNCHANGED <<wait, cursor, view, late>>
               /\ wait[d] = r =>
                    /\ wait'[d] = None /\ cursor'[d] = resp[r].cursor
                    /\ view'[d] = Merge(view[d], resp[r].changes)
                    /\ late'[d] = late[d] \cup resp[r].late
               /\ \A e \in Device \ {d} : /\ wait'[e] = wait[e]
                                          /\ cursor'[e] = cursor[e]
                                          /\ view'[e] = view[e]
                                          /\ late'[e] = late[e]
               /\ UNCHANGED <<now, rows, lock, writes>>
<1> DEFINE d == job[r].device
<1>1. phase[r] = "reply" /\ phase[r] # "idle"  BY DEF Deliver
<1>2. d \in Device /\ resp[r] \in Resp
  BY <1>1, JobTypes DEF TypeOK, SlotOK
<1>3. /\ phase' = [phase EXCEPT ![r] = "idle"]
      /\ job' = [job EXCEPT ![r] = None]
      /\ resp' = [resp EXCEPT ![r] = None]
      /\ UNCHANGED <<now, rows, lock, writes>>
  BY DEF Deliver, Done
<1>4. wait[d] # r => UNCHANGED <<wait, cursor, view, late>>
  BY DEF Deliver, deviceVars
<1>5. wait[d] = r =>
         /\ wait' = [wait EXCEPT ![d] = None]
         /\ cursor' = [cursor EXCEPT ![d] = resp[r].cursor]
         /\ view' = [view EXCEPT ![d] = Merge(view[d], resp[r].changes)]
         /\ late' = [late EXCEPT ![d] = late[d] \cup resp[r].late]
  BY DEF Deliver
<1> QED  BY <1>1, <1>2, <1>3, <1>4, <1>5 DEF TypeOK

\* What an abort changes, and what it leaves.
LEMMA AbortEffect ==
    ASSUME TypeOK, NEW r \in Req, Abort(r)
    PROVE  /\ phase'[r] = "idle"
           /\ \A q \in Req \ {r} : /\ phase'[q] = phase[q] /\ job'[q] = job[q]
                                   /\ resp'[q] = resp[q] /\ writes'[q] = writes[q]
           /\ writes'[r] = EmptyTable
           /\ \A k \in Key : lock'[k] = IF lock[k] = r THEN None ELSE lock[k]
           /\ \A d \in Device : wait'[d] = IF wait[d] = r THEN None ELSE wait[d]
           /\ UNCHANGED <<now, rows, cursor, view, late>>
<1>1. /\ phase' = [phase EXCEPT ![r] = "idle"]
      /\ job' = [job EXCEPT ![r] = None]
      /\ resp' = [resp EXCEPT ![r] = None]
      /\ lock' = Released(r) /\ writes' = [writes EXCEPT ![r] = EmptyTable]
      /\ wait' = [d \in Device |-> IF wait[d] = r THEN None ELSE wait[d]]
      /\ UNCHANGED <<now, rows, cursor, view, late>>
  BY DEF Abort, Done
<1>2. /\ phase'[r] = "idle"
      /\ \A q \in Req \ {r} : /\ phase'[q] = phase[q] /\ job'[q] = job[q]
                              /\ resp'[q] = resp[q]
  BY <1>1 DEF TypeOK
<1> QED  BY <1>1, <1>2, Rollback

-----------------------------------------------------------------------------
(* The inductive invariant: initially, and under every action *)

\* A row that a transaction holds a write or a passed change of is locked by
\* it, so no other transaction has a write of it.
LEMMA OneWriter ==
    ASSUME Inductive, NEW r \in Req, NEW q \in Req, r # q, NEW k \in Key,
           writes[r][k] # None
    PROVE  writes[q][k] = None /\ lock[k] # q /\ lock[k] # None
BY NoneAssumption DEF Inductive, Transactions

\* The types of rows, read off the tables.
LEMMA RowTypes ==
    ASSUME TypeOK, NEW k \in Key
    PROVE  /\ rows[k] # None => rows[k] \in Row
           /\ \A r \in Req : writes[r][k] # None => writes[r][k] \in Row
           /\ \A d \in Device : view[d][k] # None => view[d][k] \in Row
           /\ k[1] \in User /\ k[2] \in Id
BY DEF TypeOK, Table, Key

\* Every time in the state is a number.
LEMMA StampTypes ==
    ASSUME TypeOK
    PROVE  /\ now \in Nat
           /\ \A d \in Device : cursor[d].since \in Nat
           /\ \A r \in Req : phase[r] # "idle" =>
                /\ job[r].sync_point \in Nat
                /\ job[r].cursor.since \in Nat
           /\ \A r \in Req : phase[r] = "reply" => resp[r].cursor.since \in Nat
           /\ \A k \in Key : rows[k] # None =>
                /\ rows[k].server_updated_at \in Nat
                /\ rows[k].updated_at \in Nat
           /\ \A r \in Req, k \in Key : writes[r][k] # None =>
                /\ writes[r][k].server_updated_at \in Nat
                /\ writes[r][k].updated_at \in Nat
<1>1. now \in Nat /\ \A d \in Device : cursor[d].since \in Nat
  BY DEF TypeOK, Cursor
<1>2. \A r \in Req : phase[r] # "idle" => /\ job[r].sync_point \in Nat
                                         /\ job[r].cursor.since \in Nat
  BY JobTypes DEF Cursor
<1>3. \A r \in Req : phase[r] = "reply" => resp[r].cursor.since \in Nat
  BY DEF TypeOK, SlotOK, Resp, Cursor
<1> QED  BY <1>1, <1>2, <1>3, RowTypes DEF Row

\* The invariant holds initially.
LEMMA InitInductive == Init => Inductive
<1> SUFFICES ASSUME Init PROVE Inductive
  OBVIOUS
<1>1. TypeOK  BY InitTypeOK
<1>2. /\ \A k \in Key : rows[k] = None
      /\ \A r \in Req : phase[r] = "idle" /\ \A k \in Key : writes[r][k] = None
      /\ \A d \in Device : /\ wait[d] = None /\ cursor[d].since = 0
                          /\ \A k \in Key : view[d][k] = None
      /\ now = 0
  BY DEF Init, EmptyTable, StartCursor
<1>3. SkewBounded /\ Transactions /\ Progress /\ PushedBeforeReply /\ Waiting
  BY <1>2 DEF SkewBounded, Transactions, Progress, PushedBeforeReply, Waiting
<1>4. Stamps /\ Owned /\ UserIsolation /\ AnswersAdvance
  BY <1>2 DEF Stamps, Owned, UserIsolation, AnswersAdvance
<1>5. LateKnown /\ AnswersComplete /\ OnlyLateCommitsMissed
  BY <1>2 DEF LateKnown, AnswersComplete, OnlyLateCommitsMissed
<1> QED  BY <1>1, <1>3, <1>4, <1>5 DEF Inductive

\* A request that comes in keeps the invariant: its sync point is new.
LEMMA ReceiveInductive ==
    ASSUME Inductive, NEW r \in Req, NEW d \in Device, NEW changes \in Batches,
           Receive(r, d, changes)
    PROVE  Inductive'
<1> USE DEF Inductive
<1>1. TypeOK'  BY ReceiveTypeOK
<1>2. \A q \in Req : phase[q] # "idle" => q # r
  BY ReceiveEffect
<1>3. SkewBounded' /\ UserIsolation'
  BY ReceiveEffect DEF SkewBounded, UserIsolation
<1>4. Stamps'
  <2>1. /\ now' = now + 1 /\ rows' = rows /\ cursor' = cursor /\ resp' = resp
        /\ phase'[r] # "reply"
        /\ job'[r].sync_point = now + 1 /\ job'[r].cursor = cursor[d]
        /\ \A q \in Req \ {r} : phase'[q] = phase[q] /\ job'[q] = job[q]
    BY ReceiveEffect
  <2> QED  BY <2>1, StampTypes DEF Stamps
<1>5. Transactions'
  BY <1>2, ReceiveEffect DEF Transactions
<1>6. Progress'
  <2> SUFFICES ASSUME NEW q \in Req, phase'[q] = "push",
                      NEW i \in 1 .. Len(job'[q].changes), i < job'[q].idx
               PROVE  Passed(q, i)'
    BY DEF Progress
  <2>1. q # r  BY ReceiveEffect
  <2>2. job'[q] = job[q] /\ phase[q] = "push"  BY <2>1, ReceiveEffect
  <2>3. Passed(q, i)  BY <2>2 DEF Progress
  <2> QED  BY <2>2, <2>3, ReceiveEffect DEF Passed, ChangeKey, Visible
<1>7. PushedBeforeReply'
  <2> SUFFICES ASSUME NEW q \in Req, phase'[q] \in {"pull", "reply"},
                      NEW i \in 1 .. Len(job'[q].changes)
               PROVE  Landed(q, i)'
    BY DEF PushedBeforeReply
  <2>1. q # r  BY ReceiveEffect
  <2>2. job'[q] = job[q] /\ phase[q] = phase'[q]  BY <2>1, ReceiveEffect
  <2>3. Landed(q, i)  BY <2>2 DEF PushedBeforeReply
  <2> QED  BY <2>2, <2>3, ReceiveEffect DEF Landed, ChangeKey
<1>8. Waiting'
  BY <1>2, ReceiveEffect DEF Waiting, TypeOK
<1>9. Owned' /\ AnswersAdvance'
  BY <1>2, ReceiveEffect DEF Owned, AnswersAdvance
<1>10. LateKnown'
  <2>1. /\ now' = now + 1 /\ cursor' = cursor /\ resp' = resp /\ late' = late
        /\ phase'[r] # "reply" /\ job'[r].sync_point = now + 1
        /\ \A q \in Req \ {r} : phase'[q] = phase[q] /\ job'[q] = job[q]
    BY ReceiveEffect
  <2>2. /\ \A e \in Device : ~(now + 1 <= cursor[e].since)
        /\ \A q \in Req : phase[q] = "reply" => ~(now + 1 <= resp[q].cursor.since)
    BY StampTypes DEF Stamps
  <2> QED  BY <2>1, <2>2 DEF LateKnown
<1>11. AnswersComplete'
  <2>1. /\ rows' = rows /\ view' = view /\ late' = late /\ resp' = resp
        /\ phase'[r] # "reply" /\ wait'[d] = r
        /\ \A e \in Device \ {d} : wait'[e] = wait[e]
        /\ \A q \in Req \ {r} : phase'[q] = phase[q]
    BY ReceiveEffect
  <2> SUFFICES ASSUME NEW e \in Device, NEW k \in Key,
                      wait'[e] # None, phase'[wait'[e]] = "reply",
                      k[1] = Owner[e], rows[k] # None,
                      ~After(k[2], rows[k], resp[wait'[e]].cursor)
               PROVE  \/ Merge(view[e], resp[wait'[e]].changes)[k] = rows[k]
                      \/ rows[k].server_updated_at \in late[e] \cup resp[wait'[e]].late
    BY <2>1 DEF AnswersComplete
  <2>2. e # d /\ wait'[e] = wait[e]  BY <2>1
  <2>3. wait[e] # r /\ wait[e] \in Req  BY <2>1, <2>2 DEF TypeOK
  <2> QED  BY <2>1, <2>2, <2>3 DEF AnswersComplete
<1>12. OnlyLateCommitsMissed'
  BY ReceiveEffect DEF OnlyLateCommitsMissed
<1> QED  BY <1>1, <1>3, <1>4, <1>5, <1>6, <1>7, <1>8, <1>9, <1>10, <1>11, <1>12

\* The parts that a step inside a transaction cannot disturb: it changes no
\* committed row, no phase, no answer and nothing of the devices, and of a
\* job neither the device, the cursor, the sync point nor the changes.
LEMMA InsideTransaction ==
    ASSUME Inductive, TypeOK',
           UNCHANGED <<now, rows, phase, resp, wait, cursor, view, late>>,
           \A q \in Req : phase[q] # "idle" =>
              /\ job'[q].device = job[q].device /\ job'[q].cursor = job[q].cursor
              /\ job'[q].sync_point = job[q].sync_point
              /\ job'[q].changes = job[q].changes
    PROVE  /\ SkewBounded' /\ Stamps' /\ PushedBeforeReply' /\ Waiting'
           /\ Owned' /\ UserIsolation' /\ AnswersAdvance' /\ LateKnown'
           /\ AnswersComplete' /\ OnlyLateCommitsMissed'
<1>1. SkewBounded' /\ Stamps' /\ UserIsolation' /\ OnlyLateCommitsMissed'
  BY DEF Inductive, SkewBounded, Stamps, UserIsolation, OnlyLateCommitsMissed
<1>2. Waiting'
  BY DEF Inductive, Waiting, TypeOK
<1>3. Owned' /\ AnswersAdvance' /\ LateKnown'
  BY DEF Inductive, Owned, AnswersAdvance, LateKnown
<1>4. AnswersComplete'
  BY DEF Inductive, AnswersComplete
<1>5. PushedBeforeReply'
  <2> SUFFICES ASSUME NEW q \in Req, phase[q] \in {"pull", "reply"},
                      NEW i \in 1 .. Len(job[q].changes)
               PROVE  Landed(q, i)'
    BY DEF PushedBeforeReply
  <2>1. Landed(q, i)  BY DEF Inductive, PushedBeforeReply
  <2> QED  BY <2>1 DEF Landed, ChangeKey
<1> QED  BY <1>1, <1>2, <1>3, <1>4, <1>5

\* What another request has passed stays passed: it holds the lock.
LEMMA OthersProgress ==
    ASSUME Inductive, NEW q \in Req, phase[q] = "push",
           NEW i \in 1 .. Len(job[q].changes), i < job[q].idx,
           job'[q] = job[q], writes'[q] = writes[q],
           \A k \in Key : lock[k] = q => lock'[k] = q /\ rows'[k] = rows[k]
    PROVE  Passed(q, i)'
<1>1. Passed(q, i)  BY DEF Inductive, Progress
<1>2. ChangeKey(q, job[q].changes[i]) \in Key
  <2>1. job[q].changes[i] \in [id : Id, updated_at : Nat]
    BY JobTypes, SeqElement DEF Inductive
  <2> QED  BY <2>1, JobTypes DEF ChangeKey, Key, Inductive
<1> QED  BY <1>1, <1>2 DEF Passed, ChangeKey, Visible

\* An upsert keeps the invariant: it holds the lock of its key, so what it
\* writes is compared with the newest row and stays so.
LEMMA UpsertInductive ==
    ASSUME Inductive, NEW r \in Req, Upsert(r)
    PROVE  Inductive'
<1>1. TypeOK /\ TypeOK'  BY UpsertTypeOK DEF Inductive
<1>0. PICK k \in Key, c \in [id : Id, updated_at : Nat], new \in Row :
        /\ k = NextKey(r)
        /\ c = job[r].changes[job[r].idx]
        /\ new = [updated_at |-> Clamp(c.updated_at, job[r].sync_point),
                  server_updated_at |-> job[r].sync_point,
                  data |-> job[r].device]
  BY <1>1, UpsertEffect, UpsertRow
<1>2. /\ phase[r] = "push" /\ phase[r] # "idle"
      /\ job[r].idx \in 1 .. Len(job[r].changes)
      /\ k \in Key /\ c \in [id : Id, updated_at : Nat]
      /\ lock[k] \in {None, r} /\ lock'[k] = r
      /\ \A m \in Key \ {k} : lock'[m] = lock[m] /\ writes'[r][m] = writes[r][m]
      /\ \A q \in Req \ {r} : job'[q] = job[q] /\ writes'[q] = writes[q]
      /\ job'[r] = [job[r] EXCEPT !.idx = @ + 1]
      /\ UNCHANGED <<now, rows, phase, resp, wait, cursor, view, late>>
  BY <1>0, <1>1, UpsertEffect
<1>3. /\ new \in Row /\ new # None
      /\ \/ writes'[r][k] = new /\ Wins(new, Visible(r, k))
         \/ writes'[r][k] = writes[r][k] /\ ~Wins(new, Visible(r, k))
  BY <1>0, <1>1, UpsertRow
<1>4. /\ job'[r].device = job[r].device /\ job'[r].cursor = job[r].cursor
      /\ job'[r].sync_point = job[r].sync_point
      /\ job'[r].changes = job[r].changes
      /\ job'[r].idx = job[r].idx + 1
  <2>1. job[r] \in Job  BY <1>1, <1>2, JobTypes
  <2> QED  BY <1>2, <2>1 DEF Job
<1>5. /\ new.updated_at = Clamp(c.updated_at, job[r].sync_point)
      /\ new.server_updated_at = job[r].sync_point
      /\ new.data = job[r].device
      /\ new.updated_at \in Nat
      /\ new.updated_at <= new.server_updated_at + CLAMP_TOLERANCE
  BY <1>0, <1>1, <1>2, JobTypes, ClampType
<1>6. k[1] = Owner[job[r].device]  BY <1>0 DEF NextKey, ChangeKey
<1>7. k = ChangeKey(r, c)  BY <1>0 DEF NextKey
<1>8. Transactions'
  <2> SUFFICES ASSUME NEW q \in Req, NEW m \in Key, writes'[q][m] # None
               PROVE  /\ phase[q] = "push"
                      /\ lock'[m] = q
                      /\ writes'[q][m].server_updated_at = job'[q].sync_point
                      /\ writes'[q][m].data = job'[q].device
                      /\ m[1] = Owner[job'[q].device]
                      /\ writes'[q][m].updated_at
                           <= writes'[q][m].server_updated_at + CLAMP_TOLERANCE
                      /\ rows[m] # None =>
                           writes'[q][m].updated_at >= rows[m].updated_at
    BY <1>2 DEF Transactions
  <2>1. CASE q # r
    <3>1. writes[q][m] # None  BY <2>1, <1>2
    <3>2. m # k
      BY <3>1, <2>1, <1>2, NoneAssumption DEF Inductive, Transactions
    <3> QED  BY <3>1, <3>2, <2>1, <1>2 DEF Inductive, Transactions
  <2>2. CASE q = r /\ m # k
    <3>1. writes[r][m] # None /\ writes'[r][m] = writes[r][m]  BY <2>2, <1>2
    <3> QED  BY <3>1, <2>2, <1>2, <1>4 DEF Inductive, Transactions
  <2>3. CASE q = r /\ m = k /\ writes'[r][k] = writes[r][k]
    BY <2>3, <1>2, <1>4 DEF Inductive, Transactions
  <2>4. CASE q = r /\ m = k /\ writes'[r][k] = new /\ Wins(new, Visible(r, k))
    <3>1. rows[k] # None => new.updated_at >= rows[k].updated_at
      <4>1. CASE writes[r][k] = None
        BY <4>1, <2>4 DEF Wins, Visible
      <4>2. CASE writes[r][k] # None
        <5>1. new.updated_at >= writes[r][k].updated_at
          BY <4>2, <2>4 DEF Wins, Visible
        <5>2. rows[k] # None => writes[r][k].updated_at >= rows[k].updated_at
          BY <4>2, <1>2 DEF Inductive, Transactions
        <5> QED  BY <4>2, <5>1, <5>2, <1>1, <1>2, <1>5, StampTypes
      <4> QED  BY <4>1, <4>2
    <3> QED  BY <3>1, <2>4, <1>2, <1>4, <1>5, <1>6
  <2> QED  BY <2>1, <2>2, <2>3, <2>4, <1>3
<1>9. Progress'
  <2> SUFFICES ASSUME NEW q \in Req, phase[q] = "push",
                      NEW i \in 1 .. Len(job'[q].changes), i < job'[q].idx
               PROVE  Passed(q, i)'
    BY <1>2 DEF Progress
  <2>1. CASE q # r
    <3>1. \A m \in Key : lock[m] = q => lock'[m] = q /\ rows'[m] = rows[m]
      BY <2>1, <1>2, NoneAssumption
    <3> QED  BY <2>1, <3>1, <1>2, OthersProgress
  <2>2. CASE q = r
    <3>0. PICK b \in [id : Id, updated_at : Nat] : b = job[r].changes[i]
      BY <2>2, <1>1, <1>2, <1>4, JobTypes, SeqElement
    <3>4. PICK m \in Key : m = ChangeKey(r, b)
      BY <1>1, <1>2, JobTypes DEF ChangeKey, Key
    <3>1. /\ ChangeKey(r, b)' = m /\ i \in 1 .. Len(job[r].changes)
          /\ b = job'[r].changes[i]
      BY <2>2, <3>0, <3>4, <1>4 DEF ChangeKey
    <3>3. Clamp(b.updated_at, job[r].sync_point) \in Nat
      BY <1>1, <1>2, JobTypes, ClampType
    <3>5. m = k => lock'[m] = r /\ Visible(r, m)' # None
      BY <1>2, <1>3 DEF Visible, Wins
    <3>6. CASE i < job[r].idx
      <4>1. Passed(r, i)  BY <3>1, <3>6, <1>2 DEF Inductive, Progress
      <4>2. CASE m # k
        BY <4>1, <4>2, <3>0, <3>1, <3>4, <2>2, <1>2, <1>4 DEF Passed, Visible
      <4>3. CASE m = k
        <5>1. /\ Visible(r, k) # None
              /\ Visible(r, k).updated_at >= Clamp(b.updated_at, job[r].sync_point)
              /\ Visible(r, k).updated_at \in Nat
          BY <4>1, <4>3, <3>0, <3>4, <1>1, <1>2, StampTypes DEF Passed, Visible
        <5>2. Visible(r, k)'.updated_at >= Clamp(b.updated_at, job[r].sync_point)
          <6>1. CASE writes'[r][k] = new /\ Wins(new, Visible(r, k))
            BY <6>1, <5>1, <3>3, <1>3, <1>5 DEF Visible, Wins
          <6>2. CASE writes'[r][k] = writes[r][k]
            BY <6>2, <5>1, <1>2 DEF Visible
          <6> QED  BY <6>1, <6>2, <1>3
        <5> QED  BY <5>2, <4>3, <3>1, <3>5, <2>2, <1>4 DEF Passed
      <4> QED  BY <4>2, <4>3
    <3>7. CASE i = job[r].idx
      <4>1. b = c /\ m = k  BY <3>0, <3>4, <3>7, <1>0, <1>7
      <4>2. Visible(r, k)'.updated_at >= Clamp(c.updated_at, job[r].sync_point)
        <5>1. CASE writes'[r][k] = new
          BY <5>1, <1>3, <1>5 DEF Visible
        <5>2. CASE writes'[r][k] = writes[r][k] /\ ~Wins(new, Visible(r, k))
          <6>1. /\ Visible(r, k) # None /\ Visible(r, k).updated_at \in Nat
                /\ ~(new.updated_at >= Visible(r, k).updated_at)
            BY <5>2, <1>1, <1>2, StampTypes DEF Visible, Wins
          <6>2. Visible(r, k)' = Visible(r, k)
            BY <5>2, <1>2 DEF Visible
          <6> QED  BY <6>1, <6>2, <1>5
        <5> QED  BY <5>1, <5>2, <1>3
      <4> QED  BY <4>1, <4>2, <3>1, <3>5, <2>2, <1>4 DEF Passed
    <3>8. i < job[r].idx \/ i = job[r].idx
      BY <2>2, <1>2, <1>4
    <3> QED  BY <3>6, <3>7, <3>8
  <2> QED  BY <2>1, <2>2
<1>10. \A q \in Req : phase[q] # "idle" =>
          /\ job'[q].device = job[q].device /\ job'[q].cursor = job[q].cursor
          /\ job'[q].sync_point = job[q].sync_point
          /\ job'[q].changes = job[q].changes
  BY <1>2, <1>4
<1> QED  BY <1>1, <1>2, <1>8, <1>9, <1>10, InsideTransaction DEF Inductive

\* The second attempt keeps the invariant: all of the batch is still to do.
LEMMA IntegrityRetryInductive ==
    ASSUME Inductive, NEW r \in Req, IntegrityRetry(r)
    PROVE  Inductive'
<1>1. TypeOK /\ TypeOK'  BY IntegrityRetryTypeOK DEF Inductive
<1>2. /\ phase[r] = "push"
      /\ job'[r].device = job[r].device /\ job'[r].cursor = job[r].cursor
      /\ job'[r].sync_point = job[r].sync_point
      /\ job'[r].changes = job[r].changes /\ job'[r].idx = 1
      /\ \A q \in Req \ {r} : job'[q] = job[q] /\ writes'[q] = writes[q]
      /\ writes'[r] = EmptyTable
      /\ \A k \in Key : lock'[k] = IF lock[k] = r THEN None ELSE lock[k]
      /\ UNCHANGED <<now, rows, phase, resp, wait, cursor, view, late>>
  BY <1>1, IntegrityRetryEffect
<1>3. Transactions'
  BY <1>2, NoneAssumption DEF Inductive, Transactions, EmptyTable
<1>4. Progress'
  <2> SUFFICES ASSUME NEW q \in Req, phase[q] = "push",
                      NEW i \in 1 .. Len(job'[q].changes), i < job'[q].idx
               PROVE  Passed(q, i)'
    BY <1>2 DEF Progress
  <2>1. q # r  BY <1>2
  <2>2. \A m \in Key : lock[m] = q => lock'[m] = q /\ rows'[m] = rows[m]
    BY <2>1, <1>2
  <2> QED  BY <2>1, <2>2, <1>2, OthersProgress
<1>5. \A q \in Req : phase[q] # "idle" =>
         /\ job'[q].device = job[q].device /\ job'[q].cursor = job[q].cursor
         /\ job'[q].sync_point = job[q].sync_point
         /\ job'[q].changes = job[q].changes
  BY <1>2
<1> QED  BY <1>1, <1>2, <1>3, <1>4, <1>5, InsideTransaction DEF Inductive

\* A commit only ever raises the time of a row, and only rows that the
\* transaction has locked change.
LEMMA CommitRows ==
    ASSUME Inductive, NEW r \in Req, Commit(r), NEW k \in Key
    PROVE  /\ writes[r][k] = None => rows'[k] = rows[k]
           /\ writes[r][k] # None =>
                /\ rows'[k] = writes[r][k] /\ rows'[k] \in Row
                /\ rows'[k].server_updated_at = job[r].sync_point
                /\ Owner[rows'[k].data] = k[1]
                /\ rows'[k].updated_at
                     <= rows'[k].server_updated_at + CLAMP_TOLERANCE
           /\ rows[k] # None => /\ rows'[k] # None
                               /\ rows'[k].updated_at >= rows[k].updated_at
           /\ \A q \in Req \ {r} : lock[k] = q => rows'[k] = rows[k]
<1>1. TypeOK /\ phase[r] = "push"  BY CommitEffect DEF Inductive
<1>2. rows'[k] = Visible(r, k)  BY <1>1, CommitEffect
<1>3. writes[r][k] # None =>
        /\ writes[r][k] \in Row
        /\ lock[k] = r
        /\ writes[r][k].server_updated_at = job[r].sync_point
        /\ Owner[writes[r][k].data] = k[1]
        /\ writes[r][k].updated_at
             <= writes[r][k].server_updated_at + CLAMP_TOLERANCE
        /\ rows[k] # None => writes[r][k].updated_at >= rows[k].updated_at
  BY <1>1, RowTypes DEF Inductive, Transactions
<1>4. rows[k] # None => rows[k].updated_at \in Nat
  BY <1>1, StampTypes
<1>5. CASE writes[r][k] = None
  BY <1>2, <1>4, <1>5 DEF Visible
<1>6. CASE writes[r][k] # None
  <2>1. rows'[k] = writes[r][k]  BY <1>2, <1>6 DEF Visible
  <2> QED  BY <2>1, <1>3, <1>6
<1> QED  BY <1>5, <1>6

\* A commit keeps the invariant: a row that gets in below a device's cursor is
\* one of a push that is known as late there.
LEMMA CommitInductive ==
    ASSUME Inductive, NEW r \in Req, Commit(r)
    PROVE  Inductive'
<1>1. TypeOK /\ TypeOK'  BY CommitTypeOK DEF Inductive
<1>2. /\ phase[r] = "push" /\ phase[r] # "idle" /\ phase'[r] = "pull"
      /\ job[r].idx > Len(job[r].changes)
      /\ \A q \in Req \ {r} : phase'[q] = phase[q] /\ writes'[q] = writes[q]
      /\ writes'[r] = EmptyTable
      /\ \A k \in Key : lock'[k] = IF lock[k] = r THEN None ELSE lock[k]
      /\ \A k \in Key : rows'[k] = Visible(r, k)
      /\ UNCHANGED <<now, job, resp, wait, cursor, view, late>>
  BY <1>1, CommitEffect
<1>3. SkewBounded'
  BY CommitRows DEF Inductive, SkewBounded
<1>4. Stamps'
  <2>1. \A k \in Key : rows'[k] # None => rows'[k].server_updated_at <= now
    BY <1>2, CommitRows DEF Inductive, Stamps
  <2> QED  BY <2>1, <1>2 DEF Inductive, Stamps
<1>5. Transactions'
  <2> SUFFICES ASSUME NEW q \in Req, NEW m \in Key, writes'[q][m] # None
               PROVE  /\ phase'[q] = "push"
                      /\ lock'[m] = q
                      /\ writes'[q][m].server_updated_at = job[q].sync_point
                      /\ writes'[q][m].data = job[q].device
                      /\ m[1] = Owner[job[q].device]
                      /\ writes'[q][m].updated_at
                           <= writes'[q][m].server_updated_at + CLAMP_TOLERANCE
                      /\ rows'[m] # None =>
                           writes'[q][m].updated_at >= rows'[m].updated_at
    BY <1>2 DEF Transactions
  <2>1. q # r  BY <1>2 DEF EmptyTable
  <2>2. writes[q][m] # None /\ writes'[q] = writes[q] /\ phase'[q] = phase[q]
    BY <2>1, <1>2
  <2>3. lock[m] = q  BY <2>2 DEF Inductive, Transactions
  <2>4. rows'[m] = rows[m] /\ lock'[m] = q
    BY <2>1, <2>3, <1>2, CommitRows
  <2> QED  BY <2>2, <2>4 DEF Inductive, Transactions
<1>6. Progress'
  <2> SUFFICES ASSUME NEW q \in Req, phase'[q] = "push",
                      NEW i \in 1 .. Len(job[q].changes), i < job[q].idx
               PROVE  Passed(q, i)'
    BY <1>2 DEF Progress
  <2>1. q # r /\ phase[q] = "push"  BY <1>2
  <2>2. \A m \in Key : lock[m] = q => lock'[m] = q /\ rows'[m] = rows[m]
    BY <2>1, <1>2, CommitRows
  <2> QED  BY <2>1, <2>2, <1>2, OthersProgress
<1>7. PushedBeforeReply'
  <2> SUFFICES ASSUME NEW q \in Req, phase'[q] \in {"pull", "reply"},
                      NEW i \in 1 .. Len(job[q].changes)
               PROVE  Landed(q, i)'
    BY <1>2 DEF PushedBeforeReply
  <2>0. phase[q] # "idle"  BY <1>2
  <2>1. PICK b \in [id : Id, updated_at : Nat] : b = job[q].changes[i]
    BY <2>0, <1>1, JobTypes, SeqElement
  <2>2. PICK m \in Key : m = ChangeKey(q, b)
    BY <2>0, <1>1, JobTypes DEF ChangeKey, Key
  <2>3. ChangeKey(q, b)' = m /\ b = job'[q].changes[i]
    BY <2>1, <2>2, <1>2 DEF ChangeKey
  <2>4. Clamp(b.updated_at, job[q].sync_point) \in Nat
    BY <2>0, <1>1, JobTypes, ClampType
  <2>5. /\ rows'[m] # None
        /\ rows'[m].updated_at >= Clamp(b.updated_at, job[q].sync_point)
    <3>1. CASE q = r
      <4>1. i < job[r].idx
        BY <3>1, <1>1, <1>2, JobTypes
      <4>2. Passed(r, i)  BY <4>1, <3>1, <1>2 DEF Inductive, Progress
      <4> QED  BY <4>2, <3>1, <2>1, <2>2, <1>2 DEF Passed
    <3>2. CASE q # r
      <4>1. Landed(q, i)  BY <3>2, <1>2 DEF Inductive, PushedBeforeReply
      <4>2. /\ rows[m] # None
            /\ rows[m].updated_at >= Clamp(b.updated_at, job[q].sync_point)
        BY <4>1, <2>1, <2>2 DEF Landed
      <4>3. /\ rows'[m] # None
            /\ rows'[m].updated_at >= rows[m].updated_at
        BY <4>2, CommitRows
      <4>4. rows'[m].updated_at \in Nat /\ rows[m].updated_at \in Nat
        BY <4>2, <4>3, <1>1 DEF TypeOK, Table, Row
      <4> QED  BY <4>2, <4>3, <4>4, <2>4
    <3> QED  BY <3>1, <3>2
  <2> QED  BY <2>3, <2>5, <1>2 DEF Landed
<1>8. Waiting'
  BY <1>2 DEF Inductive, Waiting, TypeOK
<1>9. Owned'
  <2>1. \A k \in Key : rows'[k] # None => Owner[rows'[k].data] = k[1]
    BY CommitRows DEF Inductive, Owned
  <2> QED  BY <2>1, <1>2 DEF Inductive, Owned
<1>10. UserIsolation' /\ AnswersAdvance' /\ LateKnown'
  BY <1>2 DEF Inductive, UserIsolation, AnswersAdvance, LateKnown
<1>11. AnswersComplete'
  <2> SUFFICES ASSUME NEW d \in Device, NEW k \in Key,
                      wait[d] # None, phase'[wait[d]] = "reply", k[1] = Owner[d],
                      rows'[k] # None,
                      ~After(k[2], rows'[k], resp[wait[d]].cursor)
               PROVE  \/ Merge(view[d], resp[wait[d]].changes)[k] = rows'[k]
                      \/ rows'[k].server_updated_at \in late[d] \cup resp[wait[d]].late
    BY <1>2 DEF AnswersComplete
  <2>1. wait[d] \in Req /\ wait[d] # r /\ phase[wait[d]] = "reply"
    BY <1>1, <1>2 DEF TypeOK
  <2>2. CASE writes[r][k] = None
    <3>1. rows'[k] = rows[k]  BY <2>2, CommitRows
    <3> QED  BY <3>1, <2>1 DEF Inductive, AnswersComplete
  <2>3. CASE writes[r][k] # None
    <3>1. rows'[k].server_updated_at = job[r].sync_point
      BY <2>3, CommitRows
    <3>2. job[r].sync_point <= resp[wait[d]].cursor.since
      BY <3>1, <2>1, <1>1, <1>2, StampTypes DEF After
    <3> QED  BY <3>1, <3>2, <2>1, <1>2 DEF Inductive, LateKnown
  <2> QED  BY <2>2, <2>3
<1>12. OnlyLateCommitsMissed'
  <2> SUFFICES ASSUME NEW d \in Device, NEW k \in Key, k[1] = Owner[d],
                      rows'[k] # None, ~After(k[2], rows'[k], cursor[d])
               PROVE  \/ view[d][k] = rows'[k]
                      \/ rows'[k].server_updated_at \in late[d]
    BY <1>2 DEF OnlyLateCommitsMissed
  <2>1. CASE writes[r][k] = None
    <3>1. rows'[k] = rows[k]  BY <2>1, CommitRows
    <3> QED  BY <3>1 DEF Inductive, OnlyLateCommitsMissed
  <2>2. CASE writes[r][k] # None
    <3>1. rows'[k].server_updated_at = job[r].sync_point
      BY <2>2, CommitRows
    <3>2. job[r].sync_point <= cursor[d].since
      BY <3>1, <1>1, <1>2, StampTypes DEF After
    <3> QED  BY <3>1, <3>2, <1>2 DEF Inductive, LateKnown
  <2> QED  BY <2>1, <2>2
<1> QED  BY <1>1, <1>3, <1>4, <1>5, <1>6, <1>7, <1>8, <1>9, <1>10, <1>11, <1>12
         DEF Inductive

\* An answer from page P keeps the invariant, if its cursor lies beyond the
\* request's and everything that matched and is not in P lies beyond it.
LEMMA AnswerInductive ==
    ASSUME Inductive, NEW r \in Req, phase[r] = "pull",
           NEW P \in Pages(Matching(r)), NEW next \in Cursor, Answer(r, P, next),
           next.since <= now,
           \/ next.since > job[r].cursor.since
           \/ /\ next.since = job[r].cursor.since
              /\ next.last_seen_id # None /\ job[r].cursor.last_seen_id # None
              /\ next.last_seen_id > job[r].cursor.last_seen_id,
           \A k \in Matching(r) \ P : After(k[2], rows[k], next)
    PROVE  Inductive'
<1>1. TypeOK /\ TypeOK'  BY AnswerTypeOK DEF Inductive
<1>2. /\ phase'[r] = "reply"
      /\ resp'[r].cursor = next
      /\ \A k \in Key : resp'[r].changes[k] = IF k \in P THEN rows[k] ELSE None
      /\ resp'[r].late = InFlight(next.since)
      /\ \A q \in Req \ {r} : phase'[q] = phase[q] /\ resp'[q] = resp[q]
      /\ UNCHANGED <<now, rows, lock, writes, job, wait, cursor, view, late>>
  BY <1>1, AnswerEffect
<1>3. SkewBounded' /\ UserIsolation' /\ OnlyLateCommitsMissed'
  BY <1>2 DEF Inductive, SkewBounded, UserIsolation, OnlyLateCommitsMissed
<1>4. Stamps'
  BY <1>2 DEF Inductive, Stamps
<1>5. Transactions'
  BY <1>2 DEF Inductive, Transactions
<1>6. Progress'
  <2> SUFFICES ASSUME NEW q \in Req, phase'[q] = "push",
                      NEW i \in 1 .. Len(job[q].changes), i < job[q].idx
               PROVE  Passed(q, i)'
    BY <1>2 DEF Progress
  <2>1. phase[q] = "push"  BY <1>2
  <2> QED  BY <2>1, <1>2, OthersProgress
<1>7. PushedBeforeReply'
  <2> SUFFICES ASSUME NEW q \in Req, phase'[q] \in {"pull", "reply"},
                      NEW i \in 1 .. Len(job[q].changes)
               PROVE  Landed(q, i)'
    BY <1>2 DEF PushedBeforeReply
  <2>1. Landed(q, i)  BY <1>2 DEF Inductive, PushedBeforeReply
  <2> QED  BY <2>1, <1>2 DEF Landed, ChangeKey
<1>8. Waiting'
  BY <1>2 DEF Inductive, Waiting, TypeOK
<1>9. Owned'
  BY <1>1, <1>2, PageSubset DEF Inductive, Owned
<1>10. AnswersAdvance'
  BY <1>2 DEF Inductive, AnswersAdvance
<1>11. LateKnown'
  <2>1. \A q \in Req : ( phase[q] = "push" /\ job[q].sync_point <= next.since )
                       => job[q].sync_point \in InFlight(next.since)
    BY DEF InFlight
  <2>2. \A q \in Req : phase'[q] = "push" => phase[q] = "push"
    BY <1>2
  <2> QED  BY <2>1, <2>2, <1>2 DEF Inductive, LateKnown
<1>12. AnswersComplete'
  <2> SUFFICES ASSUME NEW d \in Device, NEW k \in Key,
                      wait[d] # None, phase'[wait[d]] = "reply", k[1] = Owner[d],
                      rows[k] # None,
                      ~After(k[2], rows[k], resp'[wait[d]].cursor)
               PROVE  \/ Merge(view[d], resp'[wait[d]].changes)[k] = rows[k]
                      \/ rows[k].server_updated_at \in late[d] \cup resp'[wait[d]].late
    BY <1>2 DEF AnswersComplete
  <2>1. wait[d] \in Req  BY <1>1 DEF TypeOK
  <2>2. CASE wait[d] # r
    BY <2>1, <2>2, <1>2 DEF Inductive, AnswersComplete
  <2>3. CASE wait[d] = r
    <3>1. job[r].device = d /\ job[r].cursor = cursor[d]
      BY <2>3, <2>1 DEF Inductive, Waiting
    <3>2. CASE k \in P
      BY <3>2, <2>3, <1>2 DEF Merge
    <3>3. CASE k \notin P
      <4>1. k \notin Matching(r)  BY <3>3, <2>3, <1>2
      <4>2. ~After(k[2], rows[k], cursor[d])
        BY <4>1, <3>1 DEF Matching
      <4>3. view[d][k] = rows[k] \/ rows[k].server_updated_at \in late[d]
        BY <4>2 DEF Inductive, OnlyLateCommitsMissed
      <4> QED  BY <4>3, <3>3, <2>3, <1>2 DEF Merge
    <3> QED  BY <3>2, <3>3
  <2> QED  BY <2>2, <2>3
<1> QED  BY <1>1, <1>3, <1>4, <1>5, <1>6, <1>7, <1>8, <1>9, <1>10, <1>11, <1>12
         DEF Inductive

\* A page that is not full holds all that matched.
LEMMA PullRestInductive ==
    ASSUME Inductive, NEW r \in Req, PullRest(r)
    PROVE  Inductive'
<1>1. TypeOK  BY DEF Inductive
<1>2. PICK P \in Pages(Matching(r)) :
        \E n \in Cursor :
          /\ phase[r] = "pull" /\ Cardinality(P) # PAGE_LIMIT
          /\ n = [since |-> job[r].sync_point, last_seen_id |-> None]
          /\ Answer(r, P, n)
  BY <1>1, PullRestNext
<1>3. PICK next \in Cursor :
          /\ phase[r] = "pull" /\ Cardinality(P) # PAGE_LIMIT
          /\ next = [since |-> job[r].sync_point, last_seen_id |-> None]
          /\ Answer(r, P, next)
  BY <1>2
<1>4. P = Matching(r)  BY <1>3 DEF Pages
<1>5. next.since <= now /\ next.since > job[r].cursor.since
  BY <1>1, <1>3, StampTypes DEF Inductive, Stamps
<1> QED  BY <1>3, <1>4, <1>5, AnswerInductive

\* What a full page leaves out comes after the page's last row.
LEMMA PullPageInductive ==
    ASSUME Inductive, NEW r \in Req, PullPage(r)
    PROVE  Inductive'
<1>1. TypeOK  BY DEF Inductive
<1>2. PICK P \in Pages(Matching(r)) :
        \E n \in Cursor : \E k \in P :
          /\ phase[r] = "pull" /\ IsLast(k, P)
          /\ n = [since |-> rows[k].server_updated_at, last_seen_id |-> k[2]]
          /\ Answer(r, P, n)
  BY <1>1, PullPageNext
<1>3. PICK next \in Cursor, k \in P :
          /\ phase[r] = "pull" /\ IsLast(k, P)
          /\ next = [since |-> rows[k].server_updated_at, last_seen_id |-> k[2]]
          /\ Answer(r, P, next)
  BY <1>2
<1>4. /\ k \in Key /\ rows[k] \in Row
      /\ After(k[2], rows[k], job[r].cursor)
  BY <1>1, PageSubset
<1>5. next.since <= now
  BY <1>3, <1>4, NoneAssumption DEF Inductive, Stamps
<1>6. k[2] \in Id /\ k[2] # None
  BY <1>4, ConstantsAssumption, NoneAssumption DEF Key
<1>7. \/ next.since > job[r].cursor.since
      \/ /\ next.since = job[r].cursor.since
         /\ next.last_seen_id # None /\ job[r].cursor.last_seen_id # None
         /\ next.last_seen_id > job[r].cursor.last_seen_id
  BY <1>3, <1>4, <1>6 DEF After
<1>8. ASSUME NEW m \in Matching(r) \ P
      PROVE  After(m[2], rows[m], next)
  <2>1. Before(k, m)  BY DEF Pages
  <2>2. /\ m \in Key /\ rows[m] \in Row
    BY <1>1 DEF Matching, TypeOK, Table
  <2>3. m[2] \in Nat /\ k[2] \in Nat
    BY <2>2, <1>4, ConstantsAssumption DEF Key
  <2> QED  BY <2>1, <2>2, <2>3, <1>3, <1>4, <1>6 DEF Before, After, Row
<1> QED  BY <1>3, <1>5, <1>7, <1>8, AnswerInductive

\* A delivery keeps the invariant: the device's cursor and view move together.
LEMMA DeliverInductive ==
    ASSUME Inductive, NEW r \in Req, Deliver(r)
    PROVE  Inductive'
<1>1. TypeOK /\ TypeOK'  BY DeliverTypeOK DEF Inductive
<1>2. PICK d \in Device :
        /\ d = job[r].device /\ phase[r] = "reply" /\ phase'[r] = "idle"
        /\ resp[r] \in Resp
        /\ \A q \in Req \ {r} : /\ phase'[q] = phase[q] /\ job'[q] = job[q]
                                /\ resp'[q] = resp[q]
        /\ wait[d] # r => UNCHANGED <<wait, cursor, view, late>>
        /\ wait[d] = r => /\ wait'[d] = None /\ cursor'[d] = resp[r].cursor
                          /\ view'[d] = Merge(view[d], resp[r].changes)
                          /\ late'[d] = late[d] \cup resp[r].late
        /\ \A e \in Device \ {d} : /\ wait'[e] = wait[e]
                                   /\ cursor'[e] = cursor[e]
                                   /\ view'[e] = view[e]
                                   /\ late'[e] = late[e]
        /\ UNCHANGED <<now, rows, lock, writes>>
  BY <1>1, DeliverEffect
<1>3. \A e \in Device : wait[e] = r => e = d
  BY <1>2, NoneAssumption DEF Inductive, Waiting
<1>4. \A e \in Device : wait[d] # r \/ e # d =>
        /\ wait'[e] = wait[e] /\ cursor'[e] = cursor[e]
        /\ view'[e] = view[e] /\ late'[e] = late[e]
  BY <1>2
<1>5. SkewBounded'
  BY <1>2 DEF Inductive, SkewBounded
<1>6. Stamps'
  <2>1. \A e \in Device : cursor'[e].since <= now
    BY <1>2, <1>4 DEF Inductive, Stamps
  <2> QED  BY <2>1, <1>2 DEF Inductive, Stamps
<1>7. Transactions'
  BY <1>2 DEF Inductive, Transactions
<1>8. Progress'
  <2> SUFFICES ASSUME NEW q \in Req, phase'[q] = "push",
                      NEW i \in 1 .. Len(job'[q].changes), i < job'[q].idx
               PROVE  Passed(q, i)'
    BY DEF Progress
  <2>1. q # r /\ phase[q] = "push" /\ job'[q] = job[q]  BY <1>2
  <2> QED  BY <2>1, <1>2, OthersProgress
<1>9. PushedBeforeReply'
  <2> SUFFICES ASSUME NEW q \in Req, phase'[q] \in {"pull", "reply"},
                      NEW i \in 1 .. Len(job'[q].changes)
               PROVE  Landed(q, i)'
    BY DEF PushedBeforeReply
  <2>1. q # r /\ phase[q] = phase'[q] /\ job'[q] = job[q]  BY <1>2
  <2>2. Landed(q, i)  BY <2>1 DEF Inductive, PushedBeforeReply
  <2> QED  BY <2>1, <2>2, <1>2 DEF Landed, ChangeKey
<1>10. Waiting'
  <2> SUFFICES ASSUME NEW e \in Device, wait'[e] # None
               PROVE  /\ phase'[wait'[e]] # "idle"
                      /\ job'[wait'[e]].device = e
                      /\ job'[wait'[e]].cursor = cursor'[e]
    BY DEF Waiting
  <2>1. wait'[e] = wait[e] /\ cursor'[e] = cursor[e]
    BY <1>2, <1>4
  <2>2. wait[e] # r /\ wait[e] \in Req
    BY <2>1, <1>1, <1>2, <1>3, NoneAssumption DEF TypeOK
  <2> QED  BY <2>1, <2>2, <1>2 DEF Inductive, Waiting
<1>11. Owned'
  BY <1>2 DEF Inductive, Owned
<1>12. UserIsolation'
  <2> SUFFICES ASSUME NEW e \in Device, NEW k \in Key, view'[e][k] # None
               PROVE  /\ k[1] = Owner[e]
                      /\ Owner[view'[e][k].data] = Owner[e]
    BY DEF UserIsolation
  <2>1. CASE view'[e] = view[e]
    BY <2>1 DEF Inductive, UserIsolation
  <2>2. CASE e = d /\ wait[d] = r /\ resp[r].changes[k] # None
    <3>1. view'[e][k] = resp[r].changes[k]
      BY <2>2, <1>2 DEF Merge
    <3> QED  BY <3>1, <2>2, <1>2 DEF Inductive, Owned
  <2>3. CASE e = d /\ wait[d] = r /\ resp[r].changes[k] = None
    <3>1. view'[e][k] = view[e][k]
      BY <2>3, <1>2 DEF Merge
    <3> QED  BY <3>1 DEF Inductive, UserIsolation
  <2> QED  BY <2>1, <2>2, <2>3, <1>4
<1>13. AnswersAdvance'
  BY <1>2 DEF Inductive, AnswersAdvance
<1>14. LateKnown'
  <2> SUFFICES ASSUME NEW q \in Req, phase'[q] = "push"
               PROVE  /\ \A e \in Device : job[q].sync_point <= cursor'[e].since
                                         => job[q].sync_point \in late'[e]
                      /\ \A p \in Req :
                           ( phase'[p] = "reply"
                             /\ job[q].sync_point <= resp'[p].cursor.since )
                           => job[q].sync_point \in resp'[p].late
    BY <1>2 DEF LateKnown
  <2>1. phase[q] = "push"  BY <1>2
  <2>2. \A p \in Req : ( phase'[p] = "reply"
                         /\ job[q].sync_point <= resp'[p].cursor.since )
                       => job[q].sync_point \in resp'[p].late
    BY <2>1, <1>2 DEF Inductive, LateKnown
  <2>3. ASSUME NEW e \in Device, job[q].sync_point <= cursor'[e].since
        PROVE  job[q].sync_point \in late'[e]
    <3>1. CASE e = d /\ wait[d] = r
      BY <3>1, <2>1, <2>3, <1>2 DEF Inductive, LateKnown
    <3>2. CASE ~(e = d /\ wait[d] = r)
      BY <3>2, <2>1, <2>3, <1>4 DEF Inductive, LateKnown
    <3> QED  BY <3>1, <3>2
  <2> QED  BY <2>2, <2>3
<1>15. AnswersComplete'
  <2> SUFFICES ASSUME NEW e \in Device, NEW k \in Key,
                      wait'[e] # None, phase'[wait'[e]] = "reply", k[1] = Owner[e],
                      rows[k] # None,
                      ~After(k[2], rows[k], resp'[wait'[e]].cursor)
               PROVE  \/ Merge(view'[e], resp'[wait'[e]].changes)[k] = rows[k]
                      \/ rows[k].server_updated_at \in late'[e] \cup resp'[wait'[e]].late
    BY <1>2 DEF AnswersComplete
  <2>1. /\ wait'[e] = wait[e] /\ view'[e] = view[e] /\ late'[e] = late[e]
    BY <1>2, <1>4
  <2>2. wait[e] # r /\ wait[e] \in Req
    BY <2>1, <1>1, <1>2 DEF TypeOK
  <2> QED  BY <2>1, <2>2, <1>2 DEF Inductive, AnswersComplete
<1>16. OnlyLateCommitsMissed'
  <2> SUFFICES ASSUME NEW e \in Device, NEW k \in Key, k[1] = Owner[e],
                      rows[k] # None, ~After(k[2], rows[k], cursor'[e])
               PROVE  \/ view'[e][k] = rows[k]
                      \/ rows[k].server_updated_at \in late'[e]
    BY <1>2 DEF OnlyLateCommitsMissed
  <2>1. CASE e = d /\ wait[d] = r
    BY <2>1, <1>2, NoneAssumption DEF Inductive, AnswersComplete
  <2>2. CASE ~(e = d /\ wait[d] = r)
    BY <2>2, <1>4 DEF Inductive, OnlyLateCommitsMissed
  <2> QED  BY <2>1, <2>2
<1> QED  BY <1>1, <1>5, <1>6, <1>7, <1>8, <1>9, <1>10, <1>11, <1>12, <1>13,
            <1>14, <1>15, <1>16
         DEF Inductive

\* An abort keeps the invariant: only what was uncommitted is lost.
LEMMA AbortInductive ==
    ASSUME Inductive, NEW r \in Req, Abort(r)
    PROVE  Inductive'
<1>1. TypeOK /\ TypeOK'  BY AbortTypeOK DEF Inductive
<1>2. /\ phase'[r] = "idle"
      /\ \A q \in Req \ {r} : /\ phase'[q] = phase[q] /\ job'[q] = job[q]
                              /\ resp'[q] = resp[q] /\ writes'[q] = writes[q]
      /\ writes'[r] = EmptyTable
      /\ \A k \in Key : lock'[k] = IF lock[k] = r THEN None ELSE lock[k]
      /\ \A d \in Device : wait'[d] = IF wait[d] = r THEN None ELSE wait[d]
      /\ UNCHANGED <<now, rows, cursor, view, late>>
  BY <1>1, AbortEffect
<1>3. SkewBounded' /\ UserIsolation' /\ OnlyLateCommitsMissed'
  BY <1>2 DEF Inductive, SkewBounded, UserIsolation, OnlyLateCommitsMissed
<1>4. Stamps' /\ AnswersAdvance' /\ LateKnown' /\ Owned'
  BY <1>2 DEF Inductive, Stamps, AnswersAdvance, LateKnown, Owned
<1>5. Transactions'
  BY <1>2, NoneAssumption DEF Inductive, Transactions, EmptyTable
<1>6. Progress'
  <2> SUFFICES ASSUME NEW q \in Req, phase'[q] = "push",
                      NEW i \in 1 .. Len(job'[q].changes), i < job'[q].idx
               PROVE  Passed(q, i)'
    BY DEF Progress
  <2>1. q # r /\ phase[q] = "push" /\ job'[q] = job[q]  BY <1>2
  <2>2. \A m \in Key : lock[m] = q => lock'[m] = q /\ rows'[m] = rows[m]
    BY <2>1, <1>2
  <2> QED  BY <2>1, <2>2, <1>2, OthersProgress
<1>7. PushedBeforeReply'
  <2> SUFFICES ASSUME NEW q \in Req, phase'[q] \in {"pull", "reply"},
                      NEW i \in 1 .. Len(job'[q].changes)
               PROVE  Landed(q, i)'
    BY DEF PushedBeforeReply
  <2>1. q # r /\ phase[q] = phase'[q] /\ job'[q] = job[q]  BY <1>2
  <2>2. Landed(q, i)  BY <2>1 DEF Inductive, PushedBeforeReply
  <2> QED  BY <2>1, <2>2, <1>2 DEF Landed, ChangeKey
<1>8. \A d \in Device : wait'[d] # None =>
        wait'[d] = wait[d] /\ wait[d] # r /\ wait[d] \in Req
  BY <1>1, <1>2 DEF TypeOK
<1>9. Waiting'
  BY <1>2, <1>8 DEF Inductive, Waiting
<1>10. AnswersComplete'
  BY <1>2, <1>8 DEF Inductive, AnswersComplete
<1> QED  BY <1>1, <1>3, <1>4, <1>5, <1>6, <1>7, <1>9, <1>10 DEF Inductive

\* A device that gives a request up keeps the invariant.
LEMMA GiveUpInductive ==
    ASSUME Inductive, NEW d \in Device, GiveUp(d)
    PROVE  Inductive'
<1>1. TypeOK /\ TypeOK'  BY GiveUpTypeOK DEF Inductive
<1>2. /\ UNCHANGED <<now, rows, lock, writes, phase, job, resp, cursor, view, late>>
      /\ wait'[d] = None /\ \A e \in Device \ {d} : wait'[e] = wait[e]
  BY <1>1 DEF GiveUp, serverVars, TypeOK
<1>3. SkewBounded' /\ UserIsolation' /\ OnlyLateCommitsMissed' /\ Transactions'
  BY <1>2 DEF Inductive, SkewBounded, UserIsolation, OnlyLateCommitsMissed,
              Transactions
<1>4. Stamps' /\ AnswersAdvance' /\ LateKnown' /\ Owned'
  BY <1>2 DEF Inductive, Stamps, AnswersAdvance, LateKnown, Owned
<1>5. Progress' /\ PushedBeforeReply'
  BY <1>2 DEF Inductive, Progress, PushedBeforeReply, Passed, Landed, ChangeKey,
              Visible
<1>6. Waiting' /\ AnswersComplete'
  BY <1>2 DEF Inductive, Waiting, AnswersComplete
<1> QED  BY <1>1, <1>3, <1>4, <1>5, <1>6 DEF Inductive

\* A step that changes nothing keeps the invariant.
LEMMA StutterInductive ==
    ASSUME Inductive, UNCHANGED vars
    PROVE  Inductive'
<1>1. UNCHANGED <<now, rows, lock, writes, phase, job, resp, wait, cursor, view, late>>
  BY DEF vars
<1>2. TypeOK'  BY <1>1 DEF Inductive, TypeOK, SlotOK
<1>3. Transactions'
  BY <1>1 DEF Inductive, Transactions
<1>4. Progress'
  BY <1>1 DEF Inductive, Progress, Passed, ChangeKey, Visible
<1>5. \A q \in Req : phase[q] # "idle" =>
        /\ job'[q].device = job[q].device /\ job'[q].cursor = job[q].cursor
        /\ job'[q].sync_point = job[q].sync_point
        /\ job'[q].changes = job[q].changes
  BY <1>1
<1> QED  BY <1>1, <1>2, <1>3, <1>4, <1>5, InsideTransaction DEF Inductive

\* The invariant is preserved by every step.
LEMMA NextInductive ==
    ASSUME Inductive, [Next]_vars
    PROVE  Inductive'
<1>1. ASSUME NEW r \in Req, NEW d \in Device, NEW changes \in Batches,
             Receive(r, d, changes)
      PROVE  Inductive'
  BY <1>1, ReceiveInductive
<1>2. ASSUME NEW r \in Req, Upsert(r) PROVE Inductive'
  BY <1>2, UpsertInductive
<1>3. ASSUME NEW r \in Req, IntegrityRetry(r) PROVE Inductive'
  BY <1>3, IntegrityRetryInductive
<1>4. ASSUME NEW r \in Req, Commit(r) PROVE Inductive'
  BY <1>4, CommitInductive
<1>5. ASSUME NEW r \in Req, PullRest(r) PROVE Inductive'
  BY <1>5, PullRestInductive
<1>6. ASSUME NEW r \in Req, PullPage(r) PROVE Inductive'
  BY <1>6, PullPageInductive
<1>7. ASSUME NEW r \in Req, Deliver(r) PROVE Inductive'
  BY <1>7, DeliverInductive
<1>8. ASSUME NEW r \in Req, Fail(r) PROVE Inductive'
  BY <1>8, AbortInductive DEF Fail
<1>9. ASSUME NEW r \in Req, DeadlockAbort(r) PROVE Inductive'
  BY <1>9, AbortInductive DEF DeadlockAbort
<1>10. ASSUME NEW d \in Device, GiveUp(d) PROVE Inductive'
  BY <1>10, GiveUpInductive
<1>11. CASE UNCHANGED vars
  BY <1>11, StutterInductive
<1> QED  BY <1>1, <1>2, <1>3, <1>4, <1>5, <1>6, <1>7, <1>8, <1>9, <1>10, <1>11
         DEF Next

-----------------------------------------------------------------------------
(* Theorems *)

\* The conjunction of everything below is an invariant of the specification.
THEOREM AlwaysInductive == Spec => []Inductive
<1>1. Init => Inductive  BY InitInductive
<1>2. Inductive /\ [Next]_vars => Inductive'  BY NextInductive
<1> QED  BY <1>1, <1>2, PTL DEF Spec

\* Type correctness: the handlers' locals exist while they are used, and a
\* transaction is open only in the push phase.
THEOREM TypeCorrect == Spec => []TypeOK
<1>1. Inductive => TypeOK  BY DEF Inductive
<1> QED  BY <1>1, AlwaysInductive, PTL

\* The clamp bounds the skew of every stored time.
THEOREM SkewIsBounded == Spec => []SkewBounded
<1>1. Inductive => SkewBounded  BY DEF Inductive
<1> QED  BY <1>1, AlwaysInductive, PTL

\* A push that was committed is stored or beaten until its answer leaves.
THEOREM PushesLand == Spec => []PushedBeforeReply
<1>1. Inductive => PushedBeforeReply  BY DEF Inductive
<1> QED  BY <1>1, AlwaysInductive, PTL

\* The cursor protocol loses nothing but what is committed late.
THEOREM CursorProtocol == Spec => []OnlyLateCommitsMissed
<1>1. Inductive => OnlyLateCommitsMissed  BY DEF Inductive
<1> QED  BY <1>1, AlwaysInductive, PTL

\* Paging makes progress with every answer.
THEOREM PagingAdvances == Spec => []AnswersAdvance
<1>1. Inductive => AnswersAdvance  BY DEF Inductive
<1> QED  BY <1>1, AlwaysInductive, PTL

\* No record of one user reaches a device of another.
THEOREM UsersAreIsolated == Spec => []UserIsolation
<1>1. Inductive => UserIsolation  BY DEF Inductive
<1> QED  BY <1>1, AlwaysInductive, PTL

\* Last write wins, for every interleaving of transactions.
THEOREM LastWriteWins == Spec => UpdatedAtMonotone
<1> DEFINE Rises == \A k \in Key : rows[k] # None =>
                      /\ rows'[k] # None
                      /\ rows'[k].updated_at >= rows[k].updated_at
<1>1. ASSUME Inductive, [Next]_vars PROVE [Rises]_vars
  <2>1. ASSUME NEW r \in Req, Commit(r) PROVE Rises
    BY <1>1, <2>1, CommitRows
  <2>2. ASSUME rows' = rows PROVE Rises
    BY <1>1, <2>2, StampTypes DEF Inductive
  <2>3. CASE \E r \in Req : Commit(r)
    BY <2>1, <2>3
  <2>4. CASE rows' = rows
    BY <2>2, <2>4
  <2>5. (\E r \in Req : Commit(r)) \/ rows' = rows
    BY <1>1 DEF Next, Receive, Upsert, IntegrityRetry, PullRest, PullPage, Answer,
                Deliver, Fail, DeadlockAbort, Abort, GiveUp, serverVars, vars
  <2> QED  BY <2>3, <2>4, <2>5
<1>2. Inductive /\ [Next]_vars => [Rises]_vars  BY <1>1
<1> QED  BY <1>2, AlwaysInductive, PTL DEF Spec, UpdatedAtMonotone

-----------------------------------------------------------------------------
(* Requests that do not overlap *)

\* No push was in flight below any cursor handed out so far.
NothingLate ==
    /\ \A d \in Device : late[d] = {}
    /\ \A r \in Req : phase[r] = "reply" => resp[r].late = {}

\* While a lone request pulls, no push is in flight.
LEMMA AloneInFlight ==
    ASSUME NEW q, Req = {q}, phase[q] = "pull", NEW since
    PROVE  InFlight(since) = {}
BY DEF InFlight

\* An answer to a lone pull carries nothing late.
LEMMA AloneAnswer ==
    ASSUME TypeOK, NothingLate, NEW q, Req = {q}, phase[q] = "pull",
           NEW P \in Pages(Matching(q)), NEW next \in Cursor, Answer(q, P, next)
    PROVE  NothingLate'
<1>1. InFlight(next.since) = {}  BY AloneInFlight
<1>2. q \in Req  OBVIOUS
<1>3. resp'[q].late = {} /\ late' = late
  BY <1>1, <1>2, AnswerEffect
<1> QED  BY <1>3 DEF NothingLate

\* No step of a server that works on one request at a time makes anything late.
LEMMA AloneNothingLate ==
    ASSUME TypeOK, NothingLate, [Next]_vars, NEW q, Req = {q}
    PROVE  NothingLate'
<1>1. q \in Req  OBVIOUS
<1>2. ASSUME PullRest(q) PROVE NothingLate'
  BY <1>1, <1>2, PullRestNext, AloneAnswer
<1>3. ASSUME PullPage(q) PROVE NothingLate'
  BY <1>1, <1>3, PullPageNext, AloneAnswer
<1>4. ASSUME Deliver(q) PROVE NothingLate'
  <2>1. phase[q] = "reply" /\ phase'[q] = "idle" /\ resp[q].late = {}
    BY <1>1, <1>4, DeliverEffect DEF NothingLate
  <2>2. \A d \in Device : late'[d] = late[d]
    <3> SUFFICES ASSUME NEW d \in Device PROVE late'[d] = late[d]
      OBVIOUS
    <3>1. CASE d = job[q].device
      BY <1>1, <1>4, <2>1, <3>1, DeliverEffect
    <3>2. CASE d # job[q].device
      BY <1>1, <1>4, <3>2, DeliverEffect
    <3> QED  BY <3>1, <3>2
  <2> QED  BY <2>1, <2>2 DEF NothingLate
<1>5. ASSUME late' = late, phase'[q] # "reply" PROVE NothingLate'
  BY <1>5 DEF NothingLate
<1>6. ASSUME late' = late, phase' = phase, resp' = resp PROVE NothingLate'
  BY <1>6 DEF NothingLate
<1>7. ASSUME NEW d \in Device, NEW changes \in Batches, Receive(q, d, changes)
      PROVE  late' = late /\ phase'[q] # "reply"
  BY <1>1, <1>7 DEF Receive, TypeOK
<1>8. ASSUME Upsert(q) \/ IntegrityRetry(q)
      PROVE  late' = late /\ phase' = phase /\ resp' = resp
  BY <1>8 DEF Upsert, IntegrityRetry, deviceVars
<1>9. ASSUME Commit(q) PROVE late' = late /\ phase'[q] # "reply"
  BY <1>1, <1>9, CommitEffect
<1>10. ASSUME Fail(q) \/ DeadlockAbort(q)
       PROVE  late' = late /\ phase'[q] # "reply"
  BY <1>1, <1>10, AbortEffect DEF Fail, DeadlockAbort
<1>11. ASSUME UNCHANGED vars \/ \E d \in Device : GiveUp(d)
       PROVE  late' = late /\ phase' = phase /\ resp' = resp
  BY <1>11 DEF GiveUp, serverVars, vars
<1> QED
  BY <1>2, <1>3, <1>4, <1>5, <1>6, <1>7, <1>8, <1>9, <1>10, <1>11 DEF Next

\* If requests do not overlap, the sync point a device gets is one to resume
\* from: the cursor protocol misses nothing at all.
THEOREM SerialMissesNothing ==
    ASSUME NEW CONSTANT q, Req = {q}
    PROVE  Spec => []NothingMissed
<1>1. Init => NothingLate  BY DEF Init, NothingLate
<1>2. Inductive /\ NothingLate /\ [Next]_vars => NothingLate'
  BY AloneNothingLate DEF Inductive
<1>3. Inductive /\ NothingLate => NothingMissed
  BY DEF Inductive, NothingLate, OnlyLateCommitsMissed, NothingMissed
<1> QED  BY <1>1, <1>2, <1>3, AlwaysInductive, PTL DEF Spec

-----------------------------------------------------------------------------
(* Deadlocks *)

\* A set of natural numbers has a least one.
LEMMA LeastNatural ==
    ASSUME NEW T \in SUBSET Nat, T # {}
    PROVE  \E x \in T : \A y \in T : x <= y
<1> DEFINE R == {p \in Nat \X Nat : p[1] < p[2]}
<1>1. IsWellFoundedOn(R, Nat)
  BY NatLessThanWellFounded DEF OpToRel
<1>2. \A x, y \in Nat : y < x => <<y, x>> \in R
  OBVIOUS
<1> HIDE DEF R
<1>3. PICK x \in T : \A y \in T : ~(<<y, x>> \in R)
  BY <1>1, WFMin
<1>4. \A y \in T : x <= y
  <2>1. \A y \in T : ~(y < x)  BY <1>2, <1>3
  <2> QED  BY <2>1
<1> QED  BY <1>4

\* A lock is held by a push, for a change it has been through.
LocksPassed ==
    \A q \in Req, k \in Key : lock[k] = q =>
        /\ phase[q] = "push"
        /\ \E i \in 1 .. Len(job[q].changes) :
             i < job[q].idx /\ ChangeKey(q, job[q].changes[i]) = k

\* A step keeps this of a request whose progress it leaves alone and to which
\* it gives no lock.
LEMMA OthersLocks ==
    ASSUME LocksPassed, NEW q \in Req, NEW k \in Key,
           lock'[k] = q => lock[k] = q /\ job'[q] = job[q] /\ phase'[q] = phase[q]
    PROVE  lock'[k] = q =>
             /\ phase'[q] = "push"
             /\ \E i \in 1 .. Len(job'[q].changes) :
                  i < job'[q].idx /\ ChangeKey(q, job[q].changes[i])' = k
BY DEF LocksPassed, ChangeKey

\* Locks are taken for changes passed, under every step.
LEMMA NextLocksPassed ==
    ASSUME TypeOK, LocksPassed, [Next]_vars
    PROVE  LocksPassed'
<1> SUFFICES ASSUME NEW q \in Req, NEW k \in Key, lock'[k] = q
             PROVE  /\ phase'[q] = "push"
                    /\ \E i \in 1 .. Len(job'[q].changes) :
                         i < job'[q].idx /\ ChangeKey(q, job[q].changes[i])' = k
  BY DEF LocksPassed
<1> DEFINE Untouched == lock[k] = q /\ job'[q] = job[q] /\ phase'[q] = phase[q]
<1>1. lock[k] = q => phase[q] = "push"  BY DEF LocksPassed
<1>2. CASE Untouched
  BY <1>2, OthersLocks
<1>3. ASSUME NEW r \in Req, NEW d \in Device, NEW changes \in Batches,
             Receive(r, d, changes)
      PROVE  Untouched
  BY <1>1, <1>3, ReceiveEffect
<1>4. ASSUME NEW r \in Req, Upsert(r)
      PROVE  Untouched \/ ( /\ phase'[q] = "push"
                            /\ \E i \in 1 .. Len(job'[q].changes) :
                                 /\ i < job'[q].idx
                                 /\ ChangeKey(q, job[q].changes[i])' = k )
  <2>1. CASE q # r
    <3>1. lock'[NextKey(r)] = r  BY <1>4, UpsertEffect
    <3>2. \A m \in Key \ {NextKey(r)} : lock'[m] = lock[m]
      BY <1>4, UpsertEffect
    <3>3. (\A p \in Req \ {r} : job'[p] = job[p]) /\ phase' = phase
      BY <1>4, UpsertEffect
    <3>4. ASSUME k = NextKey(r) PROVE FALSE
      BY <2>1, <3>1, <3>4
    <3> QED  BY <2>1, <3>2, <3>3, <3>4
  <2>2. CASE q = r
    <3>1. /\ phase'[r] = "push" /\ job[r].idx \in 1 .. Len(job[r].changes)
          /\ job[r].idx \in Nat
          /\ job'[r].idx = job[r].idx + 1 /\ job'[r].changes = job[r].changes
          /\ job'[r].device = job[r].device
          /\ k # NextKey(r) => lock[k] = r
      <4>1. /\ phase[r] = "push" /\ phase' = phase
            /\ job[r].idx \in 1 .. Len(job[r].changes)
            /\ job'[r] = [job[r] EXCEPT !.idx = @ + 1]
            /\ k # NextKey(r) => lock'[k] = lock[k]
        BY <1>4, UpsertEffect
      <4>2. job[r] \in Job /\ job[r].idx \in Nat
        BY <4>1, JobTypes
      <4>3. /\ job'[r].idx = job[r].idx + 1 /\ job'[r].changes = job[r].changes
            /\ job'[r].device = job[r].device
        BY <4>1, <4>2 DEF Job
      <4> QED  BY <2>2, <4>1, <4>2, <4>3
    <3>2. CASE k = NextKey(r)
      <4>1. job[r].idx < job'[r].idx /\ job[r].idx \in 1 .. Len(job'[r].changes)
        BY <3>1
      <4>2. ASSUME NEW i, i = job[r].idx PROVE ChangeKey(r, job[r].changes[i])' = k
        BY <3>1, <3>2, <4>2 DEF NextKey, ChangeKey
      <4> QED  BY <2>2, <3>1, <4>1, <4>2
    <3>3. CASE k # NextKey(r)
      <4>1. PICK i \in 1 .. Len(job[r].changes) :
              i < job[r].idx /\ ChangeKey(r, job[r].changes[i]) = k
        BY <2>2, <3>1, <3>3 DEF LocksPassed
      <4>2. ChangeKey(r, job[r].changes[i])' = k /\ i < job'[r].idx
        BY <3>1, <4>1 DEF ChangeKey
      <4> QED  BY <2>2, <3>1, <4>2
    <3> QED  BY <3>2, <3>3
  <2> QED  BY <2>1, <2>2
<1>5. ASSUME NEW r \in Req, IntegrityRetry(r) PROVE Untouched
  BY <1>5, IntegrityRetryEffect, NoneAssumption
<1>6. ASSUME NEW r \in Req, Commit(r) PROVE Untouched
  BY <1>6, CommitEffect, NoneAssumption
<1>7. ASSUME NEW r \in Req, PullRest(r) \/ PullPage(r) PROVE Untouched
  <2>1. PICK P \in Pages(Matching(r)), next \in Cursor :
          phase[r] = "pull" /\ Answer(r, P, next)
    BY <1>7, PullRestNext, PullPageNext
  <2> QED  BY <1>1, <2>1, AnswerEffect
<1>8. ASSUME NEW r \in Req, Deliver(r) PROVE Untouched
  BY <1>1, <1>8, DeliverEffect
<1>9. ASSUME NEW r \in Req, Fail(r) \/ DeadlockAbort(r) PROVE Untouched
  BY <1>9, AbortEffect, NoneAssumption DEF Fail, DeadlockAbort
<1>10. ASSUME (\E d \in Device : GiveUp(d)) \/ UNCHANGED vars PROVE Untouched
  BY <1>10 DEF GiveUp, serverVars, vars
<1> HIDE DEF Untouched
<1> QED  BY <1>2, <1>3, <1>4, <1>5, <1>6, <1>7, <1>8, <1>9, <1>10 DEF Next

\* Locks are held for changes passed, in every state.
LEMMA AlwaysLocksPassed == Spec => []LocksPassed
<1>1. Init => LocksPassed
  BY NoneAssumption DEF Init, LocksPassed
<1>2. TypeOK /\ LocksPassed /\ [Next]_vars => LocksPassed'
  BY NextLocksPassed
<1> QED  BY <1>1, <1>2, TypeCorrect, PTL DEF Spec

\* A batch that lists its records in the order of their ids.
Ascending(batch) ==
    \A i, j \in 1 .. Len(batch) : i < j => batch[i].id <= batch[j].id

\* No request is on a cycle of requests that wait for each other's locks.
NoDeadlock == \A r \in Req : ~OnCycle(r)

\* With ascending batches, who waits for a request that itself waits for
\* another wants a record before the one which that request wants.
LEMMA WaitsDescend ==
    ASSUME TypeOK, LocksPassed, \A batch \in Batches : Ascending(batch),
           NEW p \in Req, NEW q \in Req, NEW s \in Req, Waits(p, q), Waits(q, s)
    PROVE  NextKey(p)[2] < NextKey(q)[2]
<1>1. /\ HasNext(p) /\ HasNext(q) /\ phase[q] # "idle"
      /\ lock[NextKey(p)] = q /\ lock[NextKey(q)] # q
  BY DEF Waits, HasNext
<1>2. NextKey(p) \in Key /\ NextKey(q) \in Key
  BY <1>1, NextChange
<1>3. PICK i \in 1 .. Len(job[q].changes) :
        i < job[q].idx /\ ChangeKey(q, job[q].changes[i]) = NextKey(p)
  BY <1>1, <1>2 DEF LocksPassed
<1>4. /\ job[q].changes \in Batches
      /\ job[q].changes \in Seq([id : Id, updated_at : Nat])
      /\ job[q].idx \in 1 .. Len(job[q].changes)
  <2>1. /\ job[q] \in Job /\ job[q].idx \in Nat \ {0}
        /\ job[q].changes \in Seq([id : Id, updated_at : Nat])
    BY <1>1, JobTypes
  <2>2. job[q].changes \in Batches  BY <2>1 DEF Job
  <2>3. job[q].idx <= Len(job[q].changes)  BY <1>1 DEF HasNext
  <2> QED  BY <2>1, <2>2, <2>3
<1>5. job[q].changes[i].id <= job[q].changes[job[q].idx].id
  BY <1>3, <1>4 DEF Ascending
<1>6. /\ NextKey(p) = <<Owner[job[q].device], job[q].changes[i].id>>
      /\ NextKey(q) = <<Owner[job[q].device], job[q].changes[job[q].idx].id>>
  BY <1>3 DEF NextKey, ChangeKey
<1>7. NextKey(p) # NextKey(q)
  BY <1>1
<1>8. NextKey(p)[2] \in Nat /\ NextKey(q)[2] \in Nat
  BY <1>2, ConstantsAssumption DEF Key
<1> QED  BY <1>5, <1>6, <1>7, <1>8

\* Deadlocks come from batches that list their records in different orders, and
\* from nothing else: if all clients list them by id, no request is ever on a
\* cycle, and none is aborted by the deadlock detector.
THEOREM AscendingNeverDeadlocks ==
    ASSUME \A batch \in Batches : Ascending(batch)
    PROVE  Spec => []NoDeadlock
<1>1. ASSUME TypeOK, LocksPassed, NEW r \in Req, OnCycle(r) PROVE FALSE
  <2>1. PICK S \in SUBSET Req :
          /\ r \in S
          /\ \A p \in S : (\E q \in S : Waits(p, q)) /\ (\E q \in S : Waits(q, p))
    BY <1>1 DEF OnCycle
  <2> DEFINE T == {NextKey(p)[2] : p \in S}
  <2>2. T \in SUBSET Nat /\ T # {}
    <3>1. ASSUME NEW p \in S PROVE NextKey(p)[2] \in Nat
      <4>1. HasNext(p)  BY <2>1 DEF Waits
      <4>2. NextKey(p) \in Key  BY <1>1, <4>1, NextChange
      <4> QED  BY <4>2, ConstantsAssumption DEF Key
    <3> QED  BY <2>1, <3>1
  <2>3. PICK x \in T : \A y \in T : x <= y
    BY <2>2, LeastNatural
  <2>4. PICK p \in S : x = NextKey(p)[2]
    OBVIOUS
  <2>5. PICK q \in S, s \in S : Waits(q, p) /\ Waits(p, s)
    BY <2>1
  <2>6. NextKey(q)[2] < NextKey(p)[2]
    BY <1>1, <2>5, WaitsDescend
  <2>7. NextKey(q)[2] \in T /\ NextKey(p)[2] \in T
    OBVIOUS
  <2> HIDE DEF T
  <2>8. \A y \in T : x \in Nat /\ y \in Nat /\ x <= y
    BY <2>2, <2>3
  <2>9. x \in Nat /\ NextKey(q)[2] \in Nat /\ x <= NextKey(q)[2]
    BY <2>7, <2>8
  <2> QED  BY <2>4, <2>6, <2>9
<1>2. TypeOK /\ LocksPassed => NoDeadlock
  BY <1>1 DEF NoDeadlock
<1> QED  BY <1>2, TypeCorrect, AlwaysLocksPassed, PTL

-----------------------------------------------------------------------------
(* Handlers end *)

\* The awaits a push of n changes may still have before it: the changes from
\* the i-th on, a second attempt, if it has one left, the commit, the pull and
\* the reply.
PushLeft(n, i, retried) ==
    3 + (n + 1 - i) + (IF retried THEN 0 ELSE n + 1)

\* The awaits a request may still have before it.
WorkLeft(r) ==
    CASE phase[r] = "idle" -> 0
      [] phase[r] = "reply" -> 1
      [] phase[r] = "pull" -> 2
      [] phase[r] = "push" -> PushLeft(Len(job[r].changes), job[r].idx, job[r].retried)

\* The loop over the changes stops behind the last one.
LoopBounded ==
    \A r \in Req : phase[r] = "push" => job[r].idx <= Len(job[r].changes) + 1

Untouched(r) == UNCHANGED <<phase[r], job[r], resp[r], writes[r]>>

\* Every step either leaves a running handler alone or brings it nearer to its
\* end; the retry does not start it over.
HandlersAdvance ==
    [][\A r \in Req :
         phase[r] # "idle" => Untouched(r) \/ WorkLeft(r)' < WorkLeft(r)]_vars

\* Less is left after an upsert, and after the retry.
LEMMA PushLeftValues ==
    ASSUME NEW n \in Nat, NEW i \in 1 .. n + 1, NEW retried \in BOOLEAN
    PROVE  /\ PushLeft(n, i, retried) \in Nat /\ PushLeft(n, i, retried) > 2
           /\ i <= n => PushLeft(n, i + 1, retried) < PushLeft(n, i, retried)
           /\ ~retried => PushLeft(n, 1, TRUE) < PushLeft(n, i, retried)
BY DEF PushLeft

\* How much is left, phase by phase.
LEMMA WorkLeftValues ==
    ASSUME TypeOK, LoopBounded, NEW r \in Req
    PROVE  /\ WorkLeft(r) \in Nat
           /\ phase[r] = "reply" => WorkLeft(r) = 1
           /\ phase[r] = "pull" => WorkLeft(r) = 2
           /\ phase[r] = "push" =>
                /\ Len(job[r].changes) \in Nat
                /\ job[r].idx \in 1 .. Len(job[r].changes) + 1
                /\ job[r].retried \in BOOLEAN
                /\ WorkLeft(r) =
                     PushLeft(Len(job[r].changes), job[r].idx, job[r].retried)
                /\ WorkLeft(r) > 2
<1>1. phase[r] \in {"idle", "push", "pull", "reply"}  BY DEF TypeOK
<1>2. CASE phase[r] = "idle"   BY <1>2 DEF WorkLeft
<1>3. CASE phase[r] = "reply"  BY <1>3 DEF WorkLeft
<1>4. CASE phase[r] = "pull"   BY <1>4 DEF WorkLeft
<1>5. CASE phase[r] = "push"
  <2>1. /\ job[r].idx \in Nat \ {0} /\ job[r].retried \in BOOLEAN
        /\ job[r].changes \in Seq([id : Id, updated_at : Nat])
    BY <1>5, JobTypes DEF Job
  <2>2. Len(job[r].changes) \in Nat  BY <2>1
  <2>3. job[r].idx \in 1 .. Len(job[r].changes) + 1
    BY <1>5, <2>1, <2>2 DEF LoopBounded
  <2>4. WorkLeft(r) = PushLeft(Len(job[r].changes), job[r].idx, job[r].retried)
    BY <1>5 DEF WorkLeft
  <2>5. WorkLeft(r) \in Nat /\ WorkLeft(r) > 2
    BY <2>1, <2>2, <2>3, <2>4, PushLeftValues
  <2> QED  BY <1>5, <2>1, <2>2, <2>3, <2>4, <2>5
<1> QED  BY <1>1, <1>2, <1>3, <1>4, <1>5

\* What a step does to one handler.
HandlerStep(r) ==
    /\ phase[r] # "idle" => Untouched(r) \/ WorkLeft(r)' < WorkLeft(r)
    /\ phase'[r] = "push" => job'[r].idx <= Len(job'[r].changes) + 1

\* A handler that a step leaves alone.
LEMMA UntouchedStep ==
    ASSUME LoopBounded, NEW r \in Req, Untouched(r)
    PROVE  HandlerStep(r)
BY DEF LoopBounded, Untouched, HandlerStep

\* An upsert is one change less.
LEMMA UpsertAdvances ==
    ASSUME TypeOK, LoopBounded, NEW r \in Req, Upsert(r)
    PROVE  HandlerStep(r)
<1>1. /\ phase[r] = "push" /\ phase'[r] = "push"
      /\ job[r].idx \in 1 .. Len(job[r].changes)
      /\ job'[r] = [job[r] EXCEPT !.idx = @ + 1]
  BY UpsertEffect
<1>2. job[r] \in Job  BY <1>1, JobTypes
<1>3. /\ job'[r].idx = job[r].idx + 1 /\ job'[r].changes = job[r].changes
      /\ job'[r].retried = job[r].retried
  BY <1>1, <1>2 DEF Job
<1>4. WorkLeft(r)' =
        PushLeft(Len(job[r].changes), job[r].idx + 1, job[r].retried)
  BY <1>1, <1>3 DEF WorkLeft
<1>5. /\ Len(job[r].changes) \in Nat /\ job[r].retried \in BOOLEAN
      /\ job[r].idx \in 1 .. Len(job[r].changes) + 1
      /\ WorkLeft(r) = PushLeft(Len(job[r].changes), job[r].idx, job[r].retried)
      /\ job[r].idx <= Len(job[r].changes)
  BY <1>1, WorkLeftValues
<1>6. WorkLeft(r)' < WorkLeft(r)
  BY <1>4, <1>5, PushLeftValues
<1>7. job'[r].idx <= Len(job'[r].changes) + 1
  BY <1>3, <1>5
<1> QED  BY <1>6, <1>7 DEF HandlerStep

\* The second attempt is less than the first and its retry were.
LEMMA IntegrityRetryAdvances ==
    ASSUME TypeOK, LoopBounded, NEW r \in Req, IntegrityRetry(r)
    PROVE  HandlerStep(r)
<1>1. /\ phase[r] = "push" /\ phase'[r] = "push" /\ ~job[r].retried
      /\ job'[r].changes = job[r].changes /\ job'[r].idx = 1
  BY IntegrityRetryEffect DEF IntegrityRetry
<1>2. job[r] \in Job  BY <1>1, JobTypes
<1> DEFINE j1 == [job[r] EXCEPT !.idx = 1]
           j2 == [j1 EXCEPT !.retried = TRUE]
<1>3. job' = [job EXCEPT ![r] = j2]
  <2>1. j2 = [job[r] EXCEPT !.idx = 1, !.retried = TRUE]  OBVIOUS
  <2> QED  BY <2>1 DEF IntegrityRetry
<1>4. j2.retried = TRUE  BY <1>2 DEF Job
<1> HIDE DEF j2
<1>5. job'[r].retried = TRUE  BY <1>3, <1>4 DEF TypeOK
<1>6. WorkLeft(r)' = PushLeft(Len(job[r].changes), 1, TRUE)
  BY <1>1, <1>5 DEF WorkLeft
<1>7. /\ Len(job[r].changes) \in Nat /\ job[r].retried \in BOOLEAN
      /\ job[r].idx \in 1 .. Len(job[r].changes) + 1
      /\ WorkLeft(r) = PushLeft(Len(job[r].changes), job[r].idx, job[r].retried)
  BY <1>1, WorkLeftValues
<1>8. WorkLeft(r)' < WorkLeft(r)
  BY <1>1, <1>6, <1>7, PushLeftValues
<1> QED  BY <1>1, <1>7, <1>8 DEF HandlerStep

\* So are a pull, a reply and an end less than what came before them.
LEMMA PhaseAdvances ==
    ASSUME TypeOK, LoopBounded, NEW r \in Req,
           \/ phase[r] = "push" /\ phase'[r] = "pull"
           \/ phase[r] = "pull" /\ phase'[r] = "reply"
           \/ phase[r] # "idle" /\ phase'[r] = "idle"
    PROVE  HandlerStep(r)
<1>1. phase[r] \in {"push", "pull", "reply"} /\ phase'[r] # "push"
  BY DEF TypeOK
<1>2. CASE phase[r] = "push" /\ phase'[r] = "pull"
  <2>1. WorkLeft(r)' = 2  BY <1>2 DEF WorkLeft
  <2> QED  BY <1>1, <1>2, <2>1, WorkLeftValues DEF HandlerStep
<1>3. CASE phase[r] = "pull" /\ phase'[r] = "reply"
  <2>1. WorkLeft(r)' = 1  BY <1>3 DEF WorkLeft
  <2> QED  BY <1>1, <1>3, <2>1, WorkLeftValues DEF HandlerStep
<1>4. CASE phase'[r] = "idle"
  <2>1. WorkLeft(r)' = 0  BY <1>4 DEF WorkLeft
  <2>2. WorkLeft(r) > 0
    BY <1>1, WorkLeftValues
  <2> QED  BY <1>1, <2>1, <2>2 DEF HandlerStep
<1> QED  BY <1>2, <1>3, <1>4

\* Every step, for every handler.
LEMMA NextAdvances ==
    ASSUME TypeOK, LoopBounded, [Next]_vars, NEW r \in Req
    PROVE  HandlerStep(r)
<1>1. ASSUME NEW q \in Req, NEW d \in Device, NEW changes \in Batches,
             Receive(q, d, changes)
      PROVE  HandlerStep(r)
  <2>1. CASE q # r
    BY <1>1, <2>1, ReceiveEffect, UntouchedStep DEF Untouched
  <2>2. CASE q = r
    <3>1. /\ phase[r] = "idle" /\ job'[r].idx = 1
          /\ job'[r].changes = changes
      BY <1>1, <2>2, ReceiveEffect
    <3>2. Len(changes) \in Nat  BY ConstantsAssumption
    <3> QED  BY <3>1, <3>2 DEF HandlerStep
  <2> QED  BY <2>1, <2>2
<1>2. ASSUME NEW q \in Req, Upsert(q) PROVE HandlerStep(r)
  <2>1. CASE q # r
    <3>1. /\ \A p \in Req \ {q} : job'[p] = job[p] /\ writes'[p] = writes[p]
          /\ phase' = phase /\ resp' = resp
      BY <1>2, UpsertEffect
    <3>2. Untouched(r)  BY <2>1, <3>1 DEF Untouched
    <3> QED  BY <3>2, UntouchedStep
  <2> QED  BY <1>2, <2>1, UpsertAdvances
<1>3. ASSUME NEW q \in Req, IntegrityRetry(q) PROVE HandlerStep(r)
  <2>1. CASE q # r
    <3>1. Untouched(r)  BY <1>3, <2>1, IntegrityRetryEffect DEF Untouched
    <3> QED  BY <3>1, UntouchedStep
  <2> QED  BY <1>3, <2>1, IntegrityRetryAdvances
<1>4. ASSUME NEW q \in Req, Commit(q) PROVE HandlerStep(r)
  <2>1. CASE q # r
    <3>1. Untouched(r)  BY <1>4, <2>1, CommitEffect DEF Untouched
    <3> QED  BY <3>1, UntouchedStep
  <2> QED  BY <1>4, <2>1, CommitEffect, PhaseAdvances
<1>5. ASSUME NEW q \in Req, PullRest(q) \/ PullPage(q) PROVE HandlerStep(r)
  <2>1. PICK P \in Pages(Matching(q)), next \in Cursor :
          phase[q] = "pull" /\ Answer(q, P, next)
    BY <1>5, PullRestNext, PullPageNext
  <2>2. CASE q # r
    <3>1. Untouched(r)  BY <2>1, <2>2, AnswerEffect DEF Untouched
    <3> QED  BY <3>1, UntouchedStep
  <2> QED  BY <2>1, <2>2, AnswerEffect, PhaseAdvances
<1>6. ASSUME NEW q \in Req, Deliver(q) PROVE HandlerStep(r)
  <2>1. CASE q # r
    <3>1. Untouched(r)  BY <1>6, <2>1, DeliverEffect DEF Untouched
    <3> QED  BY <3>1, UntouchedStep
  <2> QED  BY <1>6, <2>1, DeliverEffect, PhaseAdvances
<1>7. ASSUME NEW q \in Req, Fail(q) \/ DeadlockAbort(q) PROVE HandlerStep(r)
  <2>1. Abort(q) /\ phase[q] # "idle"
    BY <1>7 DEF Fail, DeadlockAbort, OnCycle, Waits, HasNext
  <2>2. CASE q # r
    <3>1. Untouched(r)  BY <2>1, <2>2, AbortEffect DEF Untouched
    <3> QED  BY <3>1, UntouchedStep
  <2> QED  BY <2>1, <2>2, AbortEffect, PhaseAdvances
<1>8. ASSUME (\E d \in Device : GiveUp(d)) \/ UNCHANGED vars
      PROVE  HandlerStep(r)
  <2>1. Untouched(r)  BY <1>8 DEF GiveUp, serverVars, vars, Untouched
  <2> QED  BY <2>1, UntouchedStep
<1> QED  BY <1>1, <1>2, <1>3, <1>4, <1>5, <1>6, <1>7, <1>8 DEF Next

\* No handler runs for ever by taking steps: what is left is a natural number,
\* and each of its steps makes it smaller.
THEOREM HandlersEnd == Spec => HandlersAdvance /\ [](\A r \in Req : WorkLeft(r) \in Nat)
<1>1. Init => LoopBounded
  BY DEF Init, LoopBounded
<1>2. TypeOK /\ LoopBounded /\ [Next]_vars => LoopBounded'
  BY NextAdvances DEF HandlerStep, LoopBounded
<1>3. TypeOK /\ LoopBounded /\ [Next]_vars
        => [\A r \in Req : phase[r] # "idle"
                             => Untouched(r) \/ WorkLeft(r)' < WorkLeft(r)]_vars
  BY NextAdvances DEF HandlerStep
<1>4. TypeOK /\ LoopBounded => \A r \in Req : WorkLeft(r) \in Nat
  BY WorkLeftValues
<1> QED  BY <1>1, <1>2, <1>3, <1>4, TypeCorrect, PTL DEF Spec, HandlersAdvance

-----------------------------------------------------------------------------
(* Pages *)

\* Records of one user.
OneUsers(M) ==
    /\ M \subseteq Key
    /\ \A k \in M : rows[k] \in Row
    /\ \A k, m \in M : k[1] = m[1]

\* What the select of a pull finds are such records.
LEMMA MatchingIsOneUsers ==
    ASSUME TypeOK, NEW r \in Req
    PROVE  OneUsers(Matching(r))
BY DEF TypeOK, Table, Matching, OneUsers

\* ORDER BY server_updated_at, id puts one user's records in one order.
LEMMA BeforeOrders ==
    ASSUME NEW M, OneUsers(M)
    PROVE  /\ \A k, m \in M : Before(k, m) => ~Before(m, k)
           /\ \A k, m, n \in M : Before(k, m) /\ Before(m, n) => Before(k, n)
           /\ \A k, m \in M : k = m \/ Before(k, m) \/ Before(m, k)
<1>1. \A k \in M : rows[k].server_updated_at \in Nat /\ k[2] \in Nat
  BY ConstantsAssumption DEF OneUsers, Key, Row
<1>2. \A k, m \in M : k[2] = m[2] => k = m
  BY DEF OneUsers, Key
<1> QED  BY <1>1, <1>2 DEF Before

\* Of one user's records, one is the first.
LEMMA FirstRow ==
    ASSUME NEW M, OneUsers(M), M # {}
    PROVE  \E k \in M : \A m \in M : m = k \/ Before(k, m)
<1>1. \A k \in M : rows[k].server_updated_at \in Nat /\ k[2] \in Nat
  BY ConstantsAssumption DEF OneUsers, Key, Row
<1> DEFINE Times == {rows[k].server_updated_at : k \in M}
<1>2. PICK t \in Times : \A s \in Times : t <= s
  <2>1. Times \in SUBSET Nat /\ Times # {}  BY <1>1
  <2> QED  BY <2>1, LeastNatural
<1> DEFINE Ids == {k[2] : k \in {m \in M : rows[m].server_updated_at = t}}
<1>3. PICK i \in Ids : \A j \in Ids : i <= j
  <2>1. Ids \in SUBSET Nat /\ Ids # {}  BY <1>1
  <2> QED  BY <2>1, LeastNatural
<1>4. PICK k \in M : rows[k].server_updated_at = t /\ k[2] = i
  OBVIOUS
<1>5. ASSUME NEW m \in M PROVE m = k \/ Before(k, m)
  <2>1. t <= rows[m].server_updated_at  BY <1>2
  <2>2. rows[m].server_updated_at = t => i <= m[2]  BY <1>3
  <2>3. m[2] = k[2] => m = k  BY DEF OneUsers, Key
  <2>4. /\ rows[m].server_updated_at \in Nat /\ m[2] \in Nat
        /\ rows[k].server_updated_at \in Nat /\ k[2] \in Nat
    BY <1>1
  <2> HIDE DEF Times, Ids
  <2> QED  BY <1>4, <2>1, <2>2, <2>3, <2>4 DEF Before
<1> QED  BY <1>5

\* Of finitely many, one is the last: the one that the fewest come after.
LEMMA LastRow ==
    ASSUME NEW P, OneUsers(P), IsFiniteSet(P), P # {}
    PROVE  \E k \in P : IsLast(k, P)
<1> DEFINE Behind(k) == {p \in P : Before(k, p)}
           Counts == {Cardinality(Behind(k)) : k \in P}
<1>1. ASSUME NEW k \in P
      PROVE  IsFiniteSet(Behind(k)) /\ Cardinality(Behind(k)) \in Nat
  <2>1. Behind(k) \in SUBSET P  OBVIOUS
  <2> HIDE DEF Behind
  <2> QED  BY <2>1, FS_Subset, FS_CardinalityType
<1>2. PICK n \in Counts : \A m \in Counts : n <= m
  <2>1. Counts \in SUBSET Nat /\ Counts # {}  BY <1>1
  <2> QED  BY <2>1, LeastNatural
<1>3. PICK k \in P : n = Cardinality(Behind(k))
  OBVIOUS
<1>4. ASSUME NEW p \in P, Before(k, p) PROVE FALSE
  <2>1. Behind(p) \in SUBSET Behind(k)
    BY <1>4, BeforeOrders
  <2>2. p \in Behind(k) /\ p \notin Behind(p)
    BY <1>4, BeforeOrders
  <2>3. Cardinality(Behind(k)) <= Cardinality(Behind(p))
    BY <1>2, <1>3
  <2>4. IsFiniteSet(Behind(k)) /\ Cardinality(Behind(k)) \in Nat
        /\ Cardinality(Behind(p)) \in Nat
    BY <1>1
  <2> HIDE DEF Behind
  <2>5. /\ Cardinality(Behind(p)) <= Cardinality(Behind(k))
        /\ Cardinality(Behind(k)) = Cardinality(Behind(p)) => Behind(k) = Behind(p)
    BY <2>1, <2>4, FS_Subset
  <2> QED  BY <2>2, <2>3, <2>4, <2>5
<1>5. IsLast(k, P)
  BY <1>4, BeforeOrders DEF IsLast
<1> QED  BY <1>5

\* Two pages of the same records are the same page.
LEMMA OnePage ==
    ASSUME NEW M, OneUsers(M), IsFiniteSet(M), NEW P \in Pages(M), NEW Q \in Pages(M)
    PROVE  P = Q
<1>1. P \in SUBSET M /\ Q \in SUBSET M  BY DEF Pages
<1>2. /\ \A k \in P, m \in M \ P : Before(k, m)
      /\ \A k \in Q, m \in M \ Q : Before(k, m)
  BY DEF Pages
<1>3. P \subseteq Q \/ Q \subseteq P
  <2>1. SUFFICES ASSUME NEW p \in P \ Q, NEW q \in Q \ P PROVE FALSE
    OBVIOUS
  <2>2. Before(p, q) /\ Before(q, p)  BY <1>1, <1>2
  <2> QED  BY <1>1, <2>2, BeforeOrders
<1>4. IsFiniteSet(P) /\ IsFiniteSet(Q)  BY <1>1, FS_Subset
<1>5. P = Q \/ Cardinality(P) = Cardinality(Q)  BY DEF Pages
<1>6. P \subseteq Q => P = Q  BY <1>4, <1>5, FS_Subset
<1>7. Q \subseteq P => P = Q  BY <1>4, <1>5, FS_Subset
<1> QED  BY <1>3, <1>6, <1>7

\* There is a page: the longest piece from the start that fits.
LEMMA SomePage ==
    ASSUME NEW M, OneUsers(M), IsFiniteSet(M)
    PROVE  \E P \in SUBSET M : P \in Pages(M)
<1> DEFINE Starts == {P \in SUBSET M : /\ \A k \in P, m \in M \ P : Before(k, m)
                                       /\ Cardinality(P) <= PAGE_LIMIT}
           Rooms == {PAGE_LIMIT - Cardinality(P) : P \in Starts}
<1>1. ASSUME NEW P \in SUBSET M
      PROVE  IsFiniteSet(P) /\ Cardinality(P) \in Nat
  BY FS_Subset, FS_CardinalityType
<1>2. PAGE_LIMIT \in Nat \ {0}  BY ConstantsAssumption
<1>3. PICK n \in Rooms : \A m \in Rooms : n <= m
  <2>1. Rooms \in SUBSET Nat
    BY <1>1, <1>2
  <2>2. {} \in Starts
    BY <1>2, FS_EmptySet
  <2>3. Rooms # {}
    BY <2>2
  <2> QED  BY <2>1, <2>3, LeastNatural
<1>4. PICK P \in Starts : n = PAGE_LIMIT - Cardinality(P)
  OBVIOUS
<1>5. /\ P \in SUBSET M /\ Cardinality(P) \in Nat /\ Cardinality(P) <= PAGE_LIMIT
      /\ \A k \in P, m \in M \ P : Before(k, m)
  BY <1>1
<1>6. ASSUME P # M, Cardinality(P) # PAGE_LIMIT PROVE FALSE
  <2>1. OneUsers(M \ P) /\ M \ P # {}
    BY <1>5, <1>6 DEF OneUsers
  <2>2. PICK k \in M \ P : \A m \in M \ P : m = k \/ Before(k, m)
    BY <2>1, FirstRow
  <2>3. Cardinality(P \cup {k}) = Cardinality(P) + 1
    BY <1>1, <1>5, FS_AddElement
  <2>4. P \cup {k} \in SUBSET M /\ Cardinality(P \cup {k}) <= PAGE_LIMIT
    BY <1>2, <1>5, <1>6, <2>3
  <2>5. \A p \in P \cup {k}, m \in M \ (P \cup {k}) : Before(p, m)
    BY <1>5, <2>2
  <2>6. P \cup {k} \in Starts
    BY <2>4, <2>5
  <2>7. n <= PAGE_LIMIT - Cardinality(P \cup {k})
    BY <1>3, <2>6
  <2> HIDE DEF Starts, Rooms
  <2> QED  BY <1>2, <1>4, <1>5, <2>3, <2>7
<1>7. Cardinality(P) <= Cardinality(M) /\ Cardinality(M) \in Nat
  BY <1>5, FS_Subset, FS_CardinalityType
<1>8. IF Cardinality(M) < PAGE_LIMIT THEN P = M ELSE Cardinality(P) = PAGE_LIMIT
  BY <1>2, <1>5, <1>6, <1>7
<1> QED  BY <1>5, <1>8 DEF Pages

\* What there is to answer a pull with.
PullAnswered ==
    \A r \in Req : phase[r] = "pull" =>
        \E P \in Pages(Matching(r)) :
            /\ \A Q \in Pages(Matching(r)) : Q = P
            /\ Cardinality(P) = PAGE_LIMIT =>
                 \E k \in P : IsLast(k, P) /\ \A m \in P : IsLast(m, P) => m = k

\* A pull finds exactly one page, and in a full one exactly one last record to
\* make the next cursor of: the select never leaves a request without an
\* answer, nor with a choice of answers.
THEOREM PullsAreAnswered ==
    ASSUME IsFiniteSet(User), IsFiniteSet(Id)
    PROVE  Spec => []PullAnswered
<1>1. IsFiniteSet(Key)  BY FS_Product DEF Key
<1>2. ASSUME TypeOK, NEW r \in Req
      PROVE  \E P \in Pages(Matching(r)) :
               /\ \A Q \in Pages(Matching(r)) : Q = P
               /\ Cardinality(P) = PAGE_LIMIT =>
                    \E k \in P : IsLast(k, P) /\ \A m \in P : IsLast(m, P) => m = k
  <2>1. OneUsers(Matching(r))  BY <1>2, MatchingIsOneUsers
  <2>2. IsFiniteSet(Matching(r))
    <3>1. Matching(r) \in SUBSET Key  BY DEF Matching
    <3> QED  BY <1>1, <3>1, FS_Subset
  <2>3. PICK P \in Pages(Matching(r)) : TRUE
    BY <2>1, <2>2, SomePage
  <2>4. \A Q \in Pages(Matching(r)) : Q = P
    BY <2>1, <2>2, OnePage
  <2>5. ASSUME Cardinality(P) = PAGE_LIMIT
        PROVE  \E k \in P : IsLast(k, P) /\ \A m \in P : IsLast(m, P) => m = k
    <3>1. P \in SUBSET Matching(r)  BY DEF Pages
    <3>2. OneUsers(P)  BY <2>1, <3>1 DEF OneUsers
    <3>3. IsFiniteSet(P)  BY <2>2, <3>1, FS_Subset
    <3>4. P # {}  BY <2>5, FS_EmptySet, ConstantsAssumption
    <3>5. PICK k \in P : IsLast(k, P)  BY <3>2, <3>3, <3>4, LastRow
    <3>6. \A m \in P : IsLast(m, P) => m = k
      BY <3>2, <3>5, BeforeOrders DEF IsLast
    <3> QED  BY <3>5, <3>6
  <2> QED  BY <2>4, <2>5
<1>3. TypeOK => PullAnswered
  BY <1>2 DEF PullAnswered
<1> QED  BY <1>3, TypeCorrect, PTL
=============================================================================
