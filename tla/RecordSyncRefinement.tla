-------------------------- MODULE RecordSyncRefinement --------------------------
(***************************************************************************)
(* Proofs that per-record synchronisation implements the store of          *)
(* RecordStore: a push takes effect at its commit, as a whole and at once, *)
(* although its upserts run between those of other requests.               *)
(***************************************************************************)
EXTENDS RecordSyncProofs

-----------------------------------------------------------------------------
(* The records of a batch *)

\* The record of the store and the row of an upsert are the same.
LEMMA StampedRow ==
    ASSUME NEW d, NEW t, NEW c
    PROVE  Store!Stamped(d, t, c) = [updated_at |-> Clamp(c.updated_at, t),
                                     server_updated_at |-> t,
                                     data |-> d]
BY DEF Store!Stamped, Clamp

\* The changes a push has been through make rows of the table.
LEMMA PassedRowsType ==
    ASSUME TypeOK, NEW r \in Req, phase[r] # "idle", NEW k \in Key
    PROVE  PassedRows(r, k) \subseteq Row
<1>1. /\ job[r].device \in Device /\ job[r].sync_point \in Nat \ {0}
      /\ job[r].changes \in Seq([id : Id, updated_at : Nat])
  BY JobTypes
<1>2. ASSUME NEW i \in 1 .. Len(job[r].changes)
      PROVE  Store!Stamped(job[r].device, job[r].sync_point, job[r].changes[i]) \in Row
  <2>1. job[r].changes[i] \in [id : Id, updated_at : Nat]
    BY <1>1, SeqElement
  <2>2. job[r].changes[i].updated_at \in Nat
    BY <2>1
  <2> QED  BY <1>1, <2>2, StampedRow, ClampType DEF Row
<1> QED  BY <1>2 DEF PassedRows

\* A key of which a push has been through a change is locked by it.
LEMMA PassedLocked ==
    ASSUME Inductive, NEW r \in Req, phase[r] = "push", NEW k \in Key,
           PassedRows(r, k) # {}
    PROVE  lock[k] = r
<1>1. PICK j \in 1 .. Len(job[r].changes) :
        j < job[r].idx /\ ChangeKey(r, job[r].changes[j]) = k
  BY DEF PassedRows
<1>2. Passed(r, j)  BY <1>1 DEF Inductive, Progress
<1> QED  BY <1>1, <1>2 DEF Passed

\* Nothing written over a record leaves it.
LEMMA NoWinner ==
    ASSUME NEW old
    PROVE  Store!Winners(old, {}) = {old}
BY DEF Store!Winners

\* Writing one more record over the latest of some yields the latest of all.
LEMMA OneMoreWinner ==
    ASSUME NEW old \in Row \cup {None}, NEW C \in SUBSET Row, NEW new \in Row,
           NEW v \in Store!Winners(old, C)
    PROVE  (IF Wins(new, v) THEN new ELSE v) \in Store!Winners(old, C \cup {new})
<1>1. /\ new # None /\ new.updated_at \in Nat
      /\ \A c \in C : c # None /\ c.updated_at \in Nat
      /\ old # None => old.updated_at \in Nat
  BY NoneAssumption DEF Row
<1>2. CASE v \in C /\ Store!Beats(v, old) /\ \A c \in C : Store!Beats(v, c)
  BY <1>1, <1>2 DEF Store!Winners, Store!Beats, Wins
<1>3. CASE v = old /\ \A c \in C : ~Store!Beats(c, old)
  BY <1>1, <1>3 DEF Store!Winners, Store!Beats, Wins
<1> QED  BY <1>2, <1>3 DEF Store!Winners

-----------------------------------------------------------------------------
(* An open transaction sees the latest of what it has been through *)

\* What BatchesMerge says of one request.
MergesBatch(r) ==
    \A k \in Key : Visible(r, k) \in Store!Winners(rows[k], PassedRows(r, k))

\* A push at its first change, with nothing written.
LEMMA FreshMerges ==
    ASSUME NEW r \in Req, job'[r].idx = 1, writes'[r] = EmptyTable
    PROVE  MergesBatch(r)'
<1>1. \A k \in Key : PassedRows(r, k)' = {}  BY DEF PassedRows
<1>2. \A k \in Key : Visible(r, k)' = rows'[k]  BY DEF Visible, EmptyTable
<1> QED  BY <1>1, <1>2, NoWinner DEF MergesBatch

\* A push that another request's step leaves alone, rows it has locked
\* included.
LEMMA OthersMerge ==
    ASSUME Inductive, BatchesMerge, NEW r \in Req, phase[r] = "push",
           job'[r] = job[r], writes'[r] = writes[r],
           \A k \in Key : lock[k] = r => rows'[k] = rows[k]
    PROVE  MergesBatch(r)'
<1> SUFFICES ASSUME NEW k \in Key
             PROVE  Visible(r, k)' \in Store!Winners(rows'[k], PassedRows(r, k)')
  BY DEF MergesBatch
<1>1. PassedRows(r, k)' = PassedRows(r, k)
  BY DEF PassedRows, ChangeKey
<1>2. Visible(r, k) \in Store!Winners(rows[k], PassedRows(r, k))
  BY DEF BatchesMerge
<1>3. CASE lock[k] = r
  BY <1>1, <1>2, <1>3 DEF Visible
<1>4. CASE lock[k] # r
  <2>1. PassedRows(r, k) = {} /\ writes[r][k] = None
    BY <1>4, PassedLocked DEF Inductive, Transactions
  <2> QED  BY <1>1, <2>1, NoWinner DEF Visible
<1> QED  BY <1>3, <1>4

\* An upsert: one more change, compared with what the transaction sees.
LEMMA UpsertMerges ==
    ASSUME Inductive, BatchesMerge, NEW r \in Req, Upsert(r)
    PROVE  MergesBatch(r)'
<1> DEFINE c == job[r].changes[job[r].idx]
           new == [updated_at |-> Clamp(c.updated_at, job[r].sync_point),
                   server_updated_at |-> job[r].sync_point,
                   data |-> job[r].device]
<1>1. TypeOK /\ NextKey(r) \in Key  BY UpsertEffect DEF Inductive
<1> PICK m \in Key : m = NextKey(r)  BY <1>1
<1>2. /\ phase[r] = "push" /\ phase[r] # "idle"
      /\ job[r].idx \in 1 .. Len(job[r].changes)
      /\ \A k \in Key \ {m} : writes'[r][k] = writes[r][k]
      /\ job'[r] = [job[r] EXCEPT !.idx = @ + 1] /\ rows' = rows
  BY <1>1, UpsertEffect
<1>3. /\ new \in Row /\ new # None
      /\ \/ writes'[r][m] = new /\ Wins(new, Visible(r, m))
         \/ writes'[r][m] = writes[r][m] /\ ~Wins(new, Visible(r, m))
  BY <1>1, UpsertRow
<1>4. Visible(r, m)' = IF Wins(new, Visible(r, m)) THEN new ELSE Visible(r, m)
  BY <1>2, <1>3 DEF Visible
<1>5. /\ job'[r].device = job[r].device /\ job'[r].changes = job[r].changes
      /\ job'[r].sync_point = job[r].sync_point /\ job'[r].idx = job[r].idx + 1
      /\ job[r].idx \in Nat
  BY <1>1, <1>2, JobTypes DEF Job
<1>6. Store!Stamped(job[r].device, job[r].sync_point, c) = new
  BY StampedRow
<1>7. ChangeKey(r, c) = m  BY DEF NextKey
<1> HIDE DEF new, c
<1>8. \A k \in Key :
        PassedRows(r, k)' = PassedRows(r, k) \cup (IF k = m THEN {new} ELSE {})
  <2> SUFFICES ASSUME NEW k \in Key
               PROVE  PassedRows(r, k)' = PassedRows(r, k)
                                          \cup (IF k = m THEN {new} ELSE {})
    OBVIOUS
  <2> DEFINE before == {j \in 1 .. Len(job[r].changes) :
                          /\ j < job[r].idx
                          /\ ChangeKey(r, job[r].changes[j]) = k}
             after == {j \in 1 .. Len(job[r].changes) :
                          /\ j < job[r].idx + 1
                          /\ ChangeKey(r, job[r].changes[j]) = k}
             row(i) == Store!Stamped(job[r].device, job[r].sync_point,
                                     job[r].changes[i])
  <2>1. after = before \cup (IF k = m THEN {job[r].idx} ELSE {})
    BY <1>2, <1>5, <1>7 DEF c
  <2>2. PassedRows(r, k) = {row(i) : i \in before}
    BY DEF PassedRows
  <2>3. PassedRows(r, k)' = {row(i) : i \in after}
    BY <1>5 DEF PassedRows, ChangeKey
  <2>4. row(job[r].idx) = new
    BY <1>6 DEF c
  <2> HIDE DEF row, before, after
  <2> QED  BY <2>1, <2>2, <2>3, <2>4
<1>9. \A k \in Key : /\ Visible(r, k) \in Store!Winners(rows[k], PassedRows(r, k))
                     /\ PassedRows(r, k) \in SUBSET Row
                     /\ rows[k] \in Row \cup {None}
  BY <1>1, <1>2, PassedRowsType DEF BatchesMerge, TypeOK, Table
<1>10. ASSUME NEW k \in Key \ {m}
       PROVE  Visible(r, k)' \in Store!Winners(rows'[k], PassedRows(r, k)')
  <2>1. Visible(r, k)' = Visible(r, k)  BY <1>2 DEF Visible
  <2>2. PassedRows(r, k)' = PassedRows(r, k)  BY <1>8
  <2> QED  BY <2>1, <2>2, <1>2, <1>9
<1>11. Visible(r, m)' \in Store!Winners(rows'[m], PassedRows(r, m)')
  <2>1. PassedRows(r, m)' = PassedRows(r, m) \cup {new}  BY <1>2, <1>8
  <2>2. (IF Wins(new, Visible(r, m)) THEN new ELSE Visible(r, m))
          \in Store!Winners(rows[m], PassedRows(r, m) \cup {new})
    BY <1>2, <1>3, <1>9, OneMoreWinner
  <2> QED  BY <2>1, <2>2, <1>2, <1>4
<1> QED  BY <1>10, <1>11 DEF MergesBatch

\* Every step keeps what open transactions see the latest of what they have
\* been through.
LEMMA NextMerges ==
    ASSUME Inductive, BatchesMerge, [Next]_vars
    PROVE  BatchesMerge'
<1> SUFFICES ASSUME NEW q \in Req, phase'[q] = "push" PROVE MergesBatch(q)'
  BY DEF BatchesMerge, MergesBatch
<1>1. TypeOK  BY DEF Inductive
<1>2. ASSUME NEW r \in Req, NEW d \in Device, NEW changes \in Batches,
             Receive(r, d, changes)
      PROVE  MergesBatch(q)'
  <2>1. CASE q = r
    <3>1. phase[r] = "idle" /\ job'[r].idx = 1 /\ writes' = writes
      BY <1>1, <1>2, ReceiveEffect
    <3>2. writes[r] = EmptyTable
      BY <1>1, <3>1 DEF TypeOK, SlotOK
    <3> QED  BY <2>1, <3>1, <3>2, FreshMerges
  <2>2. CASE q # r
    <3>1. phase[q] = "push" /\ job'[q] = job[q] /\ writes' = writes /\ rows' = rows
      BY <1>1, <1>2, <2>2, ReceiveEffect
    <3> QED  BY <3>1, OthersMerge
  <2> QED  BY <2>1, <2>2
<1>3. ASSUME NEW r \in Req, Upsert(r) PROVE MergesBatch(q)'
  <2>1. CASE q = r  BY <1>3, <2>1, UpsertMerges
  <2>2. CASE q # r
    <3>1. phase[q] = "push" /\ job'[q] = job[q] /\ writes'[q] = writes[q]
          /\ rows' = rows
      BY <1>1, <1>3, <2>2, UpsertEffect
    <3> QED  BY <3>1, OthersMerge
  <2> QED  BY <2>1, <2>2
<1>4. ASSUME NEW r \in Req, IntegrityRetry(r) PROVE MergesBatch(q)'
  <2>1. CASE q = r
    BY <1>1, <1>4, <2>1, IntegrityRetryEffect, FreshMerges
  <2>2. CASE q # r
    <3>1. phase[q] = "push" /\ job'[q] = job[q] /\ writes'[q] = writes[q]
          /\ rows' = rows
      BY <1>1, <1>4, <2>2, IntegrityRetryEffect
    <3> QED  BY <3>1, OthersMerge
  <2> QED  BY <2>1, <2>2
<1>5. ASSUME NEW r \in Req, Commit(r) PROVE MergesBatch(q)'
  <2>1. q # r /\ phase[q] = "push" /\ job' = job /\ writes'[q] = writes[q]
    BY <1>1, <1>5, CommitEffect
  <2>2. \A k \in Key : lock[k] = q => rows'[k] = rows[k]
    BY <1>1, <1>5, <2>1, CommitEffect DEF Inductive, Transactions, Visible
  <2> QED  BY <2>1, <2>2, OthersMerge
<1>6. ASSUME NEW r \in Req, PullRest(r) \/ PullPage(r) PROVE MergesBatch(q)'
  <2>1. PICK P \in Pages(Matching(r)), next \in Cursor : Answer(r, P, next)
    BY <1>1, <1>6, PullRestNext, PullPageNext
  <2>2. phase[q] = "push" /\ job' = job /\ writes' = writes /\ rows' = rows
    BY <1>1, <2>1, AnswerEffect
  <2> QED  BY <2>2, OthersMerge
<1>7. ASSUME NEW r \in Req, Deliver(r) PROVE MergesBatch(q)'
  <2>1. phase[q] = "push" /\ job'[q] = job[q] /\ writes' = writes /\ rows' = rows
    BY <1>1, <1>7, DeliverEffect
  <2> QED  BY <2>1, OthersMerge
<1>8. ASSUME NEW r \in Req, Fail(r) \/ DeadlockAbort(r) PROVE MergesBatch(q)'
  <2>1. phase[q] = "push" /\ job'[q] = job[q] /\ writes'[q] = writes[q]
        /\ rows' = rows
    BY <1>1, <1>8, AbortEffect DEF Fail, DeadlockAbort
  <2> QED  BY <2>1, OthersMerge
<1>9. ASSUME (\E d \in Device : GiveUp(d)) \/ UNCHANGED vars PROVE MergesBatch(q)'
  <2>1. phase' = phase /\ job' = job /\ writes' = writes /\ rows' = rows
    BY <1>9 DEF GiveUp, serverVars, vars
  <2> QED  BY <2>1, OthersMerge
<1> QED  BY <1>2, <1>3, <1>4, <1>5, <1>6, <1>7, <1>8, <1>9 DEF Next

\* No clock beyond the bound of the model.
ClockBounded == now \in 0 .. MaxTime

\* Every step keeps the clock within its bound.
LEMMA NextClock ==
    ASSUME TypeOK, ClockBounded, [Next]_vars
    PROVE  ClockBounded'
<1>1. now' = now \/ (now < MaxTime /\ now' = now + 1)
  BY DEF Next, vars, Receive, Upsert, IntegrityRetry, Commit, PullRest, PullPage,
         Answer, Deliver, Fail, DeadlockAbort, Abort, GiveUp, serverVars
<1> QED  BY <1>1, ConstantsAssumption DEF ClockBounded

\* An open transaction sees, of each record, the latest of the changes it has
\* been through and of the committed row.
THEOREM TransactionsMerge == Spec => [](BatchesMerge /\ ClockBounded)
<1>1. Init => BatchesMerge /\ ClockBounded
  BY ConstantsAssumption DEF Init, BatchesMerge, ClockBounded
<1>2. Inductive /\ BatchesMerge /\ ClockBounded /\ [Next]_vars
        => (BatchesMerge /\ ClockBounded)'
  BY NextMerges, NextClock DEF Inductive
<1> QED  BY <1>1, <1>2, AlwaysInductive, PTL DEF Spec

-----------------------------------------------------------------------------
(* Refinement *)

Copies == [d \in Device |-> Copy(d)]

\* A step after which every device is sent what it was sent before.
LEMMA SameCopies ==
    ASSUME \A d \in Device : Copy(d)' = Copy(d)
    PROVE  Copies' = Copies
BY DEF Copies

\* A step after which one device is sent something else.
LEMMA OneCopy ==
    ASSUME NEW d \in Device, NEW T, Copy(d)' = T,
           \A e \in Device \ {d} : Copy(e)' = Copy(e)
    PROVE  Copies' = [Copies EXCEPT ![d] = T]
BY DEF Copies

\* Only the device of a request waits for it.
LEMMA OneWaits ==
    ASSUME Inductive, NEW d \in Device, NEW r \in Req, wait[d] = r
    PROVE  phase[r] # "idle" /\ job[r].device = d
BY NoneAssumption DEF Inductive, Waiting

\* A request that comes in is no step of the store.
LEMMA ReceiveRefines ==
    ASSUME Inductive, NEW r \in Req, NEW d \in Device, NEW changes \in Batches,
           Receive(r, d, changes)
    PROVE  UNCHANGED <<rows, Copies, view>>
<1>1. /\ phase[r] = "idle" /\ phase'[r] # "reply" /\ wait[d] = None /\ wait'[d] = r
      /\ \A e \in Device \ {d} : wait'[e] = wait[e]
      /\ \A q \in Req \ {r} : phase'[q] = phase[q]
      /\ resp' = resp /\ rows' = rows /\ view' = view
  BY ReceiveEffect DEF Inductive
<1>2. \A e \in Device : wait[e] # None => wait[e] \in Req \ {r}
  BY <1>1, OneWaits DEF Inductive, TypeOK
<1>3. \A e \in Device : Copy(e)' = Copy(e)
  <2> TAKE e \in Device
  <2>1. CASE e = d  BY <2>1, <1>1, NoneAssumption DEF Copy
  <2>2. CASE e # d  BY <2>2, <1>1, <1>2 DEF Copy
  <2> QED  BY <2>1, <2>2
<1> QED  BY <1>1, <1>3, SameCopies

\* The steps inside a transaction are no steps of the store.
LEMMA InsideRefines ==
    ASSUME Inductive, NEW r \in Req, Upsert(r) \/ IntegrityRetry(r)
    PROVE  UNCHANGED <<rows, Copies, view>>
<1>1. UNCHANGED <<rows, phase, resp, wait, view>>
  BY UpsertEffect, IntegrityRetryEffect DEF Inductive
<1>2. \A e \in Device : Copy(e)' = Copy(e)
  BY <1>1 DEF Copy
<1> QED  BY <1>1, <1>2, SameCopies

\* The commit is where a push takes effect, with the whole of its batch.
LEMMA CommitRefines ==
    ASSUME Inductive, BatchesMerge, ClockBounded, NEW r \in Req, Commit(r)
    PROVE  \E d \in Device, t \in 1 .. MaxTime, batch \in Batches :
             Store!Push(d, t, batch)
<1> DEFINE d == job[r].device
           t == job[r].sync_point
           batch == job[r].changes
<1>1. TypeOK /\ TypeOK'  BY CommitTypeOK DEF Inductive
<1>2. /\ phase[r] = "push" /\ phase[r] # "idle" /\ phase'[r] = "pull"
      /\ job[r].idx > Len(batch)
      /\ \A q \in Req \ {r} : phase'[q] = phase[q]
      /\ \A k \in Key : rows'[k] = Visible(r, k)
      /\ UNCHANGED <<resp, wait, view>>
  BY <1>1, CommitEffect
<1>3. d \in Device /\ batch \in Batches /\ job[r].idx \in Nat
  BY <1>1, <1>2, JobTypes DEF Job
<1>4. t \in 1 .. MaxTime
  BY <1>1, <1>2, JobTypes, ConstantsAssumption
     DEF Inductive, Stamps, ClockBounded
<1>5. \A k \in Key : PassedRows(r, k) = Store!Candidates(d, t, batch, k)
  <2> TAKE k \in Key
  <2>1. batch \in Seq([id : Id, updated_at : Nat])
    BY <1>1, <1>2, JobTypes
  <2>2. \A j \in 1 .. Len(batch) : j < job[r].idx
    BY <1>2, <1>3, <2>1
  <2> QED  BY <2>2 DEF PassedRows, Store!Candidates, ChangeKey
<1>6. \A k \in Key : rows'[k] \in Store!Winners(rows[k], Store!Candidates(d, t, batch, k))
  BY <1>2, <1>5 DEF BatchesMerge
<1>7. rows' \in Store!Table
  BY <1>1 DEF TypeOK, Table, Row, Key, Store!Table, Store!Row, Store!Key
<1>8. \A e \in Device : Copy(e)' = Copy(e)
  BY <1>1, <1>2 DEF Copy, TypeOK
<1>9. Copies' = Copies  BY <1>8, SameCopies
<1>10. Store!Push(d, t, batch)
  BY <1>2, <1>6, <1>7, <1>9 DEF Store!Push, Store!Key, Key, Copies
<1> QED  BY <1>3, <1>4, <1>10

\* A pull takes a copy of rows of the device's user as they stand, if the
\* device still waits.
LEMMA AnswerRefines ==
    ASSUME Inductive, NEW r \in Req, phase[r] = "pull",
           NEW P \in Pages(Matching(r)), NEW next \in Cursor, Answer(r, P, next)
    PROVE  \/ UNCHANGED <<rows, Copies, view>>
           \/ \E d \in Device : \E Q \in SUBSET ({Owner[d]} \X Id) : Store!Take(d, Q)
<1>1. TypeOK  BY DEF Inductive
<1> PICK d \in Device : d = job[r].device  BY <1>1, JobTypes
<1>3. /\ phase'[r] = "reply"
      /\ resp'[r].changes = [k \in Key |-> IF k \in P THEN rows[k] ELSE None]
      /\ \A q \in Req \ {r} : phase'[q] = phase[q] /\ resp'[q] = resp[q]
      /\ UNCHANGED <<rows, wait, view>>
  <2>1. resp'[r].changes = [k \in Key |-> IF k \in P THEN rows[k] ELSE None]
    BY <1>1 DEF Answer, TypeOK
  <2> QED  BY <1>1, <2>1, AnswerEffect
<1>4. \A e \in Device \ {d} : Copy(e)' = Copy(e)
  <2> TAKE e \in Device \ {d}
  <2>1. wait[e] # r  BY OneWaits
  <2> QED  BY <1>1, <1>3, <2>1 DEF Copy, TypeOK
<1>5. CASE wait[d] = r
  <2>1. Copy(d)' = [k \in Key |-> IF k \in P THEN rows[k] ELSE None]
    BY <1>3, <1>5, NoneAssumption DEF Copy
  <2>2. P \in SUBSET ({Owner[d]} \X Id)
    <3> SUFFICES ASSUME NEW k \in P PROVE k \in {Owner[d]} \X Id
      OBVIOUS
    <3>1. k \in Key /\ k[1] = Owner[d]  BY <1>1, PageSubset
    <3> QED  BY <3>1 DEF Key
  <2>3. Copies' = [Copies EXCEPT ![d] = [k \in Key |-> IF k \in P THEN rows[k] ELSE None]]
    BY <1>4, <2>1, OneCopy
  <2>4. Store!Take(d, P)
    BY <1>3, <2>3 DEF Store!Take, Store!Key, Key, Copies
  <2> QED  BY <2>2, <2>4
<1>6. CASE wait[d] # r
  <2>1. Copy(d)' = Copy(d)
    BY <1>1, <1>3, <1>6 DEF Copy, TypeOK
  <2> QED  BY <1>3, <1>4, <2>1, SameCopies
<1> QED  BY <1>5, <1>6

\* A delivery puts the copy in the device, if the device still waits.
LEMMA DeliverRefines ==
    ASSUME Inductive, NEW r \in Req, Deliver(r)
    PROVE  UNCHANGED <<rows, Copies, view>> \/ \E d \in Device : Store!Put(d)
<1>1. TypeOK  BY DEF Inductive
<1> PICK d \in Device : d = job[r].device  BY <1>1, DeliverEffect
<1>2. /\ phase[r] = "reply"
      /\ \A q \in Req \ {r} : phase'[q] = phase[q] /\ resp'[q] = resp[q]
      /\ wait[d] # r => UNCHANGED <<wait, view>>
      /\ wait[d] = r => wait'[d] = None
      /\ \A e \in Device \ {d} : wait'[e] = wait[e]
      /\ rows' = rows
  BY <1>1, DeliverEffect
<1>3. \A e \in Device \ {d} : Copy(e)' = Copy(e)
  <2> TAKE e \in Device \ {d}
  <2>1. wait[e] # r  BY OneWaits
  <2> QED  BY <1>1, <1>2, <2>1 DEF Copy, TypeOK
<1>4. CASE wait[d] = r
  <2>1. Copy(d) = resp[r].changes /\ Copy(d)' = EmptyTable
    BY <1>2, <1>4, NoneAssumption DEF Copy
  <2>2. view' = [view EXCEPT ![d] = Merge(view[d], resp[r].changes)]
    BY <1>4 DEF Deliver
  <2>3. Copies' = [Copies EXCEPT ![d] = EmptyTable]
    BY <1>2, <1>3, <2>1, OneCopy
  <2>4. Copies[d] = Copy(d)  BY <1>2 DEF Copies
  <2>5. Merge(view[d], resp[r].changes)
          = [k \in Key |-> IF Copies[d][k] # None THEN Copies[d][k] ELSE view[d][k]]
    BY <2>1, <2>4 DEF Merge
  <2>6. Store!Put(d)
    BY <1>2, <2>2, <2>3, <2>5
       DEF Store!Put, Store!Key, Key, Store!EmptyTable, EmptyTable, Copies
  <2> QED  BY <1>2, <2>6
<1>5. CASE wait[d] # r
  <2>1. Copy(d)' = Copy(d)
    BY <1>1, <1>2, <1>5 DEF Copy, TypeOK
  <2> QED  BY <1>2, <1>3, <1>5, <2>1, SameCopies
<1> QED  BY <1>4, <1>5

\* A request that ends without an answer loses the copy, if there is one.
LEMMA AbortRefines ==
    ASSUME Inductive, NEW r \in Req, phase[r] # "idle", Abort(r)
    PROVE  UNCHANGED <<rows, Copies, view>> \/ \E d \in Device : Store!Lose(d)
<1>1. TypeOK  BY DEF Inductive
<1> PICK d \in Device : d = job[r].device  BY <1>1, JobTypes
<1>3. /\ phase'[r] = "idle"
      /\ \A q \in Req \ {r} : phase'[q] = phase[q] /\ resp'[q] = resp[q]
      /\ \A e \in Device : wait'[e] = IF wait[e] = r THEN None ELSE wait[e]
      /\ rows' = rows /\ view' = view
  BY <1>1, AbortEffect
<1>4. \A e \in Device \ {d} : Copy(e)' = Copy(e)
  <2> TAKE e \in Device \ {d}
  <2>1. wait[e] # r  BY OneWaits
  <2> QED  BY <1>1, <1>3, <2>1 DEF Copy, TypeOK
<1>5. CASE wait[d] = r
  <2>1. Copy(d)' = EmptyTable  BY <1>3, <1>5 DEF Copy
  <2>2. Copies' = [Copies EXCEPT ![d] = EmptyTable]
    BY <1>4, <2>1, OneCopy
  <2>3. Store!Lose(d)
    BY <1>3, <2>2 DEF Store!Lose, Store!EmptyTable, EmptyTable, Store!Key, Key, Copies
  <2> QED  BY <2>3
<1>6. CASE wait[d] # r
  <2>1. Copy(d)' = Copy(d)
    BY <1>1, <1>3, <1>6 DEF Copy, TypeOK
  <2> QED  BY <1>3, <1>4, <2>1, SameCopies
<1> QED  BY <1>5, <1>6

\* A device that gives up loses the copy, if there is one.
LEMMA GiveUpRefines ==
    ASSUME Inductive, NEW d \in Device, GiveUp(d)
    PROVE  Store!Lose(d)
<1>1. /\ UNCHANGED <<rows, phase, resp, view>>
      /\ wait'[d] = None /\ \A e \in Device \ {d} : wait'[e] = wait[e]
  BY DEF GiveUp, serverVars, Inductive, TypeOK
<1>2. Copies' = [Copies EXCEPT ![d] = EmptyTable]
  <2>1. Copy(d)' = EmptyTable  BY <1>1 DEF Copy
  <2>2. \A e \in Device \ {d} : Copy(e)' = Copy(e)  BY <1>1 DEF Copy
  <2> QED  BY <2>1, <2>2, OneCopy
<1> QED  BY <1>1, <1>2
         DEF Store!Lose, Store!EmptyTable, EmptyTable, Store!Key, Key, Copies

\* Initially the table is empty and nothing is on its way.
LEMMA InitRefines == Init => Store!Init
<1> SUFFICES ASSUME Init PROVE Store!Init
  OBVIOUS
<1>1. \A d \in Device : Copy(d) = EmptyTable  BY DEF Init, Copy
<1> QED  BY <1>1 DEF Init, Store!Init, Store!EmptyTable, EmptyTable, Store!Key, Key

\* Every step of the handlers is a step of the store or leaves it alone.
LEMMA NextRefines ==
    ASSUME Inductive, BatchesMerge, ClockBounded, [Next]_vars
    PROVE  [Store!Next]_(Store!vars)
<1> DEFINE Same == UNCHANGED <<rows, Copies, view>>
<1>1. Same => UNCHANGED Store!vars
  BY DEF Store!vars, Copies
<1>2. ASSUME NEW d \in Device,
             \/ \E t \in 1 .. MaxTime, batch \in Batches : Store!Push(d, t, batch)
             \/ \E Q \in SUBSET ({Owner[d]} \X Id) : Store!Take(d, Q)
             \/ Store!Put(d)
             \/ Store!Lose(d)
      PROVE  Store!Next
  BY <1>2 DEF Store!Next
<1> HIDE DEF Same
<1>3. ASSUME NEW r \in Req, NEW d \in Device, NEW changes \in Batches,
             Receive(r, d, changes)
      PROVE  Same
  BY <1>3, ReceiveRefines DEF Same
<1>4. ASSUME NEW r \in Req, Upsert(r) \/ IntegrityRetry(r) PROVE Same
  BY <1>4, InsideRefines DEF Same
<1>5. ASSUME NEW r \in Req, Commit(r) PROVE Store!Next
  BY <1>2, <1>5, CommitRefines
<1>6. ASSUME NEW r \in Req, PullRest(r) \/ PullPage(r) PROVE Same \/ Store!Next
  <2>1. PICK P \in Pages(Matching(r)), next \in Cursor :
          phase[r] = "pull" /\ Answer(r, P, next)
    BY <1>6, PullRestNext, PullPageNext DEF Inductive
  <2> QED  BY <1>2, <2>1, AnswerRefines DEF Same
<1>7. ASSUME NEW r \in Req, Deliver(r) PROVE Same \/ Store!Next
  BY <1>2, <1>7, DeliverRefines DEF Same
<1>8. ASSUME NEW r \in Req, Fail(r) \/ DeadlockAbort(r) PROVE Same \/ Store!Next
  <2>1. phase[r] # "idle" /\ Abort(r)
    BY <1>8 DEF Fail, DeadlockAbort, OnCycle, Waits, HasNext
  <2> QED  BY <1>2, <2>1, AbortRefines DEF Same
<1>9. ASSUME NEW d \in Device, GiveUp(d) PROVE Store!Next
  BY <1>2, <1>9, GiveUpRefines
<1>10. CASE UNCHANGED vars
  <2>1. UNCHANGED <<rows, phase, resp, wait, view>>  BY <1>10 DEF vars
  <2>2. \A d \in Device : Copy(d)' = Copy(d)  BY <2>1 DEF Copy
  <2> QED  BY <1>1, <2>1, <2>2, SameCopies DEF Same
<1> QED  BY <1>1, <1>3, <1>4, <1>5, <1>6, <1>7, <1>8, <1>9, <1>10 DEF Next

\* The handlers implement the store: every push takes effect as a whole and at
\* once, and every page is a picture of one moment.
THEOREM Refinement == Spec => ImplementsStore
<1>1. Inductive /\ BatchesMerge /\ ClockBounded /\ [Next]_vars
        => [Store!Next]_(Store!vars)
  BY NextRefines
<1> QED  BY <1>1, InitRefines, AlwaysInductive, TransactionsMerge, PTL
         DEF Spec, ImplementsStore, Store!Spec

-----------------------------------------------------------------------------
(* What the store promises, of the handlers *)

\* The constants are those the store needs.
LEMMA StoreConstants == Store!ConstantsOK
<1>1. Row = Store!Row /\ 1 .. MaxTime \subseteq Nat \ {0}
  BY ConstantsAssumption DEF Row, Store!Row
<1> QED  BY <1>1, ConstantsAssumption, NoneAssumption DEF Store!ConstantsOK

\* A device never goes back to an older edit of a record, however its answers
\* are delayed, lost and overtaken.
THEOREM DevicesAdvance == Spec => ViewsAdvance
<1>1. Store!Spec => Store!ViewsAdvance
  BY StoreConstants, Store!DevicesAdvance
<1> DEFINE Advance == \A d \in Device, k \in Key : view[d][k] # None =>
                        /\ view'[d][k] # None
                        /\ view'[d][k].updated_at >= view[d][k].updated_at
<1>2. TypeOK /\ [Advance]_(Store!vars) => [Advance]_vars
  BY RowTypes DEF Store!vars, Row
<1> QED  BY <1>1, <1>2, Refinement, TypeCorrect, PTL
         DEF ImplementsStore, Store!ViewsAdvance, Store!Key, Key, ViewsAdvance
=============================================================================
