---------------------------- MODULE StateSyncProofs ----------------------------
(***************************************************************************)
(* Proofs about StateSync, for any devices, payloads, number of requests   *)
(* at a time and number of versions.                                       *)
(***************************************************************************)
EXTENDS StateSync, TLAPS

-----------------------------------------------------------------------------
(* Type correctness *)

Phases == {"idle", "get", "select", "insert", "update", "refresh", "reply"}

\* A step of request r that leaves the other requests alone keeps the types if
\* it keeps those of r and of the row.
LEMMA TypesOfStep ==
    ASSUME TypeOK, NEW r \in Req,
           NEW p \in Phases, NEW j \in Job \cup {None}, NEW a \in Answer \cup {None},
           phase' = [phase EXCEPT ![r] = p],
           job' = [job EXCEPT ![r] = j],
           answer' = [answer EXCEPT ![r] = a],
           row' \in Content \cup {None},
           committed' \subseteq Content,
           wait' \in [Device -> Req \cup {None}],
           known' \in [Device -> Content],
           lock' = IF p = "update" THEN r ELSE IF lock = r THEN None ELSE lock,
           p = "update" => lock \in {None, r},
           p # "idle" => j \in Job,
           p = "reply" => a \in Answer
    PROVE  TypeOK'
<1>1. phase' \in [Req -> Phases] /\ job' \in [Req -> Job \cup {None}]
      /\ answer' \in [Req -> Answer \cup {None}]
  BY DEF TypeOK, Phases
<1>2. lock' \in Req \cup {None}
  BY DEF TypeOK
<1>3. \A q \in Req : /\ phase'[q] # "idle" => job'[q] \in Job
                     /\ phase'[q] = "reply" => answer'[q] \in Answer
                     /\ lock' = q <=> phase'[q] = "update"
  <2> TAKE q \in Req
  <2>1. CASE q = r
    BY <2>1, ConstantsAssumption DEF TypeOK
  <2>2. CASE q # r
    BY <2>2, ConstantsAssumption DEF TypeOK
  <2> QED  BY <2>1, <2>2
<1> QED  BY <1>1, <1>2, <1>3 DEF TypeOK, Phases

\* What the type invariant says of a request in flight.
LEMMA JobTypes ==
    ASSUME TypeOK, NEW r \in Req, phase[r] # "idle"
    PROVE  /\ job[r] \in Job
           /\ job[r].device \in Device
           /\ job[r].base \in Nat
           /\ job[r].payload \in Payload \cup {None}
BY DEF TypeOK, Job

\* The default at version 0 is a content, and so is what a reader is shown.
LEMMA ShownType ==
    ASSUME TypeOK
    PROVE  Start \in Content /\ Shown \in Content
BY ConstantsAssumption DEF TypeOK, Start, Shown, Content

\* The content a write makes of the row, unless its payload is Null.
LEMMA WriteType ==
    ASSUME NEW p \in Payload, p # Null, NEW n \in Nat
    PROVE  [payload |-> p, version |-> n] \in Content
BY DEF Content

\* The types hold initially.
LEMMA InitTypeOK == Init => TypeOK
<1> SUFFICES ASSUME Init PROVE TypeOK
  OBVIOUS
<1>1. Start \in Content  BY ConstantsAssumption DEF Start, Content
<1>2. \A r \in Req : phase[r] = "idle" /\ lock # r
  BY ConstantsAssumption DEF Init
<1> QED  BY <1>1, <1>2 DEF Init, TypeOK

-----------------------------------------------------------------------------
(* The inductive invariant: the frame of the steps *)

\* The answer of request r to an accepted write shows it or a later one.
Includes(r) ==
    ( phase[r] = "reply" /\ job[r].payload # None /\ answer[r].status = 200 )
    => /\ answer[r].body \in committed
       /\ answer[r].body.version > job[r].base
       /\ [payload |-> job[r].payload, version |-> job[r].base + 1] \in committed

\* A step of request r that leaves the row and the other requests alone keeps
\* the invariant if it keeps what the invariant says of r.
LEMMA HandlerStep ==
    ASSUME Inductive, TypeOK', NEW r \in Req,
           UNCHANGED <<row, committed, known>>,
           \A q \in Req \ {r} : /\ phase'[q] = phase[q]
                                /\ job'[q] = job[q]
                                /\ answer'[q] = answer[q],
           WriteProgress(r)', AnswerWasCommitted(r)', Includes(r)'
    PROVE  Inductive'
<1>1. Newest' /\ OneContentPerVersion' /\ KnownWasCommitted'
  BY DEF Inductive, Newest, OneContentPerVersion, KnownWasCommitted, Shown
<1>2. \A q \in Req : WriteProgress(q)' /\ AnswerWasCommitted(q)' /\ Includes(q)'
  <2> TAKE q \in Req
  <2>1. CASE q = r  BY <2>1
  <2>2. CASE q # r
    <3>1. WriteProgress(q) /\ AnswerWasCommitted(q) /\ Includes(q)
      BY DEF Inductive, AnswerIncludesWrite, Includes
    <3>2. phase'[q] = phase[q] /\ job'[q] = job[q] /\ answer'[q] = answer[q]
      BY <2>2
    <3> QED  BY <3>1, <3>2 DEF WriteProgress, AnswerWasCommitted, Includes, IsWrite
  <2> QED  BY <2>1, <2>2
<1>3. AnswerIncludesWrite'
  BY <1>2 DEF AnswerIncludesWrite, Includes
<1> QED  BY <1>1, <1>2, <1>3 DEF Inductive

\* A step in which request r commits a content newer than the row keeps the
\* invariant, if no other request is about to update the row.
LEMMA CommitStep ==
    ASSUME Inductive, TypeOK', NEW r \in Req, NEW content \in Content,
           Store(content), UNCHANGED known,
           content.version = Shown.version + 1,
           content = [payload |-> job[r].payload, version |-> job[r].base + 1],
           \A q \in Req \ {r} : /\ phase[q] # "update"
                                /\ phase'[q] = phase[q]
                                /\ job'[q] = job[q]
                                /\ answer'[q] = answer[q],
           IsWrite(r), job'[r] = job[r], phase'[r] = "refresh"
    PROVE  Inductive'
<1>1. row' = content /\ committed' = committed \cup {content}
  BY DEF Store
<1>2. /\ content.version \in Nat /\ Shown.version \in Nat
      /\ \A c \in committed : c.version \in Nat /\ c.version <= Shown.version
  BY ShownType DEF Inductive, TypeOK, Newest, Content
<1>3. \A c \in committed : c.version < content.version
  BY <1>2
<1>4. content # None
  BY NoneAssumption
<1>5. Shown' = content
  BY <1>1, <1>4 DEF Shown
<1>6. Newest'
  BY <1>1, <1>2, <1>3, <1>4, <1>5 DEF Newest
<1>7. OneContentPerVersion'
  BY <1>1, <1>2, <1>3 DEF Inductive, OneContentPerVersion
<1>8. KnownWasCommitted'
  BY <1>1 DEF Inductive, KnownWasCommitted
<1>9. \A q \in Req : WriteProgress(q)' /\ AnswerWasCommitted(q)' /\ Includes(q)'
  <2> TAKE q \in Req
  <2>1. CASE q = r
    <3>1. job[r].base \in Nat /\ content.version = job[r].base + 1
      <4>1. phase'[r] # "idle"  OBVIOUS
      <4>2. job'[r] \in Job  BY <4>1 DEF TypeOK
      <4> QED  BY <4>2 DEF Job
    <3> QED  BY <2>1, <3>1, <1>1, <1>4
             DEF WriteProgress, AnswerWasCommitted, Includes, IsWrite
  <2>2. CASE q # r
    <3>1. WriteProgress(q) /\ AnswerWasCommitted(q) /\ Includes(q)
      BY DEF Inductive, AnswerIncludesWrite, Includes
    <3>2. phase'[q] = phase[q] /\ job'[q] = job[q] /\ answer'[q] = answer[q]
          /\ phase[q] # "update"
      BY <2>2
    <3>3. phase[q] = "refresh" => row \in committed
                                  /\ row.version > job[q].base
                                  /\ job[q].base \in Nat
                                  /\ row.version \in Nat
      BY <3>1, JobTypes, <1>2 DEF WriteProgress, Inductive, Newest, Shown
    <3>4. phase[q] = "refresh" => content.version > job[q].base
      BY <3>3, <1>2, <1>3
    <3> QED  BY <3>1, <3>2, <3>4, <1>1, <1>4
             DEF WriteProgress, AnswerWasCommitted, Includes, IsWrite
  <2> QED  BY <2>1, <2>2
<1>10. AnswerIncludesWrite'
  BY <1>9 DEF AnswerIncludesWrite, Includes
<1> QED  BY <1>6, <1>7, <1>8, <1>9, <1>10 DEF Inductive

-----------------------------------------------------------------------------
(* The inductive invariant: the steps *)

\* The invariant holds initially.
LEMMA InitInductive == Init => Inductive
<1> SUFFICES ASSUME Init PROVE Inductive
  OBVIOUS
<1>1. Newest /\ OneContentPerVersion /\ KnownWasCommitted /\ AnswerIncludesWrite
  BY DEF Init, Newest, OneContentPerVersion, KnownWasCommitted,
         AnswerIncludesWrite, Shown, Start
<1>2. \A r \in Req : WriteProgress(r) /\ AnswerWasCommitted(r)
  BY DEF Init, WriteProgress, AnswerWasCommitted
<1> QED  BY <1>1, <1>2, InitTypeOK DEF Inductive

\* A post keeps the invariant.
LEMMA PostInductive ==
    ASSUME Inductive, NEW r \in Req, NEW d \in Device,
           NEW b \in 0 .. (MaxVersion - 1), NEW p \in Payload, Post(r, d, b, p)
    PROVE  Inductive'
<1> DEFINE j == [device |-> d, base |-> b, payload |-> p]
<1>1. TypeOK /\ j \in Job /\ p # None /\ phase[r] = "idle" /\ lock # r
  BY ConstantsAssumption DEF Inductive, TypeOK, Job, Post
<1>2. TypeOK'
  <2>1. answer' = [answer EXCEPT ![r] = answer[r]] /\ answer[r] \in Answer \cup {None}
    BY <1>1 DEF Post, TypeOK
  <2>2. wait' \in [Device -> Req \cup {None}]
    BY <1>1 DEF Post, TypeOK
  <2>3. /\ job' = [job EXCEPT ![r] = j] /\ phase' = [phase EXCEPT ![r] = "select"]
        /\ row' = row /\ lock' = lock /\ committed' = committed /\ known' = known
    BY DEF Post
  <2> QED  BY <1>1, <2>1, <2>2, <2>3, TypesOfStep DEF TypeOK, Phases
<1>3. WriteProgress(r)' /\ AnswerWasCommitted(r)' /\ Includes(r)'
  BY <1>1 DEF Post, TypeOK, WriteProgress, AnswerWasCommitted, Includes, IsWrite
<1> QED  BY <1>1, <1>2, <1>3, HandlerStep DEF Post, TypeOK

\* A get keeps the invariant.
LEMMA GetInductive ==
    ASSUME Inductive, NEW r \in Req, NEW d \in Device, Get(r, d)
    PROVE  Inductive'
<1> DEFINE j == [device |-> d, base |-> 0, payload |-> None]
<1>1. TypeOK /\ j \in Job /\ phase[r] = "idle" /\ lock # r
  BY DEF Inductive, TypeOK, Job, Get
<1>2. TypeOK'
  <2>1. answer' = [answer EXCEPT ![r] = answer[r]] /\ answer[r] \in Answer \cup {None}
    BY <1>1 DEF Get, TypeOK
  <2>2. wait' \in [Device -> Req \cup {None}]
    BY <1>1 DEF Get, TypeOK
  <2>3. /\ job' = [job EXCEPT ![r] = j] /\ phase' = [phase EXCEPT ![r] = "get"]
        /\ row' = row /\ lock' = lock /\ committed' = committed /\ known' = known
    BY DEF Get
  <2> QED  BY <1>1, <2>1, <2>2, <2>3, TypesOfStep DEF TypeOK, Phases
<1>3. WriteProgress(r)' /\ AnswerWasCommitted(r)' /\ Includes(r)'
  BY <1>1 DEF Get, TypeOK, WriteProgress, AnswerWasCommitted, Includes, IsWrite
<1> QED  BY <1>1, <1>2, <1>3, HandlerStep DEF Get, TypeOK

\* An answer that leaves row and locals alone keeps the invariant, if a content
\* in it has been the row and, to a write, is as new as the write.
LEMMA ReplyInductive ==
    ASSUME Inductive, NEW r \in Req, NEW a \in Answer, Reply(r, a),
           phase[r] # "idle",
           UNCHANGED <<row, job, wait, known, committed>>,
           lock' = IF lock = r THEN None ELSE lock,
           a.status = 200 =>
             /\ a.body \in committed
             /\ IsWrite(r) =>
                  /\ a.body.version > job[r].base
                  /\ [payload |-> job[r].payload, version |-> job[r].base + 1]
                       \in committed
    PROVE  Inductive'
<1>1. TypeOK /\ job[r] \in Job
  BY JobTypes DEF Inductive
<1>2. phase' = [phase EXCEPT ![r] = "reply"] /\ answer' = [answer EXCEPT ![r] = a]
      /\ job' = [job EXCEPT ![r] = job[r]]
  BY <1>1 DEF Reply, TypeOK
<1>3. TypeOK'
  BY <1>1, <1>2, TypesOfStep DEF TypeOK, Phases
<1>4. phase'[r] = "reply" /\ answer'[r] = a /\ job'[r] = job[r]
  BY <1>1, <1>2 DEF TypeOK
<1>5. WriteProgress(r)' /\ AnswerWasCommitted(r)' /\ Includes(r)'
  BY <1>4 DEF WriteProgress, AnswerWasCommitted, Includes, IsWrite
<1> QED  BY <1>1, <1>2, <1>3, <1>5, HandlerStep DEF TypeOK

\* A 409 and a 500 are answers without a content.
LEMMA ErrorTypes ==
    /\ Conflict \in Answer /\ Conflict.status # 200
    /\ [status |-> 500] \in Answer
BY DEF Conflict, Answer

\* A step of the handler to a phase before the answer keeps the invariant.
LEMMA AdvanceInductive ==
    ASSUME Inductive, NEW r \in Req, NEW p \in {"insert", "update"},
           phase[r] = "select",
           phase' = [phase EXCEPT ![r] = p],
           UNCHANGED <<row, job, answer, wait, known, committed>>,
           p = "update" => lock = None,
           lock' = IF p = "update" THEN r ELSE lock,
           p = "insert" => job[r].base = 0,
           p = "update" => row # None /\ row.version = job[r].base
    PROVE  Inductive'
<1>1. TypeOK /\ job[r] \in Job /\ IsWrite(r) /\ lock # r
  BY JobTypes DEF Inductive, WriteProgress, TypeOK
<1>2. job' = [job EXCEPT ![r] = job[r]] /\ answer' = [answer EXCEPT ![r] = answer[r]]
      /\ answer[r] \in Answer \cup {None}
  BY <1>1 DEF TypeOK
<1>3. TypeOK'
  <2>1. p \in Phases /\ p # "reply"
    BY DEF Phases
  <2>2. lock' = IF p = "update" THEN r ELSE IF lock = r THEN None ELSE lock
    BY <1>1
  <2>3. /\ row' \in Content \cup {None} /\ committed' \subseteq Content
        /\ wait' \in [Device -> Req \cup {None}] /\ known' \in [Device -> Content]
    BY <1>1 DEF TypeOK
  <2>4. p = "update" => lock \in {None, r}
    OBVIOUS
  <2> QED  BY <1>1, <1>2, <2>1, <2>2, <2>3, <2>4, TypesOfStep
<1>4. phase'[r] = p
  BY <1>1 DEF TypeOK
<1>5. WriteProgress(r)' /\ AnswerWasCommitted(r)' /\ Includes(r)'
  BY <1>1, <1>4 DEF WriteProgress, AnswerWasCommitted, Includes, IsWrite
<1> QED  BY <1>1, <1>2, <1>3, <1>5, HandlerStep DEF TypeOK

\* A read keeps the invariant.
LEMMA ReadInductive ==
    ASSUME Inductive, NEW r \in Req, Read(r)
    PROVE  Inductive'
<1>1. phase[r] # "idle" /\ ~IsWrite(r) /\ lock # r
  BY DEF Read, Inductive, WriteProgress, TypeOK
<1>2. [status |-> 200, body |-> Shown] \in Answer /\ Shown \in committed
  BY ShownType DEF Inductive, Newest, Answer
<1> QED  BY <1>1, <1>2, ReplyInductive DEF Read

\* The select of a post keeps the invariant, whether it finds a row or not.
LEMMA SelectInductive ==
    ASSUME Inductive, NEW r \in Req, SelectNone(r) \/ SelectRow(r)
    PROVE  Inductive'
<1>1. phase[r] = "select" /\ lock # r
  BY DEF SelectNone, SelectRow, Inductive, TypeOK
<1>2. CASE phase' = [phase EXCEPT ![r] = "insert"] /\ SelectNone(r) /\ job[r].base = 0
  BY <1>1, <1>2, AdvanceInductive DEF SelectNone
<1>3. CASE phase' = [phase EXCEPT ![r] = "update"] /\ SelectRow(r)
           /\ job[r].base = row.version
  BY <1>1, <1>3, AdvanceInductive DEF SelectRow
<1>4. CASE Reply(r, Conflict) /\ lock' = lock
  <2>1. UNCHANGED <<row, job, wait, known, committed>>
    BY DEF SelectNone, SelectRow
  <2> QED  BY <1>1, <1>4, <2>1, ErrorTypes, ReplyInductive
<1> QED  BY <1>2, <1>3, <1>4 DEF SelectNone, SelectRow

\* A commit by request r, which holds the row or finds none, keeps the
\* invariant.
LEMMA StoreInductive ==
    ASSUME Inductive, NEW r \in Req, NEW p \in Payload, NEW n \in Nat,
           p # Null, p = job[r].payload, n = job[r].base, n = Shown.version,
           phase[r] \in {"insert", "update"},
           \A q \in Req \ {r} : phase[q] # "update",
           Store([payload |-> p, version |-> n + 1]),
           phase' = [phase EXCEPT ![r] = "refresh"],
           lock' = IF lock = r THEN None ELSE lock,
           UNCHANGED <<job, answer, wait, known>>
    PROVE  Inductive'
<1> DEFINE content == [payload |-> p, version |-> n + 1]
<1>1. content \in Content
  BY WriteType
<1>2. TypeOK /\ job[r] \in Job /\ IsWrite(r)
  BY JobTypes DEF Inductive, WriteProgress
<1>3. job' = [job EXCEPT ![r] = job[r]] /\ answer' = [answer EXCEPT ![r] = answer[r]]
      /\ answer[r] \in Answer \cup {None}
  BY <1>2 DEF TypeOK
<1>4. row' \in Content \cup {None} /\ committed' \subseteq Content
  BY <1>1, <1>2 DEF Store, TypeOK
<1>5. TypeOK'
  <2>1. /\ wait' \in [Device -> Req \cup {None}] /\ known' \in [Device -> Content]
        /\ "refresh" \in Phases
    BY <1>2 DEF TypeOK, Phases
  <2>2. lock' = IF "refresh" = "update" THEN r ELSE IF lock = r THEN None ELSE lock
    OBVIOUS
  <2> QED  BY <1>2, <1>3, <1>4, <2>1, <2>2, TypesOfStep
<1>6. phase'[r] = "refresh" /\ \A q \in Req \ {r} : phase'[q] = phase[q]
  BY <1>2 DEF TypeOK
<1>7. content.version = Shown.version + 1
      /\ content = [payload |-> job[r].payload, version |-> job[r].base + 1]
  OBVIOUS
<1> HIDE DEF content
<1>8. Store(content)
  BY DEF content
<1> QED  BY <1>1, <1>2, <1>5, <1>6, <1>7, <1>8, CommitStep

\* The insert of a first row keeps the invariant: there is no row, so nothing
\* has been committed and no other request is about to update.
LEMMA InsertInductive ==
    ASSUME Inductive, NEW r \in Req, Insert(r)
    PROVE  Inductive'
<1>1. phase[r] = "insert" /\ IsWrite(r) /\ job[r].base = 0 /\ lock # r
  BY DEF Insert, Inductive, TypeOK, WriteProgress
<1>2. job[r].payload \in Payload
  BY <1>1, JobTypes DEF Inductive, IsWrite
<1>3. CASE row = None /\ job[r].payload # Null
  <2>1. Shown.version = 0
    BY <1>3 DEF Shown, Start
  <2>2. \A q \in Req \ {r} : phase[q] # "update"
    BY <1>3 DEF Inductive, WriteProgress
  <2>3. Store([payload |-> job[r].payload, version |-> 0 + 1])
    BY <1>3 DEF Insert
  <2> QED  BY <1>1, <1>2, <1>3, <2>1, <2>2, <2>3, StoreInductive DEF Insert
<1>4. CASE ~(row = None /\ job[r].payload # Null)
  BY <1>1, <1>4, ErrorTypes, ReplyInductive DEF Insert
<1> QED  BY <1>3, <1>4

\* The update keeps the invariant: the row's lock has kept the row at the
\* version it was compared with.
LEMMA UpdateInductive ==
    ASSUME Inductive, NEW r \in Req, Update(r)
    PROVE  Inductive'
<1>1. /\ phase[r] = "update" /\ IsWrite(r) /\ lock = r
      /\ row # None /\ row.version = job[r].base
  BY DEF Update, Inductive, TypeOK, WriteProgress
<1>2. job[r].payload \in Payload /\ job[r].base \in Nat
  BY <1>1, JobTypes DEF Inductive, IsWrite
<1>3. CASE job[r].payload # Null
  <2>1. Shown.version = job[r].base
    BY <1>1 DEF Shown
  <2>2. \A q \in Req \ {r} : phase[q] # "update"
    BY <1>1 DEF Inductive, TypeOK
  <2> QED  BY <1>1, <1>2, <1>3, <2>1, <2>2, StoreInductive DEF Update
<1>4. CASE job[r].payload = Null
  <2>1. Reply(r, [status |-> 500]) /\ UNCHANGED <<row, job, wait, known, committed>>
    BY <1>4 DEF Update
  <2> QED  BY <1>1, <2>1, ErrorTypes, ReplyInductive DEF Update
<1> QED  BY <1>3, <1>4

\* The refresh keeps the invariant: the row is the write or a later one.
LEMMA RefreshInductive ==
    ASSUME Inductive, NEW r \in Req, Refresh(r)
    PROVE  Inductive'
<1>1. phase[r] = "refresh" /\ lock # r /\ row # None /\ row.version > job[r].base
      /\ [payload |-> job[r].payload, version |-> job[r].base + 1] \in committed
  BY DEF Refresh, Inductive, TypeOK, WriteProgress
<1>2. row \in committed /\ [status |-> 200, body |-> row] \in Answer
  BY <1>1 DEF Inductive, TypeOK, Newest, Shown, Answer
<1> QED  BY <1>1, <1>2, ReplyInductive DEF Refresh

\* The end of a request keeps the invariant, if a device that learns something
\* learns what has been the row.
LEMMA DoneInductive ==
    ASSUME Inductive, NEW r \in Req, Done(r),
           UNCHANGED <<row, committed>>,
           lock' = IF lock = r THEN None ELSE lock,
           known' \in [Device -> Content],
           \A d \in Device : known'[d] \in committed
    PROVE  Inductive'
<1>1. TypeOK'
  BY TypesOfStep DEF Inductive, TypeOK, Phases, Done
<1>2. KnownWasCommitted'
  BY DEF KnownWasCommitted
<1>3. Newest' /\ OneContentPerVersion'
  BY DEF Inductive, Newest, OneContentPerVersion, Shown
<1>4. \A q \in Req : WriteProgress(q)' /\ AnswerWasCommitted(q)' /\ Includes(q)'
  <2> TAKE q \in Req
  <2>1. CASE q = r
    <3>1. phase'[r] = "idle"
      BY DEF Done, Inductive, TypeOK
    <3> QED  BY <2>1, <3>1 DEF WriteProgress, AnswerWasCommitted, Includes
  <2>2. CASE q # r
    <3>1. WriteProgress(q) /\ AnswerWasCommitted(q) /\ Includes(q)
      BY DEF Inductive, AnswerIncludesWrite, Includes
    <3>2. phase'[q] = phase[q] /\ job'[q] = job[q] /\ answer'[q] = answer[q]
      BY <2>2 DEF Done, Inductive, TypeOK
    <3> QED  BY <3>1, <3>2 DEF WriteProgress, AnswerWasCommitted, Includes, IsWrite
  <2> QED  BY <2>1, <2>2
<1>5. AnswerIncludesWrite'
  BY <1>4 DEF AnswerIncludesWrite, Includes
<1> QED  BY <1>1, <1>2, <1>3, <1>4, <1>5 DEF Inductive

\* The delivery of an answer keeps the invariant.
LEMMA DeliverInductive ==
    ASSUME Inductive, NEW r \in Req, Deliver(r)
    PROVE  Inductive'
<1>1. phase[r] = "reply" /\ lock # r /\ answer[r] \in Answer
  BY DEF Deliver, Inductive, TypeOK
<1>2. answer[r].status = 200 => answer[r].body \in committed
  BY <1>1 DEF Inductive, AnswerWasCommitted
<1>3. \A d \in Device : known'[d] \in committed
  BY <1>2 DEF Deliver, Inductive, KnownWasCommitted
<1>4. known' \in [Device -> Content]
  BY <1>3 DEF Deliver, Inductive, TypeOK
<1> QED  BY <1>1, <1>3, <1>4, DoneInductive DEF Deliver

\* The failure of a request keeps the invariant.
LEMMA FailInductive ==
    ASSUME Inductive, NEW r \in Req, Fail(r)
    PROVE  Inductive'
BY DoneInductive DEF Fail, Inductive, TypeOK, KnownWasCommitted

\* A device that gives a request up keeps the invariant, and so does a step
\* that changes nothing.
LEMMA GiveUpInductive ==
    ASSUME Inductive, (\E d \in Device : GiveUp(d)) \/ UNCHANGED vars
    PROVE  Inductive'
<1>1. UNCHANGED <<row, lock, phase, job, answer, known, committed>>
      /\ wait' \in [Device -> Req \cup {None}]
  BY DEF GiveUp, vars, Inductive, TypeOK
<1> QED  BY <1>1 DEF Inductive, TypeOK, Newest, Shown, WriteProgress, IsWrite,
             AnswerWasCommitted, OneContentPerVersion, KnownWasCommitted,
             AnswerIncludesWrite

\* The invariant is preserved by every step.
LEMMA NextInductive == Inductive /\ [Next]_vars => Inductive'
<1> SUFFICES ASSUME Inductive, [Next]_vars PROVE Inductive'
  OBVIOUS
<1>1. ASSUME NEW r \in Req, NEW d \in Device, NEW b \in 0 .. (MaxVersion - 1),
             NEW p \in Payload, Post(r, d, b, p)
      PROVE  Inductive'
  BY <1>1, PostInductive
<1>2. ASSUME NEW r \in Req, NEW d \in Device, Get(r, d)
      PROVE  Inductive'
  BY <1>2, GetInductive
<1>3. ASSUME NEW r \in Req, \/ Read(r) \/ SelectNone(r) \/ SelectRow(r) \/ Insert(r)
                            \/ Update(r) \/ Refresh(r) \/ Deliver(r) \/ Fail(r)
      PROVE  Inductive'
  BY <1>3, ReadInductive, SelectInductive, InsertInductive, UpdateInductive,
     RefreshInductive, DeliverInductive, FailInductive
<1>4. CASE (\E d \in Device : GiveUp(d)) \/ UNCHANGED vars
  BY <1>4, GiveUpInductive
<1> QED  BY <1>1, <1>2, <1>3, <1>4 DEF Next

\* The invariant holds in every state of every behaviour.
THEOREM AlwaysInductive == Spec => []Inductive
<1>1. Inductive /\ [Next]_vars => Inductive'
  BY NextInductive
<1> QED  BY <1>1, InitInductive, PTL DEF Spec

-----------------------------------------------------------------------------
(* The invariants of the runs *)

\* The state has its types, and the row's lock is held exactly by a request
\* between its SELECT FOR UPDATE and its commit.
THEOREM TypeCorrect == Spec => []TypeOK
BY AlwaysInductive, PTL DEF Inductive

\* No lost update: a version of the row has one content for ever (optimistic
\* concurrency of POST /sync, for any number of concurrent requests).
THEOREM NoLostUpdate == Spec => []OneContentPerVersion
BY AlwaysInductive, PTL DEF Inductive

\* What a device holds has been the committed row.
THEOREM DevicesHoldCommitted == Spec => []KnownWasCommitted
BY AlwaysInductive, PTL DEF Inductive

\* The answer to an accepted write shows the write or a later one, and the
\* write has been committed.
THEOREM AcceptedWritesLand == Spec => []AnswerIncludesWrite
BY AlwaysInductive, PTL DEF Inductive

-----------------------------------------------------------------------------
(* Devices never go back *)

\* What a device holds is no newer than the row.
LEMMA KnownBehind ==
    ASSUME Inductive, NEW d \in Device
    PROVE  /\ known[d] \in Content /\ Shown \in Content
           /\ known[d].version \in Nat /\ Shown.version \in Nat
           /\ known[d].version <= Shown.version
BY ShownType DEF Inductive, TypeOK, KnownWasCommitted, Newest, Content

\* What AnswersNewer says of a device: of the answer of r, if d waits for r.
Newer(d, r) ==
    ( wait[d] = r /\ phase[r] = "reply" /\ answer[r].status = 200 )
    => answer[r].body.version >= known[d].version

\* A step that makes no answer and tells the devices nothing keeps it.
LEMMA NoNewAnswer ==
    ASSUME Inductive, AnswersNewer,
           \A q \in Req : phase'[q] = "reply" =>
               \/ answer'[q] = Conflict \/ answer'[q] = [status |-> 500]
               \/ phase[q] = "reply" /\ answer'[q] = answer[q],
           \A d \in Device, q \in Req :
               ( wait'[d] = q /\ phase'[q] = "reply" ) => wait[d] = q,
           wait' \in [Device -> Req \cup {None}],
           known' = known
    PROVE  AnswersNewer'
<1> SUFFICES ASSUME NEW d \in Device, NEW q \in Req PROVE Newer(d, q)'
  BY DEF AnswersNewer, Newer
<1>1. Newer(d, q)
  BY ConstantsAssumption DEF AnswersNewer, Newer
<1> QED  BY <1>1, ErrorTypes DEF Newer

\* An answer that shows the row is as new as anything a device holds.
LEMMA ShownIsNewer ==
    ASSUME Inductive, AnswersNewer, NEW r \in Req, Read(r) \/ Refresh(r)
    PROVE  AnswersNewer'
<1>1. /\ answer'[r] = [status |-> 200, body |-> Shown]
      /\ \A q \in Req \ {r} : phase'[q] = phase[q] /\ answer'[q] = answer[q]
      /\ wait' = wait /\ known' = known
  BY DEF Read, Refresh, Reply, Shown, Inductive, TypeOK, WriteProgress
<1> SUFFICES ASSUME NEW d \in Device, NEW q \in Req PROVE Newer(d, q)'
  BY <1>1 DEF AnswersNewer, Newer, Inductive, TypeOK
<1>2. CASE q = r  BY <1>1, <1>2, KnownBehind DEF Newer
<1>3. CASE q # r  BY <1>1, <1>3, ConstantsAssumption DEF Newer, AnswersNewer
<1> QED  BY <1>2, <1>3

\* A delivery tells a device what is no older than what it holds, after which
\* the device waits for nothing.
LEMMA DeliverIsNewer ==
    ASSUME Inductive, AnswersNewer, NEW r \in Req, Deliver(r)
    PROVE  /\ AnswersNewer'
           /\ \A d \in Device : known'[d].version >= known[d].version
<1>1. /\ phase[r] = "reply" /\ phase'[r] = "idle"
      /\ \A q \in Req \ {r} : phase'[q] = phase[q] /\ answer'[q] = answer[q]
      /\ \A d \in Device : wait'[d] = IF wait[d] = r THEN None ELSE wait[d]
      /\ \A d \in Device : known'[d] = IF wait[d] = r /\ answer[r].status = 200
                                       THEN answer[r].body ELSE known[d]
      /\ wait \in [Device -> Req \cup {None}]
      /\ wait' \in [Device -> Req \cup {None}]
  BY DEF Deliver, Done, Inductive, TypeOK
<1>2. \A d \in Device : known'[d].version >= known[d].version
  BY <1>1, KnownBehind, ConstantsAssumption DEF AnswersNewer
<1>3. \A d \in Device : wait'[d] # None =>
        /\ wait'[d] = wait[d] /\ wait[d] \in Req \ {r} /\ known'[d] = known[d]
  BY <1>1
<1>4. AnswersNewer'
  BY <1>1, <1>3 DEF AnswersNewer
<1> QED  BY <1>2, <1>4

\* Every step keeps the answers on their way newer than what devices hold, and
\* takes no device back.
LEMMA NextNewer ==
    ASSUME Inductive, AnswersNewer, [Next]_vars
    PROVE  /\ AnswersNewer'
           /\ \A d \in Device : known'[d].version >= known[d].version
<1>1. ASSUME known' = known
      PROVE  \A d \in Device : known'[d].version >= known[d].version
  BY <1>1, KnownBehind
<1>2. TypeOK /\ wait' \in [Device -> Req \cup {None}]
  BY NextInductive DEF Inductive, TypeOK
<1>3. ASSUME NEW r \in Req, NEW d \in Device,
             \/ \E b \in 0 .. (MaxVersion - 1), p \in Payload : Post(r, d, b, p)
             \/ Get(r, d)
      PROVE  AnswersNewer' /\ known' = known
  <2>1. /\ phase'[r] # "reply" /\ answer' = answer /\ known' = known
        /\ \A q \in Req \ {r} : phase'[q] = phase[q]
        /\ wait'[d] = r /\ \A e \in Device \ {d} : wait'[e] = wait[e]
    BY <1>2, <1>3 DEF Post, Get, TypeOK
  <2> QED  BY <1>2, <2>1, NoNewAnswer
<1>4. ASSUME NEW r \in Req, \/ SelectNone(r) \/ SelectRow(r) \/ Insert(r) \/ Update(r)
      PROVE  AnswersNewer' /\ known' = known
  <2>1. /\ phase'[r] = "reply" => answer'[r] \in {Conflict, [status |-> 500]}
        /\ \A q \in Req \ {r} : phase'[q] = phase[q] /\ answer'[q] = answer[q]
        /\ known' = known /\ wait' = wait
    BY <1>2, <1>4 DEF SelectNone, SelectRow, Insert, Update, Reply, TypeOK
  <2> QED  BY <1>2, <2>1, NoNewAnswer
<1>5. ASSUME NEW r \in Req, Read(r) \/ Refresh(r)
      PROVE  AnswersNewer' /\ known' = known
  BY <1>5, ShownIsNewer DEF Read, Refresh
<1>6. ASSUME NEW r \in Req, Fail(r)
      PROVE  AnswersNewer' /\ known' = known
  <2>1. /\ phase'[r] = "idle" /\ known' = known
        /\ \A q \in Req \ {r} : phase'[q] = phase[q] /\ answer'[q] = answer[q]
        /\ \A d \in Device : wait'[d] = IF wait[d] = r THEN None ELSE wait[d]
    BY <1>2, <1>6 DEF Fail, Done, TypeOK
  <2>2. \A d \in Device, q \in Req : wait'[d] = q => wait[d] = q
    BY <2>1, ConstantsAssumption
  <2> QED  BY <1>2, <2>1, <2>2, NoNewAnswer
<1>7. ASSUME (\E d \in Device : GiveUp(d)) \/ UNCHANGED vars
      PROVE  AnswersNewer' /\ known' = known
  <2>1. /\ phase' = phase /\ answer' = answer /\ known' = known
        /\ \A d \in Device : wait'[d] \in {wait[d], None}
    BY <1>2, <1>7 DEF GiveUp, vars, TypeOK
  <2>2. \A d \in Device, q \in Req : wait'[d] = q => wait[d] = q
    BY <2>1, ConstantsAssumption
  <2> QED  BY <1>2, <2>1, <2>2, NoNewAnswer
<1>8. ASSUME NEW r \in Req, Deliver(r)
      PROVE  /\ AnswersNewer'
             /\ \A d \in Device : known'[d].version >= known[d].version
  BY <1>8, DeliverIsNewer
<1> QED  BY <1>1, <1>3, <1>4, <1>5, <1>6, <1>7, <1>8 DEF Next

\* An answer a device waits for is no older than what it holds.
THEOREM AnswersAreNewer == Spec => []AnswersNewer
<1>1. Init => AnswersNewer
  BY DEF Init, AnswersNewer
<1>2. Inductive /\ AnswersNewer /\ [Next]_vars => AnswersNewer'
  BY NextNewer
<1> QED  BY <1>1, <1>2, AlwaysInductive, PTL DEF Spec

\* A device never goes back to an older version, and with NoLostUpdate a
\* version is one content: what a device is told is what it held or later.
THEOREM DevicesNeverGoBack == Spec => DevicesAdvance
<1>1. Inductive /\ AnswersNewer /\ [Next]_vars
        => [\A d \in Device : known'[d].version >= known[d].version]_vars
  BY NextNewer
<1> QED  BY <1>1, AlwaysInductive, AnswersAreNewer, PTL DEF Spec, DevicesAdvance

-----------------------------------------------------------------------------
(* Refinement: the handlers implement the versioned register *)

\* The abstract operation of a request is a function of its own locals: a step
\* of request r changes its operation, argument and result, and no other.
LEMMA OtherOperations ==
    ASSUME NEW r \in Req,
           \A q \in Req \ {r} : /\ phase'[q] = phase[q]
                                /\ job'[q] = job[q]
                                /\ answer'[q] = answer[q]
    PROVE  /\ [q \in Req |-> Op(q)]' = [[q \in Req |-> Op(q)] EXCEPT ![r] = Op(r)']
           /\ [q \in Req |-> Arg(q)]' = [[q \in Req |-> Arg(q)] EXCEPT ![r] = Arg(r)']
           /\ [q \in Req |-> Res(q)]' = [[q \in Req |-> Res(q)] EXCEPT ![r] = Res(r)']
           /\ Arg(r)' = Arg(r) => [q \in Req |-> Arg(q)]' = [q \in Req |-> Arg(q)]
           /\ Res(r)' = Res(r) => [q \in Req |-> Res(q)]' = [q \in Req |-> Res(q)]
<1>1. \A q \in Req \ {r} : Op(q)' = Op(q) /\ Arg(q)' = Arg(q) /\ Res(q)' = Res(q)
  BY DEF Op, Outcome, Arg, Res, IsWrite
<1>2. Arg(r)' = Arg(r) => \A q \in Req : Arg(q)' = Arg(q)
  BY <1>1
<1>3. Res(r)' = Res(r) => \A q \in Req : Res(q)' = Res(q)
  BY <1>1
<1>4. /\ [q \in Req |-> Op(q)]' = [[q \in Req |-> Op(q)] EXCEPT ![r] = Op(r)']
      /\ [q \in Req |-> Arg(q)]' = [[q \in Req |-> Arg(q)] EXCEPT ![r] = Arg(r)']
      /\ [q \in Req |-> Res(q)]' = [[q \in Req |-> Res(q)] EXCEPT ![r] = Res(r)']
  BY <1>1
<1>5. Arg(r)' = Arg(r) => [q \in Req |-> Arg(q)]' = [q \in Req |-> Arg(q)]
  BY <1>2
<1>6. Res(r)' = Res(r) => [q \in Req |-> Res(q)]' = [q \in Req |-> Res(q)]
  BY <1>3
<1> QED  BY <1>4, <1>5, <1>6

\* The same when the operation, argument and result of r stay as well.
LEMMA SameOperations ==
    ASSUME NEW r \in Req,
           \A q \in Req \ {r} : /\ phase'[q] = phase[q]
                                /\ job'[q] = job[q]
                                /\ answer'[q] = answer[q],
           Op(r)' = Op(r), Arg(r)' = Arg(r), Res(r)' = Res(r), row' = row
    PROVE  UNCHANGED Register!vars
<1>1. \A q \in Req : Op(q)' = Op(q) /\ Arg(q)' = Arg(q) /\ Res(q)' = Res(q)
  <2>1. \A q \in Req \ {r} : Op(q)' = Op(q) /\ Arg(q)' = Arg(q) /\ Res(q)' = Res(q)
    BY DEF Op, Outcome, Arg, Res, IsWrite
  <2> QED  BY <2>1
<1>2. Shown' = Shown
  BY DEF Shown
<1> QED  BY <1>1, <1>2 DEF Register!vars

\* A post invokes a write.
LEMMA PostRefines ==
    ASSUME Inductive, NEW r \in Req, NEW d \in Device,
           NEW b \in 0 .. (MaxVersion - 1), NEW p \in Payload, Post(r, d, b, p)
    PROVE  Register!InvokeWrite(r, b, p)
<1>1. /\ phase[r] = "idle" /\ phase'[r] = "select"
      /\ job'[r] = [device |-> d, base |-> b, payload |-> p] /\ p # None
      /\ row' = row
      /\ \A q \in Req \ {r} : /\ phase'[q] = phase[q]
                              /\ job'[q] = job[q]
                              /\ answer'[q] = answer[q]
  BY ConstantsAssumption DEF Post, Inductive, TypeOK
<1>2. /\ Op(r) = "none" /\ Op(r)' = "write"
      /\ Arg(r)' = [base |-> b, payload |-> p]
      /\ Res(r) = None /\ Res(r)' = None
  BY <1>1 DEF Op, Outcome, Arg, Res, IsWrite
<1>3. Shown' = Shown
  BY <1>1 DEF Shown
<1> QED  BY <1>1, <1>2, <1>3, OtherOperations DEF Register!InvokeWrite

\* A get invokes a read.
LEMMA GetRefines ==
    ASSUME Inductive, NEW r \in Req, NEW d \in Device, Get(r, d)
    PROVE  Register!InvokeRead(r)
<1>1. /\ phase[r] = "idle" /\ phase'[r] = "get"
      /\ job'[r].payload = None
      /\ row' = row
      /\ \A q \in Req \ {r} : /\ phase'[q] = phase[q]
                              /\ job'[q] = job[q]
                              /\ answer'[q] = answer[q]
  BY DEF Get, Inductive, TypeOK
<1>2. /\ Op(r) = "none" /\ Op(r)' = "read"
      /\ Arg(r) = None /\ Arg(r)' = None
      /\ Res(r) = None /\ Res(r)' = None
  BY <1>1 DEF Op, Outcome, Arg, Res, IsWrite
<1>3. Shown' = Shown
  BY <1>1 DEF Shown
<1> QED  BY <1>1, <1>2, <1>3, OtherOperations DEF Register!InvokeRead

\* An answer with the row's content shows the register.
LEMMA ShowRefines ==
    ASSUME Inductive, NEW r \in Req, Read(r) \/ Refresh(r)
    PROVE  Register!Show(r)
<1>1. /\ phase[r] \in {"get", "refresh"} /\ phase'[r] = "reply"
      /\ job' = job /\ row' = row
      /\ answer'[r] = [status |-> 200, body |-> Shown]
      /\ \A q \in Req \ {r} : /\ phase'[q] = phase[q]
                              /\ job'[q] = job[q]
                              /\ answer'[q] = answer[q]
  BY DEF Read, Refresh, Reply, Shown, Inductive, TypeOK, WriteProgress
<1>2. /\ Op(r) \in {"read", "written"} /\ Op(r)' = "shown"
      /\ Arg(r)' = Arg(r)
      /\ Res(r)' = Shown
  BY <1>1 DEF Op, Outcome, Arg, Res, IsWrite
<1>3. Shown' = Shown
  BY <1>1 DEF Shown
<1> QED  BY <1>1, <1>2, <1>3, OtherOperations DEF Register!Show

\* An answer without a content to a write that names another version than the
\* register's, or whose payload is Null, rejects or breaks the write.
LEMMA RefuseRefines ==
    ASSUME Inductive, NEW r \in Req, NEW a \in {Conflict, [status |-> 500]},
           phase[r] \in {"select", "insert", "update"},
           Reply(r, a), UNCHANGED <<row, job>>,
           job[r].payload # Null => a = Conflict /\ job[r].base # Shown.version
    PROVE  Register!Reject(r) \/ Register!Break(r)
<1>1. /\ phase'[r] = "reply" /\ answer'[r] = a /\ job' = job
      /\ a.status # 200
      /\ \A q \in Req \ {r} : /\ phase'[q] = phase[q]
                              /\ job'[q] = job[q]
                              /\ answer'[q] = answer[q]
  BY DEF Reply, Conflict, Inductive, TypeOK
<1>2. /\ Op(r) = "write"
      /\ Arg(r) = [base |-> job[r].base, payload |-> job[r].payload]
      /\ Arg(r)' = Arg(r)
      /\ Res(r) = None /\ Res(r)' = None
  <2>1. IsWrite(r)
    BY DEF Inductive, WriteProgress
  <2> QED  BY <1>1, <2>1 DEF Op, Outcome, Arg, Res, IsWrite
<1>3. Shown' = Shown
  BY DEF Shown
<1>4. \A q \in Req \ {r} : /\ phase'[q] = phase[q]
                           /\ job'[q] = job[q]
                           /\ answer'[q] = answer[q]
  BY <1>1
<1>5. /\ [q \in Req |-> Op(q)]' = [[q \in Req |-> Op(q)] EXCEPT ![r] = Op(r)']
      /\ [q \in Req |-> Arg(q)]' = [q \in Req |-> Arg(q)]
      /\ [q \in Req |-> Res(q)]' = [q \in Req |-> Res(q)]
  BY <1>2, <1>4, OtherOperations
<1>6. CASE job[r].payload # Null
  <2>1. Op(r)' = "rejected"
    BY <1>1, <1>6 DEF Op, Outcome, Conflict
  <2> QED  BY <1>2, <1>3, <1>5, <1>6, <2>1 DEF Register!Reject
<1>7. CASE job[r].payload = Null
  <2>1. Op(r)' = "broken"
    BY <1>1, <1>7 DEF Op, Outcome
  <2> QED  BY <1>2, <1>3, <1>5, <2>1 DEF Register!Break
<1> QED  BY <1>6, <1>7

\* The select of a post is no step of the register, or rejects the write.
LEMMA SelectRefines ==
    ASSUME Inductive, NEW r \in Req, SelectNone(r) \/ SelectRow(r)
    PROVE  UNCHANGED Register!vars \/ Register!Reject(r) \/ Register!Break(r)
<1>1. phase[r] = "select" /\ UNCHANGED <<row, job>>
  BY DEF SelectNone, SelectRow
<1>2. CASE Reply(r, Conflict) /\ job[r].base # Shown.version
  BY <1>1, <1>2, RefuseRefines
<1>3. CASE /\ phase' = [phase EXCEPT ![r] = "insert"]
              \/ phase' = [phase EXCEPT ![r] = "update"]
           /\ UNCHANGED answer
  <2>1. phase'[r] \in {"insert", "update"}
        /\ \A q \in Req \ {r} : phase'[q] = phase[q]
    BY <1>3 DEF Inductive, TypeOK
  <2>2. Op(r)' = Op(r) /\ Arg(r)' = Arg(r) /\ Res(r)' = Res(r)
    BY <1>1, <2>1 DEF Op, Outcome, Arg, Res, IsWrite
  <2> QED  BY <1>1, <1>3, <2>1, <2>2, SameOperations
<1> QED
  <2>1. row = None => Shown.version = 0
    BY DEF Shown, Start
  <2>2. row # None => Shown.version = row.version
    BY DEF Shown
  <2> QED  BY <1>2, <1>3, <2>1, <2>2 DEF SelectNone, SelectRow

\* The commit of a write made from the row's version is where it is accepted.
LEMMA StoreRefines ==
    ASSUME Inductive, NEW r \in Req,
           phase[r] \in {"insert", "update"},
           job[r].payload # Null,
           job[r].base = Shown.version,
           Store([payload |-> job[r].payload, version |-> job[r].base + 1]),
           phase' = [phase EXCEPT ![r] = "refresh"],
           UNCHANGED <<job, answer>>
    PROVE  Register!Accept(r)
<1>1. phase'[r] = "refresh" /\ \A q \in Req \ {r} : phase'[q] = phase[q]
  BY DEF Inductive, TypeOK
<1>2. IsWrite(r) /\ job[r] \in Job
  BY JobTypes DEF Inductive, WriteProgress
<1>3. /\ Op(r) = "write" /\ Op(r)' = "written"
      /\ Arg(r) = [base |-> job[r].base, payload |-> job[r].payload]
      /\ Arg(r)' = Arg(r)
      /\ Res(r) = None /\ Res(r)' = None
  BY <1>1, <1>2 DEF Op, Outcome, Arg, Res, IsWrite
<1>4. row' = [payload |-> job[r].payload, version |-> job[r].base + 1] /\ row' # None
  <2>1. job[r].payload \in Payload /\ job[r].base + 1 \in Nat
    BY <1>2 DEF Job, IsWrite
  <2>2. [payload |-> job[r].payload, version |-> job[r].base + 1] # None
    BY <2>1, WriteType, NoneAssumption
  <2> QED  BY <2>2 DEF Store
<1>5. Shown' = [payload |-> job[r].payload, version |-> Shown.version + 1]
  BY <1>4 DEF Shown
<1>6. /\ [q \in Req |-> Op(q)]' = [[q \in Req |-> Op(q)] EXCEPT ![r] = Op(r)']
      /\ [q \in Req |-> Arg(q)]' = [q \in Req |-> Arg(q)]
      /\ [q \in Req |-> Res(q)]' = [q \in Req |-> Res(q)]
  BY <1>1, <1>3, OtherOperations
<1> QED  BY <1>3, <1>5, <1>6 DEF Register!Accept

\* An insert that finds no row is accepted; one that finds a row, which is past
\* version 0, is rejected; one of Null is broken.
LEMMA InsertRefines ==
    ASSUME Inductive, NEW r \in Req, Insert(r)
    PROVE  Register!Accept(r) \/ Register!Reject(r) \/ Register!Break(r)
<1>1. phase[r] = "insert" /\ job[r].base = 0 /\ job' = job
  BY DEF Insert, Inductive, WriteProgress
<1>2. CASE row = None /\ job[r].payload # Null
  <2>1. Shown.version = 0
    BY <1>2 DEF Shown, Start
  <2>2. Store([payload |-> job[r].payload, version |-> job[r].base + 1])
    BY <1>1, <1>2 DEF Insert
  <2> QED  BY <1>1, <1>2, <2>1, <2>2, StoreRefines DEF Insert
<1>3. CASE ~(row = None /\ job[r].payload # Null)
  <2>1. row # None => Shown.version # 0
    BY DEF Inductive, Newest, Shown
  <2>2. Reply(r, Conflict) /\ row' = row
    BY <1>3 DEF Insert
  <2>3. job[r].payload # Null => job[r].base # Shown.version
    BY <1>1, <1>3, <2>1
  <2> QED  BY <1>1, <2>2, <2>3, RefuseRefines
<1> QED  BY <1>2, <1>3

\* An update is accepted, because the row is still at the version it was
\* compared with; one to Null is broken.
LEMMA UpdateRefines ==
    ASSUME Inductive, NEW r \in Req, Update(r)
    PROVE  Register!Accept(r) \/ Register!Reject(r) \/ Register!Break(r)
<1>1. phase[r] = "update" /\ job' = job /\ Shown.version = job[r].base
  BY DEF Update, Inductive, WriteProgress, Shown
<1>2. CASE job[r].payload # Null
  BY <1>1, <1>2, StoreRefines DEF Update
<1>3. CASE job[r].payload = Null
  <2>1. Reply(r, [status |-> 500]) /\ row' = row
    BY <1>3 DEF Update
  <2> QED  BY <1>1, <1>3, <2>1, RefuseRefines
<1> QED  BY <1>2, <1>3

\* A request that ends returns from its operation.
LEMMA DoneRefines ==
    ASSUME Inductive, NEW r \in Req, phase[r] # "idle", Done(r), row' = row
    PROVE  Register!Return(r)
<1>1. phase'[r] = "idle"
  BY DEF Done, Inductive, TypeOK
<1>2. \A q \in Req \ {r} : /\ phase'[q] = phase[q]
                           /\ job'[q] = job[q]
                           /\ answer'[q] = answer[q]
  BY DEF Done, Inductive, TypeOK
<1>3. Op(r) # "none"
  BY DEF Op, Outcome
<1>4. Op(r)' = "none" /\ Arg(r)' = None /\ Res(r)' = None
  BY <1>1 DEF Op, Arg, Res
<1>5. Shown' = Shown
  BY DEF Shown
<1>6. /\ [q \in Req |-> Op(q)]' = [[q \in Req |-> Op(q)] EXCEPT ![r] = "none"]
      /\ [q \in Req |-> Arg(q)]' = [[q \in Req |-> Arg(q)] EXCEPT ![r] = None]
      /\ [q \in Req |-> Res(q)]' = [[q \in Req |-> Res(q)] EXCEPT ![r] = None]
  BY <1>2, <1>4, OtherOperations
<1> QED  BY <1>3, <1>5, <1>6 DEF Register!Return

\* A device that gives up, and a step that changes nothing, are no steps of the
\* register.
LEMMA GiveUpRefines ==
    ASSUME (\E d \in Device : GiveUp(d)) \/ UNCHANGED vars
    PROVE  UNCHANGED Register!vars
<1>1. UNCHANGED <<row, phase, job, answer>>
  BY DEF GiveUp, vars
<1>2. Shown' = Shown
  BY <1>1 DEF Shown
<1>3. \A q \in Req : Op(q)' = Op(q) /\ Arg(q)' = Arg(q) /\ Res(q)' = Res(q)
  BY <1>1 DEF Op, Outcome, Arg, Res, IsWrite
<1> QED  BY <1>2, <1>3 DEF Register!vars

\* The register's initial state: no row, no request.
LEMMA InitRefines == Init => Register!Init
<1> SUFFICES ASSUME Init PROVE Register!Init
  OBVIOUS
<1>1. Shown = [payload |-> Default, version |-> 0]
  BY DEF Init, Shown, Start
<1>2. \A r \in Req : Op(r) = "none" /\ Arg(r) = None /\ Res(r) = None
  BY DEF Init, Op, Arg, Res
<1> QED  BY <1>1, <1>2 DEF Register!Init

\* Every step of the handlers is a step of the register or leaves it alone.
LEMMA NextRefines == Inductive /\ [Next]_vars => [Register!Next]_(Register!vars)
<1> SUFFICES ASSUME Inductive, [Next]_vars PROVE [Register!Next]_(Register!vars)
  OBVIOUS
<1>1. ASSUME NEW r \in Req, NEW d \in Device, NEW b \in 0 .. (MaxVersion - 1),
             NEW p \in Payload, Post(r, d, b, p)
      PROVE  Register!Next
  BY <1>1, PostRefines DEF Register!Next
<1>2. ASSUME NEW r \in Req, NEW d \in Device, Get(r, d)
      PROVE  Register!Next
  BY <1>2, GetRefines DEF Register!Next
<1>3. ASSUME NEW r \in Req, Read(r) \/ Refresh(r)
      PROVE  Register!Next
  BY <1>3, ShowRefines DEF Register!Next
<1>4. ASSUME NEW r \in Req, SelectNone(r) \/ SelectRow(r)
      PROVE  Register!Next \/ UNCHANGED Register!vars
  BY <1>4, SelectRefines DEF Register!Next
<1>5. ASSUME NEW r \in Req, Insert(r) \/ Update(r)
      PROVE  Register!Next
  BY <1>5, InsertRefines, UpdateRefines DEF Register!Next
<1>6. ASSUME NEW r \in Req, Deliver(r) \/ Fail(r)
      PROVE  Register!Next
  <2>1. phase[r] # "idle" /\ Done(r) /\ row' = row
    BY <1>6 DEF Deliver, Fail
  <2> QED  BY <2>1, DoneRefines DEF Register!Next
<1>7. CASE (\E d \in Device : GiveUp(d)) \/ UNCHANGED vars
  BY <1>7, GiveUpRefines
<1> QED  BY <1>1, <1>2, <1>3, <1>4, <1>5, <1>6, <1>7 DEF Next

\* The handlers implement the register: every accepted write was made from the
\* version it replaced, every write rejected for its version was made from
\* another one, and every read shows the register as it stands.
THEOREM Refinement == Spec => ImplementsRegister
<1>1. Inductive /\ [Next]_vars => [Register!Next]_(Register!vars)
  BY NextRefines
<1> QED  BY <1>1, InitRefines, AlwaysInductive, PTL
         DEF Spec, ImplementsRegister, Register!Spec
===============================================================================
