------------------------------ MODULE RecordStore ------------------------------
(***************************************************************************)
(* What per-record synchronisation promises (README.md: "last-write-wins"; *)
(* api/v1/sync.py: process_changes): one table in which every record is    *)
(* the latest edit of it that was pushed.  A push takes effect as a whole  *)
(* and at once, whatever else the server works on; a device is sent some   *)
(* of its user's records, all as they stood at one moment, and keeps them. *)
(***************************************************************************)
EXTENDS Integers, Sequences, TLAPS

CONSTANTS
    Device,
    User,
    Owner,             \* [Device -> User]
    Id,
    Batches,           \* the lists of edits a device may push
    Time,              \* the server times a push may be stamped with
    CLAMP_TOLERANCE,
    None

VARIABLES
    rows,    \* the table
    copy,    \* the records on their way to a device
    view     \* the records a device has

vars == <<rows, copy, view>>

Key == User \X Id
Row == [updated_at : Nat, server_updated_at : Nat \ {0}, data : Device]
Table == [Key -> Row \cup {None}]
EmptyTable == [k \in Key |-> None]

Init ==
    /\ rows = EmptyTable
    /\ copy = [d \in Device |-> EmptyTable]
    /\ view = [d \in Device |-> EmptyTable]

\* The record an edit makes: a time too far ahead counts as the server's.
Stamped(d, t, edit) ==
    [updated_at |-> IF edit.updated_at > t + CLAMP_TOLERANCE THEN t
                                                             ELSE edit.updated_at,
     server_updated_at |-> t,
     data |-> d]

\* The records a batch has for key k.
Candidates(d, t, batch, k) ==
    {Stamped(d, t, batch[i]) : i \in {j \in 1 .. Len(batch) :
                                        <<Owner[d], batch[j].id>> = k}}

Beats(new, old) == old = None \/ new.updated_at >= old.updated_at

\* What a key holds after records C are written over old: the latest of them,
\* or old, if all of them are older.
Winners(old, C) ==
    {w \in C : Beats(w, old) /\ \A c \in C : Beats(w, c)}
        \cup {w \in {old} : \A c \in C : ~Beats(c, old)}

Push(d, t, batch) ==
    /\ rows' \in Table
    /\ \A k \in Key : rows'[k] \in Winners(rows[k], Candidates(d, t, batch, k))
    /\ UNCHANGED <<copy, view>>

\* Device d is sent the records of P, as they stand.
Take(d, P) ==
    /\ copy' = [copy EXCEPT ![d] = [k \in Key |-> IF k \in P THEN rows[k] ELSE None]]
    /\ UNCHANGED <<rows, view>>

Put(d) ==
    /\ view' = [view EXCEPT ![d] = [k \in Key |-> IF copy[d][k] # None
                                                  THEN copy[d][k] ELSE view[d][k]]]
    /\ copy' = [copy EXCEPT ![d] = EmptyTable]
    /\ UNCHANGED rows

\* The records are lost on their way.
Lose(d) ==
    /\ copy' = [copy EXCEPT ![d] = EmptyTable]
    /\ UNCHANGED <<rows, view>>

Next ==
    \E d \in Device :
        \/ \E t \in Time, batch \in Batches : Push(d, t, batch)
        \/ \E P \in SUBSET ({Owner[d]} \X Id) : Take(d, P)
        \/ Put(d)
        \/ Lose(d)

Spec == Init /\ [][Next]_vars

-----------------------------------------------------------------------------
(* Properties *)

\* No record is newer anywhere than in the table, nor in a device than on its
\* way there, and each is a record of the device's user.
Behind ==
    \A d \in Device, k \in Key :
        /\ copy[d][k] # None => /\ k[1] = Owner[d]
                                /\ rows[k] # None
                                /\ copy[d][k].updated_at <= rows[k].updated_at
        /\ view[d][k] # None => /\ k[1] = Owner[d]
                                /\ rows[k] # None
                                /\ view[d][k].updated_at <= rows[k].updated_at
        /\ ( view[d][k] # None /\ copy[d][k] # None )
           => view[d][k].updated_at <= copy[d][k].updated_at

\* A device never goes back to an older edit of a record, and forgets none.
ViewsAdvance ==
    [][\A d \in Device, k \in Key : view[d][k] # None =>
          /\ view'[d][k] # None
          /\ view'[d][k].updated_at >= view[d][k].updated_at]_vars

-----------------------------------------------------------------------------
(* Proofs *)

\* What the proofs need of the constants.
ConstantsOK ==
    /\ Owner \in [Device -> User]
    /\ Batches \subseteq Seq([id : Id, updated_at : Nat])
    /\ Time \subseteq Nat \ {0}
    /\ CLAMP_TOLERANCE \in Nat
    /\ None \notin Row

\* The state has the types of the tables.
TypeOK ==
    /\ rows \in Table
    /\ copy \in [Device -> Table]
    /\ view \in [Device -> Table]

\* An element of a sequence over S is in S.
LEMMA SeqElement ==
    ASSUME NEW S, NEW s \in Seq(S), NEW i \in 1 .. Len(s)
    PROVE  s[i] \in S
OBVIOUS

\* The record of an edit is a record of the table.
LEMMA StampedType ==
    ASSUME ConstantsOK, NEW d \in Device, NEW t \in Time, NEW batch \in Batches,
           NEW i \in 1 .. Len(batch)
    PROVE  Stamped(d, t, batch[i]) \in Row
<1>1. batch \in Seq([id : Id, updated_at : Nat])  BY DEF ConstantsOK
<1>2. batch[i] \in [id : Id, updated_at : Nat]  BY <1>1, SeqElement
<1> QED  BY <1>2 DEF ConstantsOK, Stamped, Row

\* Writing records over a record makes none of the two disappear, and none
\* older.
LEMMA WinnersRise ==
    ASSUME ConstantsOK, NEW C \in SUBSET Row, NEW old \in Row,
           NEW w \in Winners(old, C)
    PROVE  w \in Row /\ w.updated_at >= old.updated_at
<1>1. old # None /\ old.updated_at \in Nat  BY DEF ConstantsOK, Row
<1>2. CASE w \in C /\ Beats(w, old)  BY <1>1, <1>2 DEF Beats
<1>3. CASE w = old  BY <1>1, <1>3 DEF Row
<1> QED  BY <1>2, <1>3 DEF Winners

\* A push lets no record disappear and no time go back.
LEMMA PushRises ==
    ASSUME ConstantsOK, TypeOK, NEW d \in Device, NEW t \in Time,
           NEW batch \in Batches, Push(d, t, batch), NEW k \in Key, rows[k] # None
    PROVE  rows'[k] \in Row /\ rows'[k].updated_at >= rows[k].updated_at
<1>1. Candidates(d, t, batch, k) \in SUBSET Row
  BY StampedType DEF Candidates
<1>2. rows[k] \in Row  BY DEF TypeOK, Table
<1>3. rows'[k] \in Winners(rows[k], Candidates(d, t, batch, k))  BY DEF Push
<1> QED  BY <1>1, <1>2, <1>3, WinnersRise

\* A record of a table has a time.
LEMMA RecordTypes ==
    ASSUME NEW T \in Table, NEW k \in Key, T[k] # None
    PROVE  T[k] \in Row /\ T[k].updated_at \in Nat
BY DEF Table, Row

\* The types hold initially, and devices have nothing.
LEMMA InitBehind == Init => TypeOK /\ Behind
BY DEF Init, TypeOK, Behind, Table, EmptyTable

\* Types and order are kept by every step.
LEMMA NextBehind ==
    ASSUME ConstantsOK, TypeOK, Behind, [Next]_vars
    PROVE  TypeOK' /\ Behind'
<1>1. ASSUME NEW d \in Device, NEW t \in Time, NEW batch \in Batches,
             Push(d, t, batch)
      PROVE  TypeOK' /\ Behind'
  <2>1. TypeOK' /\ copy' = copy /\ view' = view
    BY <1>1 DEF Push, TypeOK
  <2>2. \A k \in Key : rows[k] # None => /\ rows'[k] # None
                                         /\ rows[k].updated_at \in Nat
                                         /\ rows'[k].updated_at \in Nat
                                         /\ rows'[k].updated_at >= rows[k].updated_at
    BY <1>1, PushRises, RecordTypes DEF ConstantsOK, Row, TypeOK
  <2>3. \A e \in Device, k \in Key :
          /\ copy[e][k] # None => copy[e][k].updated_at \in Nat
          /\ view[e][k] # None => view[e][k].updated_at \in Nat
    BY RecordTypes DEF TypeOK
  <2> QED  BY <2>1, <2>2, <2>3 DEF Behind
<1>2. ASSUME NEW d \in Device, NEW P \in SUBSET ({Owner[d]} \X Id), Take(d, P)
      PROVE  TypeOK' /\ Behind'
  <2> DEFINE sent == [k \in Key |-> IF k \in P THEN rows[k] ELSE None]
  <2>1. sent \in Table  BY DEF TypeOK, Table
  <2>2. copy' = [copy EXCEPT ![d] = sent] /\ rows' = rows /\ view' = view
    BY <1>2 DEF Take
  <2>3. TypeOK'  BY <2>1, <2>2 DEF TypeOK
  <2>4. \A k \in Key : sent[k] # None =>
          k[1] = Owner[d] /\ sent[k] = rows[k] /\ rows[k].updated_at \in Nat
    BY RecordTypes DEF TypeOK
  <2> HIDE DEF sent
  <2>5. copy'[d] = sent /\ \A e \in Device \ {d} : copy'[e] = copy[e]
    BY <2>2 DEF TypeOK
  <2>6. Behind'
    <3> SUFFICES ASSUME NEW e \in Device, NEW k \in Key
                 PROVE  /\ copy'[e][k] # None =>
                             /\ k[1] = Owner[e] /\ rows[k] # None
                             /\ copy'[e][k].updated_at <= rows[k].updated_at
                        /\ view[e][k] # None =>
                             /\ k[1] = Owner[e] /\ rows[k] # None
                             /\ view[e][k].updated_at <= rows[k].updated_at
                        /\ ( view[e][k] # None /\ copy'[e][k] # None )
                           => view[e][k].updated_at <= copy'[e][k].updated_at
      BY <2>2 DEF Behind
    <3>1. CASE e = d  BY <3>1, <2>4, <2>5 DEF Behind
    <3>2. CASE e # d  BY <3>2, <2>5 DEF Behind
    <3> QED  BY <3>1, <3>2
  <2> QED  BY <2>3, <2>6
<1>3. ASSUME NEW d \in Device, Put(d)
      PROVE  TypeOK' /\ Behind'
  <2> DEFINE kept == [k \in Key |-> IF copy[d][k] # None
                                    THEN copy[d][k] ELSE view[d][k]]
  <2>1. kept \in Table /\ EmptyTable \in Table
    BY DEF TypeOK, Table, EmptyTable
  <2>2. /\ view' = [view EXCEPT ![d] = kept]
        /\ copy' = [copy EXCEPT ![d] = EmptyTable] /\ rows' = rows
    BY <1>3 DEF Put
  <2>3. TypeOK'  BY <2>1, <2>2 DEF TypeOK
  <2>4. \A k \in Key : /\ kept[k] \in {copy[d][k], view[d][k]}
                       /\ copy'[d][k] = None
    BY <2>2 DEF TypeOK, EmptyTable
  <2> HIDE DEF kept
  <2>5. /\ view'[d] = kept
        /\ \A e \in Device \ {d} : copy'[e] = copy[e] /\ view'[e] = view[e]
    BY <2>2 DEF TypeOK
  <2>6. Behind'
    BY <2>2, <2>4, <2>5 DEF Behind
  <2> QED  BY <2>3, <2>6
<1>4. ASSUME NEW d \in Device, Lose(d)
      PROVE  TypeOK' /\ Behind'
  <2>1. EmptyTable \in Table
    BY DEF Table, EmptyTable
  <2>2. copy' = [copy EXCEPT ![d] = EmptyTable] /\ rows' = rows /\ view' = view
    BY <1>4 DEF Lose
  <2>3. TypeOK'  BY <2>1, <2>2 DEF TypeOK
  <2>4. \A e \in Device, k \in Key : copy'[e][k] \in {copy[e][k], None}
    BY <2>2 DEF TypeOK, EmptyTable
  <2>5. Behind'
    BY <2>2, <2>4 DEF Behind
  <2> QED  BY <2>3, <2>5
<1>5. CASE UNCHANGED vars
  BY <1>5 DEF vars, TypeOK, Behind
<1> QED  BY <1>1, <1>2, <1>3, <1>4, <1>5 DEF Next

\* Nothing a device has, or is being sent, is ahead of the table.
THEOREM AlwaysBehind ==
    ASSUME ConstantsOK
    PROVE  Spec => [](TypeOK /\ Behind)
<1>1. TypeOK /\ Behind /\ [Next]_vars => (TypeOK /\ Behind)'
  BY NextBehind
<1> QED  BY <1>1, InitBehind, PTL DEF Spec

\* A device never goes back to an older edit of a record.
THEOREM DevicesAdvance ==
    ASSUME ConstantsOK
    PROVE  Spec => ViewsAdvance
<1> DEFINE Advance == \A d \in Device, k \in Key : view[d][k] # None =>
                        /\ view'[d][k] # None
                        /\ view'[d][k].updated_at >= view[d][k].updated_at
<1>1. ASSUME TypeOK, Behind, [Next]_vars PROVE [Advance]_vars
  <2>1. ASSUME NEW d \in Device, Put(d) PROVE Advance
    <3>1. ASSUME NEW e \in Device, NEW k \in Key, view[e][k] # None
          PROVE  /\ view'[e][k] # None
                 /\ view'[e][k].updated_at >= view[e][k].updated_at
      <4>1. view[e][k].updated_at \in Nat
            /\ (copy[e][k] # None => copy[e][k].updated_at \in Nat)
        BY <1>1, <3>1, RecordTypes DEF TypeOK
      <4>2. view'[e][k] \in {view[e][k]} \cup ({copy[e][k]} \ {None})
        BY <1>1, <2>1 DEF Put, TypeOK
      <4> QED  BY <1>1, <3>1, <4>1, <4>2 DEF Behind
    <3> QED  BY <3>1
  <2>2. ASSUME view' = view PROVE Advance
    BY <1>1, <2>2, RecordTypes DEF TypeOK
  <2>3. (\E d \in Device : Put(d)) \/ view' = view
    BY <1>1 DEF Next, Push, Take, Lose, vars
  <2> QED  BY <2>1, <2>2, <2>3
<1>2. TypeOK /\ Behind /\ [Next]_vars => [Advance]_vars  BY <1>1
<1> QED  BY <1>2, AlwaysBehind, PTL DEF Spec, ViewsAdvance

-----------------------------------------------------------------------------
(* The order of pushes *)

\* Of two records the later, or the one of the same time, beats the other.
LEMMA BeatsOrders ==
    ASSUME ConstantsOK, NEW a \in Row, NEW b \in Row
    PROVE  /\ Beats(a, b) <=> a.updated_at >= b.updated_at
           /\ ~Beats(a, b) => b.updated_at > a.updated_at
           /\ a.updated_at \in Nat /\ b.updated_at \in Nat
<1>1. b # None /\ a.updated_at \in Nat /\ b.updated_at \in Nat
  BY DEF ConstantsOK, Row
<1> QED  BY <1>1 DEF Beats

\* Two batches written one after the other are one batch.
LEMMA PushesAddUp ==
    ASSUME ConstantsOK, NEW A \in SUBSET Row, NEW B \in SUBSET Row,
           NEW old \in Row \cup {None},
           NEW x \in Winners(old, A), NEW y \in Winners(x, B)
    PROVE  y \in Winners(old, A \cup B)
<1>1. CASE x \in A /\ Beats(x, old) /\ \A c \in A : Beats(x, c)
  <2>1. CASE y \in B /\ Beats(y, x) /\ \A c \in B : Beats(y, c)
    <3>1. ASSUME NEW c \in A PROVE Beats(y, c)
      BY <1>1, <2>1, BeatsOrders
    <3>2. Beats(y, old)
      <4>1. CASE old = None  BY <4>1 DEF Beats
      <4>2. CASE old \in Row  BY <1>1, <2>1, <4>2, BeatsOrders
      <4> QED  BY <4>1, <4>2
    <3> QED  BY <2>1, <3>1, <3>2 DEF Winners
  <2>2. CASE y = x /\ \A c \in B : ~Beats(c, x)
    <3>1. ASSUME NEW c \in B PROVE Beats(x, c)
      BY <1>1, <2>2, BeatsOrders
    <3> QED  BY <1>1, <2>2, <3>1 DEF Winners
  <2> QED  BY <2>1, <2>2 DEF Winners
<1>2. CASE x = old /\ \A c \in A : ~Beats(c, old)
  <2>1. CASE y \in B /\ Beats(y, old) /\ \A c \in B : Beats(y, c)
    <3>1. ASSUME NEW c \in A PROVE Beats(y, c)
      <4>1. old \in Row  BY <1>2 DEF Beats
      <4> QED  BY <1>2, <2>1, <4>1, BeatsOrders
    <3> QED  BY <2>1, <3>1 DEF Winners
  <2>2. CASE y = old /\ \A c \in B : ~Beats(c, old)
    BY <1>2, <2>2 DEF Winners
  <2> QED  BY <1>2, <2>1, <2>2 DEF Winners
<1> QED  BY <1>1, <1>2 DEF Winners

\* Two records of the same time apart, there is one winner.
LEMMA OneWinner ==
    ASSUME ConstantsOK, NEW C \in SUBSET Row, NEW old \in Row \cup {None},
           \A a, b \in C : a.updated_at = b.updated_at => a = b,
           NEW x \in Winners(old, C), NEW y \in Winners(old, C)
    PROVE  x = y
<1>1. ASSUME x \in C, y \in C, Beats(x, y), Beats(y, x) PROVE x = y
  BY <1>1, BeatsOrders
<1> QED  BY <1>1 DEF Winners

\* Last write wins: of two pushes, whichever is committed first, the table is
\* the same afterwards, unless two of their edits have the same time.
THEOREM PushesCommute ==
    ASSUME ConstantsOK, NEW A \in SUBSET Row, NEW B \in SUBSET Row,
           NEW old \in Row \cup {None},
           \A a, b \in A \cup B : a.updated_at = b.updated_at => a = b,
           NEW x \in Winners(old, A), NEW y \in Winners(x, B),
           NEW v \in Winners(old, B), NEW z \in Winners(v, A)
    PROVE  y = z
<1>1. y \in Winners(old, A \cup B)  BY PushesAddUp
<1>2. z \in Winners(old, B \cup A)  BY PushesAddUp
<1>3. A \cup B \in SUBSET Row /\ A \cup B = B \cup A  OBVIOUS
<1> QED  BY <1>1, <1>2, <1>3, OneWinner
===============================================================================
