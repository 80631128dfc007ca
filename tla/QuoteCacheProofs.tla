---------------------------- MODULE QuoteCacheProofs ----------------------------
(***************************************************************************)
(* Proofs about QuoteCache, for any symbols, time to live, timeout, number *)
(* of network operations of a call and number of requests at a time.       *)
(***************************************************************************)
EXTENDS QuoteCache, FiniteSetTheorems, TLAPS

-----------------------------------------------------------------------------
(* The inductive invariant: the frame of the steps *)

\* What the type invariant says of a request in flight.
LEMMA JobTypes ==
    ASSUME TypeOK, NEW r \in Req, phase[r] # "idle"
    PROVE  /\ job[r] \in Job
           /\ job[r].symbol \in Symbol
           /\ job[r].asset_class \in AssetClass
           /\ job[r].row \in Row \cup {None}
           /\ job[r].ops \in Nat
           /\ job[r].heard \in Nat
           /\ job[r].price \in Price \cup {None}
           /\ job[r].fetched_at \in Nat
BY DEF TypeOK, Job

\* Each operation of a call has the time of the timeout, and the call that of
\* all of them.
LEMMA OperationsTake ==
    ASSUME NEW ops \in Nat
    PROVE  /\ ops * TIMEOUT \in Nat
           /\ Operations * TIMEOUT \in Nat
           /\ (ops + 1) * TIMEOUT = ops * TIMEOUT + TIMEOUT
           /\ ops < Operations => ops * TIMEOUT + TIMEOUT <= Operations * TIMEOUT
<1>1. TIMEOUT \in Nat /\ Operations \in Nat
  BY ConstantsAssumption
<1>2. (ops + 1) * TIMEOUT = ops * TIMEOUT + TIMEOUT
  BY <1>1
<1>3. \A a, b \in Nat : a <= b => a * TIMEOUT <= b * TIMEOUT
  BY <1>1
<1>4. ops < Operations => (ops + 1) * TIMEOUT <= Operations * TIMEOUT
  BY <1>1, <1>3
<1> QED  BY <1>1, <1>2, <1>4

\* A step of request r that keeps the clock and the rows' meaning, and leaves
\* the other requests alone, keeps the invariant if r's locals stay right.
LEMMA HandlerStep ==
    ASSUME Inductive, NEW r \in Req,
           NEW p \in {"idle", "wait", "judge", "call", "upsert", "reply"},
           NEW j \in Job \cup {None}, NEW a \in Answer \cup {None},
           phase' = [phase EXCEPT ![r] = p],
           job' = [job EXCEPT ![r] = j],
           answer' = [answer EXCEPT ![r] = a],
           now' = now, pool' = pool,
           cache' \in [Symbol -> Row \cup {None}],
           NoEmptyQuotes', RowDescribesPrice',
           p # "idle" => j \in Job,
           p = "upsert" => j.price \in Price,
           p = "reply" => a \in Answer,
           LocalsOK(r)'
    PROVE  Inductive'
<1>1. TypeOK'
  <2>1. /\ phase' \in [Req -> {"idle", "wait", "judge", "call", "upsert", "reply"}]
        /\ job' \in [Req -> Job \cup {None}]
        /\ answer' \in [Req -> Answer \cup {None}]
        /\ now' \in Nat /\ pool' \in Pools
    BY DEF Inductive, TypeOK
  <2>2. \A q \in Req : /\ phase'[q] # "idle" => job'[q] \in Job
                       /\ phase'[q] = "upsert" => job'[q].price \in Price
                       /\ phase'[q] = "reply" => answer'[q] \in Answer
    <3> TAKE q \in Req
    <3>1. CASE q = r  BY <3>1 DEF Inductive, TypeOK
    <3>2. CASE q # r  BY <3>2 DEF Inductive, TypeOK
    <3> QED  BY <3>1, <3>2
  <2> QED  BY <2>1, <2>2 DEF TypeOK
<1>2. \A q \in Req : LocalsOK(q)'
  <2> TAKE q \in Req
  <2>1. CASE q = r  BY <2>1
  <2>2. CASE q # r
    <3>1. phase'[q] = phase[q] /\ job'[q] = job[q]
      BY <2>2 DEF Inductive, TypeOK
    <3> QED  BY <3>1 DEF Inductive, LocalsOK, Describes
  <2> QED  BY <2>1, <2>2
<1> QED  BY <1>1, <1>2 DEF Inductive

\* The rows keep their meaning when they do not change.
LEMMA SameRows ==
    ASSUME Inductive, cache' = cache
    PROVE  /\ cache' \in [Symbol -> Row \cup {None}]
           /\ NoEmptyQuotes'
           /\ RowDescribesPrice'
BY DEF Inductive, TypeOK, NoEmptyQuotes, RowDescribesPrice, Describes

\* An answer keeps the invariant.
LEMMA ReplyInductive ==
    ASSUME Inductive, NEW r \in Req, phase[r] # "idle",
           NEW a \in Answer, Reply(r, a), now' = now, pool' = pool,
           cache' \in [Symbol -> Row \cup {None}],
           NoEmptyQuotes', RowDescribesPrice'
    PROVE  Inductive'
<1> DEFINE j == Asked(job[r].symbol, job[r].asset_class)
<1>1. j \in Job
  BY JobTypes DEF Inductive, Asked, Job
<1>2. phase' = [phase EXCEPT ![r] = "reply"] /\ answer' = [answer EXCEPT ![r] = a]
      /\ job' = [job EXCEPT ![r] = j]
  BY DEF Reply
<1>3. phase'[r] = "reply"
  BY <1>2 DEF Inductive, TypeOK
<1>4. LocalsOK(r)'
  BY <1>3 DEF LocalsOK
<1> HIDE DEF j
<1> QED  BY <1>1, <1>2, <1>4, HandlerStep

\* The answers have their type.
LEMMA AnswerTypes ==
    /\ \A price \in Price, cached \in BOOLEAN : Shows(price, cached) \in Answer
    /\ \A status \in {404, 500, 503} : Error(status) \in Answer
BY DEF Shows, Error, Answer

-----------------------------------------------------------------------------
(* The inductive invariant: the steps *)

\* The invariant holds initially.
LEMMA InitInductive == Init => Inductive
BY DEF Init, Inductive, TypeOK, NoEmptyQuotes, RowDescribesPrice, LocalsOK

\* A request that begins keeps the invariant.
LEMMA RequestInductive ==
    ASSUME Inductive, NEW r \in Req, NEW s \in Symbol, NEW c \in AssetClass,
           Request(r, s, c)
    PROVE  Inductive'
<1> DEFINE j == Asked(s, c)
<1>1. j \in Job /\ j.price = None /\ j.ops = 0
  BY DEF Asked, Job
<1>2. phase' = [phase EXCEPT ![r] = "wait"] /\ job' = [job EXCEPT ![r] = j]
      /\ answer' = [answer EXCEPT ![r] = answer[r]]
      /\ answer[r] \in Answer \cup {None}
      /\ now' = now /\ pool' = pool /\ cache' = cache
  BY DEF Request, Inductive, TypeOK
<1> HIDE DEF j
<1>3. phase'[r] = "wait" /\ job'[r] = j
  BY <1>2 DEF Inductive, TypeOK
<1>4. LocalsOK(r)'
  BY <1>1, <1>3 DEF LocalsOK
<1> QED  BY <1>1, <1>2, <1>4, SameRows, HandlerStep

\* A request that selects a row keeps the invariant.
LEMMA SelectInductive ==
    ASSUME Inductive, NEW r \in Req, Select(r)
    PROVE  Inductive'
<1> DEFINE row == cache[job[r].symbol]
           j == [job[r] EXCEPT !.row = row]
<1>1. phase[r] = "wait" /\ job[r] \in Job /\ job[r].price = None /\ job[r].ops = 0
      /\ row \in Row \cup {None} /\ ( row # None => Describes(row) )
  BY JobTypes DEF Select, Inductive, TypeOK, LocalsOK, RowDescribesPrice
<1>2. j \in Job /\ j.row = row /\ j.price = None /\ j.ops = 0
  BY <1>1 DEF Job
<1>3. phase' = [phase EXCEPT ![r] = "judge"] /\ job' = [job EXCEPT ![r] = j]
      /\ answer' = [answer EXCEPT ![r] = answer[r]]
      /\ answer[r] \in Answer \cup {None}
      /\ now' = now /\ pool' = pool /\ cache' = cache
  BY DEF Select, Inductive, TypeOK
<1> HIDE DEF j, row
<1>4. phase'[r] = "judge" /\ job'[r] = j
  BY <1>3 DEF Inductive, TypeOK
<1>5. LocalsOK(r)'
  BY <1>1, <1>2, <1>4 DEF LocalsOK, Describes
<1> QED  BY <1>2, <1>3, <1>5, SameRows, HandlerStep

\* A hit keeps the invariant.
LEMMA HitInductive ==
    ASSUME Inductive, NEW r \in Req, Hit(r)
    PROVE  Inductive'
<1>1. phase[r] = "judge" /\ now' = now /\ pool' = pool /\ cache' = cache
      /\ job[r].row # None
  BY DEF Hit, Fresh
<1>2. job[r].row.price \in Price
  BY <1>1, JobTypes DEF Inductive, Row
<1> QED  BY <1>1, <1>2, AnswerTypes, SameRows, ReplyInductive DEF Hit

\* A miss keeps the invariant, whether it asks a provider or not.
LEMMA MissInductive ==
    ASSUME Inductive, NEW r \in Req, Miss(r)
    PROVE  Inductive'
<1>1. phase[r] = "judge" /\ now' = now /\ pool' = pool /\ cache' = cache /\ now \in Nat
      /\ job[r] \in Job /\ job[r].price = None /\ job[r].ops = 0
  BY JobTypes DEF Miss, Inductive, TypeOK, LocalsOK
<1>2. CASE \E status \in {404, 500} : Reply(r, Error(status))
  BY <1>1, <1>2, AnswerTypes, SameRows, ReplyInductive
<1>3. CASE /\ phase' = [phase EXCEPT ![r] = "call"]
           /\ job' = [job EXCEPT ![r].row = None, ![r].heard = now]
           /\ answer' = answer
  <2> DEFINE j == [job[r] EXCEPT !.row = None, !.heard = now]
  <2>1. j \in Job /\ j.heard = now /\ j.ops = 0 /\ j.price = None
    BY <1>1 DEF Job
  <2>2. job' = [job EXCEPT ![r] = j] /\ answer' = [answer EXCEPT ![r] = answer[r]]
        /\ answer[r] \in Answer \cup {None}
    BY <1>3 DEF Inductive, TypeOK
  <2> HIDE DEF j
  <2>3. phase'[r] = "call" /\ job'[r] = j
    BY <1>3, <2>2 DEF Inductive, TypeOK
  <2>4. LocalsOK(r)'
    BY <1>1, <2>1, <2>3, ConstantsAssumption DEF LocalsOK
  <2> QED  BY <1>1, <1>3, <2>1, <2>2, <2>4, SameRows, HandlerStep
<1> QED  BY <1>2, <1>3 DEF Miss

\* A provider's price, on its way, keeps the invariant.
LEMMA QuoteInductive ==
    ASSUME Inductive, NEW r \in Req, NEW zero \in BOOLEAN, Quote(r, zero)
    PROVE  Inductive'
<1> DEFINE price == [asset_class |-> job[r].asset_class, at |-> now, zero |-> zero]
           j == [job[r] EXCEPT !.price = price]
<1>1. phase[r] = "call" /\ now' = now /\ pool' = pool /\ cache' = cache /\ now \in Nat
      /\ job[r] \in Job /\ job[r].asset_class \in AssetClass
      /\ job[r].ops < Operations /\ job[r].heard <= now
  BY JobTypes DEF Quote, Inductive, TypeOK, LocalsOK
<1>2. price \in Price
  BY <1>1 DEF Price
<1>3. j \in Job /\ j.price = price /\ j.asset_class = job[r].asset_class
      /\ j.ops = job[r].ops /\ j.heard = job[r].heard
      /\ job[r].ops \in Nat /\ job[r].heard \in Nat
  BY <1>1, <1>2 DEF Job
<1>4. job' = [job EXCEPT ![r] = j] /\ phase' = [phase EXCEPT ![r] = "call"]
      /\ answer' = [answer EXCEPT ![r] = answer[r]]
      /\ answer[r] \in Answer \cup {None}
  BY <1>1 DEF Quote, Inductive, TypeOK
<1>5. price.asset_class = job[r].asset_class /\ price.at = now
  OBVIOUS
<1> HIDE DEF j, price
<1>6. phase'[r] = "call" /\ job'[r] = j
  BY <1>4 DEF Inductive, TypeOK
<1>7. job[r].heard <= now + job[r].ops * TIMEOUT
  BY <1>1, <1>3, OperationsTake
<1>8. LocalsOK(r)'
  BY <1>1, <1>3, <1>5, <1>6, <1>7 DEF LocalsOK
<1> QED  BY <1>1, <1>3, <1>4, <1>8, SameRows, HandlerStep

\* The end of an operation that is not the last keeps the invariant: the time
\* the call has taken since the price was quoted grows by at most the timeout.
LEMMA HearInductive ==
    ASSUME Inductive, NEW r \in Req, Hear(r)
    PROVE  Inductive'
<1> DEFINE more == job[r].ops + 1
           j == [job[r] EXCEPT !.ops = more, !.heard = now]
<1>1. phase[r] = "call" /\ now' = now /\ pool' = pool /\ cache' = cache /\ now \in Nat
      /\ job[r] \in Job /\ job[r].ops \in Nat /\ job[r].heard \in Nat
      /\ now <= job[r].heard + TIMEOUT /\ job[r].ops + 1 < Operations
  BY JobTypes DEF Hear, InTime, Inductive, TypeOK
<1>2. j \in Job /\ j.ops = job[r].ops + 1 /\ j.heard = now
      /\ j.price = job[r].price /\ j.asset_class = job[r].asset_class
  <2>1. more \in Nat
    BY <1>1
  <2> HIDE DEF more
  <2>2. j \in Job /\ j.ops = more /\ j.heard = now
        /\ j.price = job[r].price /\ j.asset_class = job[r].asset_class
    BY <1>1, <2>1 DEF Job
  <2> QED  BY <2>2 DEF more
<1>3. job' = [job EXCEPT ![r] = j] /\ phase' = [phase EXCEPT ![r] = "call"]
      /\ answer' = [answer EXCEPT ![r] = answer[r]]
      /\ answer[r] \in Answer \cup {None}
  BY <1>1 DEF Hear, Inductive, TypeOK
<1>4. ASSUME job[r].price # None
      PROVE  now <= job[r].price.at + (job[r].ops + 1) * TIMEOUT
  <2> DEFINE heard == job[r].heard
             at == job[r].price.at
             spent == job[r].ops * TIMEOUT
             most == (job[r].ops + 1) * TIMEOUT
  <2>1. at \in Nat /\ heard <= at + spent
    BY <1>1, <1>4, JobTypes DEF Inductive, LocalsOK, Price
  <2>2. spent \in Nat /\ TIMEOUT \in Nat /\ most = spent + TIMEOUT
    BY <1>1, OperationsTake, ConstantsAssumption
  <2>3. now <= heard + TIMEOUT /\ heard \in Nat
    BY <1>1
  <2> HIDE DEF heard, at, spent, most
  <2>4. now <= at + most
    BY <1>1, <2>1, <2>2, <2>3
  <2> QED  BY <2>4 DEF at, most
<1> HIDE DEF j, more
<1>5. phase'[r] = "call" /\ job'[r] = j
  BY <1>3 DEF Inductive, TypeOK
<1>6. LocalsOK(r)'
  BY <1>1, <1>2, <1>4, <1>5 DEF Inductive, LocalsOK
<1> QED  BY <1>1, <1>2, <1>3, <1>6, SameRows, HandlerStep

\* The arrival of a price keeps the invariant: no operation since the price was
\* quoted has taken longer than the timeout.
LEMMA ArriveInductive ==
    ASSUME Inductive, NEW r \in Req, Arrive(r)
    PROVE  Inductive'
<1>1. phase[r] = "call" /\ now' = now /\ pool' = pool /\ cache' = cache /\ now \in Nat
      /\ job[r] \in Job /\ job[r].price \in Price /\ job[r].ops \in Nat /\ job[r].heard \in Nat
  BY JobTypes DEF Arrive, Inductive, TypeOK
<1>2. CASE ~Usable(job[r].price)
  BY <1>1, <1>2, AnswerTypes, SameRows, ReplyInductive DEF Arrive
<1>3. CASE Usable(job[r].price)
  <2> DEFINE j == [job[r] EXCEPT !.ops = 0, !.heard = 0, !.fetched_at = now]
  <2>1. j \in Job /\ j.fetched_at = now /\ j.price = job[r].price
        /\ j.asset_class = job[r].asset_class
    BY <1>1 DEF Job
  <2>2. job' = [job EXCEPT ![r] = j] /\ phase' = [phase EXCEPT ![r] = "upsert"]
        /\ answer' = [answer EXCEPT ![r] = answer[r]]
        /\ answer[r] \in Answer \cup {None}
    BY <1>3 DEF Arrive, Inductive, TypeOK
  <2> HIDE DEF j
  <2>3. phase'[r] = "upsert" /\ job'[r] = j
    BY <2>2 DEF Inductive, TypeOK
  <2>4. job[r].price.asset_class = job[r].asset_class
        /\ job[r].heard <= job[r].price.at + job[r].ops * TIMEOUT
        /\ job[r].ops < Operations /\ now <= job[r].heard + TIMEOUT
        /\ job[r].price.at <= now /\ job[r].price.at \in Nat
        /\ ~job[r].price.zero
    BY <1>1, <1>3 DEF Arrive, InTime, Usable, Inductive, LocalsOK, Price
  <2>5. now <= job[r].price.at + Operations * TIMEOUT
    <3> DEFINE heard == job[r].heard
               at == job[r].price.at
               spent == job[r].ops * TIMEOUT
               most == Operations * TIMEOUT
    <3>1. /\ now <= heard + TIMEOUT
          /\ heard <= at + spent
          /\ spent + TIMEOUT <= most
      BY <1>1, <2>4, OperationsTake
    <3>2. heard \in Nat /\ at \in Nat /\ spent \in Nat /\ most \in Nat /\ TIMEOUT \in Nat
      BY <1>1, <2>4, OperationsTake, ConstantsAssumption
    <3> HIDE DEF heard, at, spent, most
    <3>3. now <= at + most
      BY <1>1, <3>1, <3>2
    <3> QED  BY <3>3 DEF at, most
  <2>6. LocalsOK(r)'
    BY <2>1, <2>3, <2>4, <2>5 DEF LocalsOK
  <2> QED  BY <1>1, <2>1, <2>2, <2>6, SameRows, HandlerStep
<1> QED  BY <1>2, <1>3

\* A provider that has no price, fails or keeps silent keeps the invariant.
LEMMA RefusalInductive ==
    ASSUME Inductive, NEW r \in Req, NoQuote(r) \/ Unavailable(r) \/ Timeout(r)
    PROVE  Inductive'
<1>1. phase[r] = "call" /\ now' = now /\ pool' = pool /\ cache' = cache
      /\ \E status \in {404, 503} : Reply(r, Error(status))
  BY DEF NoQuote, Unavailable, Timeout
<1> QED  BY <1>1, AnswerTypes, SameRows, ReplyInductive

\* The upsert keeps the invariant: the row it writes is made of the locals.
LEMMA UpsertInductive ==
    ASSUME Inductive, NEW r \in Req, Upsert(r)
    PROVE  Inductive'
<1> DEFINE new == [asset_class |-> job[r].asset_class, price |-> job[r].price,
                   fetched_at |-> job[r].fetched_at]
<1>1. phase[r] = "upsert" /\ now' = now /\ pool' = pool /\ job[r].price \in Price
      /\ job[r].symbol \in Symbol
  BY JobTypes DEF Upsert, Inductive, TypeOK
<1>2. new \in Row
  BY <1>1, JobTypes DEF Inductive, Row
<1>3. Describes(new) /\ ~new.price.zero
  BY <1>1 DEF Inductive, LocalsOK, Describes
<1>4. cache' = [cache EXCEPT ![job[r].symbol] = new]
  BY DEF Upsert
<1> HIDE DEF new
<1>5. cache' \in [Symbol -> Row \cup {None}]
  BY <1>2, <1>4 DEF Inductive, TypeOK
<1>6. \A s \in Symbol : cache'[s] = new \/ cache'[s] = cache[s]
  BY <1>4 DEF Inductive, TypeOK
<1>7. NoEmptyQuotes' /\ RowDescribesPrice'
  BY <1>3, <1>6 DEF Inductive, NoEmptyQuotes, RowDescribesPrice, Describes
<1>8. Shows(job[r].price, FALSE) \in Answer /\ Reply(r, Shows(job[r].price, FALSE))
  BY <1>1, AnswerTypes DEF Upsert
<1> QED  BY <1>1, <1>5, <1>7, <1>8, ReplyInductive

\* The end of a request keeps the invariant.
LEMMA DoneInductive ==
    ASSUME Inductive, NEW r \in Req, Done(r)
    PROVE  Inductive'
<1>1. phase'[r] = "idle"
  BY DEF Done, Inductive, TypeOK
<1>2. LocalsOK(r)'
  BY <1>1 DEF LocalsOK
<1> QED  BY <1>2, SameRows, HandlerStep DEF Done

\* The passing of time keeps the invariant.
LEMMA TickInductive ==
    ASSUME Inductive, Tick
    PROVE  Inductive'
<1>1. now \in Nat /\ now' = now + 1 /\ UNCHANGED <<pool, cache, phase, job, answer>>
  BY DEF Tick, Inductive, TypeOK
<1>2. TypeOK' /\ NoEmptyQuotes' /\ RowDescribesPrice'
  BY <1>1 DEF Inductive, TypeOK, NoEmptyQuotes, RowDescribesPrice, Describes
<1>3. \A r \in Req : LocalsOK(r)'
  <2> TAKE r \in Req
  <2>1. phase[r] = "call" => /\ job[r].heard \in Nat
                             /\ job[r].price # None => job[r].price.at \in Nat
    BY JobTypes DEF Inductive, Price
  <2> QED  BY <1>1, <2>1 DEF Inductive, LocalsOK, Describes
<1> QED  BY <1>2, <1>3 DEF Inductive

\* The invariant is preserved by every step.
LEMMA NextInductive == Inductive /\ [Next]_vars => Inductive'
<1> SUFFICES ASSUME Inductive, [Next]_vars PROVE Inductive'
  OBVIOUS
<1>1. ASSUME NEW r \in Req, NEW s \in Symbol, NEW c \in AssetClass, Request(r, s, c)
      PROVE  Inductive'
  BY <1>1, RequestInductive
<1>2. ASSUME NEW r \in Req, NEW zero \in BOOLEAN, Quote(r, zero)
      PROVE  Inductive'
  BY <1>2, QuoteInductive
<1>3. ASSUME NEW r \in Req, \/ Select(r) \/ Hit(r) \/ Miss(r) \/ Hear(r) \/ NoQuote(r)
                            \/ Arrive(r) \/ Unavailable(r) \/ Timeout(r) \/ Upsert(r)
      PROVE  Inductive'
  BY <1>3, SelectInductive, HitInductive, MissInductive, HearInductive, ArriveInductive,
     RefusalInductive, UpsertInductive
<1>4. ASSUME NEW r \in Req, Deliver(r) \/ Fail(r)
      PROVE  Inductive'
  BY <1>4, DoneInductive DEF Deliver, Fail
<1>5. CASE Tick
  BY <1>5, TickInductive
<1>6. CASE UNCHANGED vars
  BY <1>6 DEF vars, Inductive, TypeOK, NoEmptyQuotes, RowDescribesPrice, LocalsOK,
              Describes
<1> QED  BY <1>1, <1>2, <1>3, <1>4, <1>5, <1>6 DEF Next

\* The invariant holds in every state of every behaviour.
THEOREM AlwaysInductive == Spec => []Inductive
<1>1. Inductive /\ [Next]_vars => Inductive'
  BY NextInductive
<1> QED  BY <1>1, InitInductive, PTL DEF Spec

-----------------------------------------------------------------------------
(* The properties of the runs *)

\* Cache, locals and answers have their types.
THEOREM TypeCorrect == Spec => []TypeOK
BY AlwaysInductive, PTL DEF Inductive

\* Finnhub's zero for an unknown symbol is never cached.
THEOREM ZeroIsNoPrice == Spec => []NoEmptyQuotes
BY AlwaysInductive, PTL DEF Inductive

\* A cached row names the class its price was quoted for, and its fetched_at is
\* within the time of the longest call of the quote, in whatever order requests
\* commit.
THEOREM RowsDescribePrices == Spec => []RowDescribesPrice
BY AlwaysInductive, PTL DEF Inductive

\* The only step that answers from the cache is a hit on a row that is fresh.
LEMMA CachedAnswer ==
    ASSUME Inductive, [Next]_vars, NEW r \in Req,
           answer[r] = None, answer'[r] # None,
           answer'[r].status = 200, answer'[r].cached
    PROVE  Hit(r) /\ answer'[r] = Shows(job[r].row.price, TRUE)
<1>1. \A q \in Req : \A a : Reply(q, a) => q = r /\ answer'[r] = a
  BY DEF Reply, Inductive, TypeOK
<1>2. \A q \in Req, status \in {404, 500, 503} : ~Reply(q, Error(status))
  <2> SUFFICES ASSUME NEW q \in Req, NEW status \in {404, 500, 503},
                      Reply(q, Error(status))
               PROVE  FALSE
    OBVIOUS
  <2>1. answer'[r] = Error(status)
    BY <1>1
  <2> QED  BY <2>1 DEF Error
<1>3. \A q \in Req : ~Reply(q, Shows(job[q].price, FALSE))
  <2> SUFFICES ASSUME NEW q \in Req, Reply(q, Shows(job[q].price, FALSE))
               PROVE  FALSE
    OBVIOUS
  <2>1. answer'[r] = Shows(job[q].price, FALSE)
    BY DEF Reply, Inductive, TypeOK
  <2> QED  BY <2>1 DEF Shows
<1>4. \A q \in Req : ~NoQuote(q) /\ ~Unavailable(q) /\ ~Timeout(q) /\ ~Upsert(q)
  <2> TAKE q \in Req
  <2>1. ~Reply(q, Error(404)) /\ ~Reply(q, Error(503))
    BY <1>2
  <2>2. ~Reply(q, Shows(job[q].price, FALSE))
    BY <1>3
  <2> QED  BY <2>1, <2>2 DEF NoQuote, Unavailable, Timeout, Upsert
<1>5. \A q \in Req : ~Miss(q) /\ ~Arrive(q)
  BY <1>2 DEF Miss, Arrive
<1>6. \A q \in Req : ~Hear(q) /\ \A zero \in BOOLEAN : ~Quote(q, zero)
  BY DEF Quote, Hear
<1>7. \A q \in Req : ~Select(q) /\ \A s \in Symbol, c \in AssetClass : ~Request(q, s, c)
  BY DEF Select, Request
<1>8. \A q \in Req : ~Done(q)
  BY DEF Done, Inductive, TypeOK
<1>9. ~Tick /\ ~UNCHANGED vars
  BY DEF Tick, vars
<1>10. PICK q \in Req : Hit(q)
  BY <1>4, <1>5, <1>6, <1>7, <1>8, <1>9 DEF Next, Deliver, Fail
<1>11. Reply(q, Shows(job[q].row.price, TRUE))
  BY <1>10 DEF Hit
<1>12. q = r /\ answer'[r] = Shows(job[q].row.price, TRUE)
  BY <1>11 DEF Reply, Inductive, TypeOK
<1> QED  BY <1>10, <1>12

\* The age of a price shown from the cache is bounded by the time to live and
\* the timeouts of a call's operations, whatever the order of concurrent requests.
THEOREM PricesAreRecent == Spec => PriceAgeBounded
<1>1. ASSUME Inductive, [Next]_vars, NEW r \in Req,
             answer[r] = None, answer'[r] # None,
             answer'[r].status = 200, answer'[r].cached
      PROVE  now <= answer'[r].price.at + TTL + Operations * TIMEOUT
  <2> DEFINE row == job[r].row
  <2>0. Hit(r) /\ answer'[r] = Shows(row.price, TRUE)
    BY <1>1, CachedAnswer
  <2>1. Hit(r) /\ answer'[r].price = row.price
    BY <2>0 DEF Shows
  <2>2. phase[r] = "judge" /\ row # None /\ now - row.fetched_at <= TTL
    BY <2>1 DEF Hit, Fresh
  <2>3. row \in Row /\ row.fetched_at \in Nat /\ row.price.at \in Nat
    BY <1>1, <2>2, JobTypes DEF Inductive, Row, Price
  <2>4. row.fetched_at <= row.price.at + Operations * TIMEOUT
    BY <1>1, <2>2 DEF Inductive, LocalsOK, Describes
  <2>5. now \in Nat /\ Operations * TIMEOUT \in Nat
    BY <1>1, OperationsTake DEF Inductive, TypeOK
  <2> HIDE DEF row
  <2> QED  BY <2>1, <2>2, <2>3, <2>4, <2>5, ConstantsAssumption
<1>2. Inductive /\ [Next]_vars =>
        \A r \in Req :
          ( /\ answer[r] = None /\ answer'[r] # None
            /\ answer'[r].status = 200 /\ answer'[r].cached )
          => now <= answer'[r].price.at + TTL + Operations * TIMEOUT
  BY <1>1
<1> QED  BY <1>2, AlwaysInductive, PTL DEF Spec, PriceAgeBounded

-----------------------------------------------------------------------------
(* The pool of connections *)

Holders == {r \in Req : Holds(r)}

\* No more connections are out than the pool has.
PoolKept == Cardinality(Holders) <= pool

\* A step of one handler that gives it no connection takes none from the pool.
LEMMA NoNewHolder ==
    ASSUME NEW r \in Req,
           \A q \in Req \ {r} : phase'[q] = phase[q] /\ answer'[q] = answer[q],
           Holds(r)' => Holds(r)
    PROVE  Holders' \subseteq Holders
<1>1. \A q \in Req \ {r} : Holds(q)' => Holds(q)
  BY DEF Holds
<1> QED  BY <1>1 DEF Holders

\* An answer: the connection stays out until it is sent, unless the handler
\* has committed.
LEMMA ReplyHolders ==
    ASSUME TypeOK, NEW r \in Req, NEW a \in Answer, Reply(r, a),
           \/ Holds(r)
           \/ a.status = 200 /\ ~a.cached
    PROVE  Holders' \subseteq Holders
<1>1. /\ phase'[r] = "reply" /\ answer'[r] = a
      /\ \A q \in Req \ {r} : phase'[q] = phase[q] /\ answer'[q] = answer[q]
  BY DEF Reply, TypeOK
<1>2. Holds(r)' => Holds(r)
  BY <1>1 DEF Holds
<1> QED  BY <1>1, <1>2, NoNewHolder

\* Connections are taken by the first statement of a request, one at a time,
\* and by nothing else.
LEMMA NextHolders ==
    ASSUME Inductive, [Next]_vars
    PROVE  \/ Holders' \subseteq Holders
           \/ Available /\ \E r \in Req : Holders' \subseteq Holders \cup {r}
<1>1. TypeOK  BY DEF Inductive
<1>2. ASSUME NEW r \in Req, NEW s \in Symbol, NEW c \in AssetClass, Request(r, s, c)
      PROVE  Holders' \subseteq Holders
  <2>1. /\ phase'[r] = "wait"
        /\ \A q \in Req \ {r} : phase'[q] = phase[q] /\ answer'[q] = answer[q]
    BY <1>1, <1>2 DEF Request, TypeOK
  <2>2. ~Holds(r)'  BY <2>1 DEF Holds
  <2> QED  BY <2>1, <2>2, NoNewHolder
<1>3. ASSUME NEW r \in Req, Select(r)
      PROVE  Available /\ Holders' \subseteq Holders \cup {r}
  <2>1. Available /\ \A q \in Req \ {r} : /\ phase'[q] = phase[q]
                                          /\ answer'[q] = answer[q]
    BY <1>1, <1>3 DEF Select, TypeOK
  <2>2. \A q \in Req \ {r} : Holds(q)' => Holds(q)
    BY <2>1 DEF Holds
  <2> QED  BY <2>1, <2>2 DEF Holders
<1>4. ASSUME NEW r \in Req, Hit(r) PROVE Holders' \subseteq Holders
  <2>1. phase[r] = "judge" /\ Reply(r, Shows(job[r].row.price, TRUE))
    BY <1>4 DEF Hit
  <2>2. job[r].row \in Row
    BY <1>1, <1>4, JobTypes DEF Hit, Fresh
  <2>3. Shows(job[r].row.price, TRUE) \in Answer
    BY <2>2 DEF Shows, Answer, Row
  <2> QED  BY <1>1, <2>1, <2>3, ReplyHolders DEF Holds
<1>5. ASSUME NEW r \in Req, Miss(r) PROVE Holders' \subseteq Holders
  <2>1. CASE \E status \in {404, 500} : Reply(r, Error(status))
    <3>1. PICK status \in {404, 500} : Reply(r, Error(status))  BY <2>1
    <3>2. Error(status) \in Answer  BY DEF Error, Answer
    <3> QED  BY <1>1, <1>5, <3>1, <3>2, ReplyHolders DEF Miss, Holds
  <2>2. CASE phase' = [phase EXCEPT ![r] = "call"] /\ answer' = answer
    <3>1. Holds(r)  BY <1>5 DEF Miss, Holds
    <3> QED  BY <1>1, <2>2, <3>1, NoNewHolder DEF TypeOK
  <2> QED  BY <1>5, <2>1, <2>2 DEF Miss
<1>6. ASSUME NEW r \in Req, Hear(r) \/ \E zero \in BOOLEAN : Quote(r, zero)
      PROVE  Holders' \subseteq Holders
  BY <1>6 DEF Hear, Quote, Holders, Holds
<1>7. ASSUME NEW r \in Req, NoQuote(r) \/ Unavailable(r) \/ Timeout(r)
      PROVE  Holders' \subseteq Holders
  <2>1. PICK status \in {404, 503} : phase[r] = "call" /\ Reply(r, Error(status))
    BY <1>7 DEF NoQuote, Unavailable, Timeout
  <2>2. Error(status) \in Answer  BY DEF Error, Answer
  <2> QED  BY <1>1, <2>1, <2>2, ReplyHolders DEF Holds
<1>8. ASSUME NEW r \in Req, Arrive(r) PROVE Holders' \subseteq Holders
  <2>1. phase[r] = "call" /\ Holds(r)  BY <1>8 DEF Arrive, Holds
  <2>2. CASE Reply(r, Error(404))
    <3>1. Error(404) \in Answer  BY DEF Error, Answer
    <3> QED  BY <1>1, <2>1, <2>2, <3>1, ReplyHolders
  <2>3. CASE phase' = [phase EXCEPT ![r] = "upsert"] /\ answer' = answer
    BY <1>1, <2>1, <2>3, NoNewHolder DEF TypeOK
  <2> QED  BY <1>8, <2>2, <2>3 DEF Arrive
<1>9. ASSUME NEW r \in Req, Upsert(r) PROVE Holders' \subseteq Holders
  <2>1. phase[r] = "upsert" /\ Reply(r, Shows(job[r].price, FALSE))
    BY <1>9 DEF Upsert
  <2>2. Shows(job[r].price, FALSE) \in Answer
    BY <1>1, <2>1 DEF TypeOK, Shows, Answer
  <2> QED  BY <1>1, <2>1, <2>2, ReplyHolders DEF Holds
<1>10. ASSUME NEW r \in Req, Deliver(r) \/ Fail(r) PROVE Holders' \subseteq Holders
  <2>1. /\ phase'[r] = "idle"
        /\ \A q \in Req \ {r} : phase'[q] = phase[q] /\ answer'[q] = answer[q]
    BY <1>1, <1>10 DEF Deliver, Fail, Done, TypeOK
  <2>2. ~Holds(r)'  BY <2>1 DEF Holds
  <2> QED  BY <2>1, <2>2, NoNewHolder
<1>11. ASSUME Tick \/ UNCHANGED vars PROVE Holders' \subseteq Holders
  BY <1>11 DEF Tick, vars, Holders, Holds
<1> QED  BY <1>2, <1>3, <1>4, <1>5, <1>6, <1>7, <1>8, <1>9, <1>10, <1>11 DEF Next

\* However many requests there are at a time, the pool's connections are
\* enough for those at work: what makes the others wait is the pool's size.
THEOREM PoolIsKept ==
    ASSUME IsFiniteSet(Req)
    PROVE  Spec => []PoolKept
<1>1. Init => PoolKept
  <2>1. SUFFICES ASSUME Init PROVE PoolKept  OBVIOUS
  <2>2. Holders = {}  BY <2>1 DEF Init, Holders, Holds
  <2>3. pool \in Nat  BY <2>1, ConstantsAssumption DEF Init
  <2> QED  BY <2>2, <2>3, FS_EmptySet DEF PoolKept
<1>2. Inductive /\ PoolKept /\ [Next]_vars => PoolKept'
  <2>1. SUFFICES ASSUME Inductive, PoolKept, [Next]_vars PROVE PoolKept'
    OBVIOUS
  <2>2. pool' = pool /\ pool \in Nat
    <3>1. pool' = pool
      BY <2>1 DEF Next, vars, Request, Select, Hit, Miss, Quote, Hear, NoQuote, Arrive,
                  Unavailable, Timeout, Upsert, Deliver, Fail, Done, Tick
    <3> QED  BY <2>1, <3>1, ConstantsAssumption DEF Inductive, TypeOK
  <2>3. IsFiniteSet(Holders) /\ Cardinality(Holders) \in Nat
    BY FS_Subset, FS_CardinalityType DEF Holders
  <2>4. IsFiniteSet(Holders') /\ Cardinality(Holders') \in Nat
    BY FS_Subset, FS_CardinalityType DEF Holders
  <2>5. CASE Holders' \subseteq Holders
    <3>1. Cardinality(Holders') <= Cardinality(Holders)
      BY <2>3, <2>5, FS_Subset
    <3> QED  BY <2>1, <2>2, <2>3, <2>4, <3>1 DEF PoolKept
  <2>6. ASSUME NEW r \in Req, Available, Holders' \subseteq Holders \cup {r}
        PROVE  PoolKept'
    <3>1. Cardinality(Holders) < pool  BY <2>6 DEF Available, Holders
    <3>2. /\ IsFiniteSet(Holders \cup {r}) /\ Cardinality(Holders \cup {r}) \in Nat
          /\ Cardinality(Holders \cup {r}) <= Cardinality(Holders) + 1
      <4> DEFINE n == Cardinality(Holders)
                 m == Cardinality(Holders \cup {r})
      <4>1. /\ IsFiniteSet(Holders \cup {r})
            /\ m = IF r \in Holders THEN n ELSE n + 1
        BY <2>3, FS_AddElement
      <4>2. n \in Nat /\ m \in Nat
        BY <2>3, <4>1, FS_CardinalityType
      <4>3. m = n \/ m = n + 1  BY <4>1
      <4> HIDE DEF n, m
      <4>4. m <= n + 1  BY <4>2, <4>3
      <4> QED  BY <4>1, <4>2, <4>4 DEF n, m
    <3>3. Cardinality(Holders') <= Cardinality(Holders \cup {r})
      BY <2>6, <3>2, FS_Subset
    <3> QED  BY <2>2, <2>3, <2>4, <3>1, <3>2, <3>3 DEF PoolKept
  <2> QED  BY <2>1, <2>5, <2>6, NextHolders
<1> QED  BY <1>1, <1>2, AlwaysInductive, PTL DEF Spec
===============================================================================
