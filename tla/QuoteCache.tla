------------------------------ MODULE QuoteCache ------------------------------
(***************************************************************************)
(* Market data: GET /api/v1/market-data/quote (api/v1/market_data.py), the *)
(* table it caches prices in (db/quote_cache.py, db/models.py: QuoteCache) *)
(* and the two price providers it asks on a miss (core/providers.py).      *)
(*                                                                         *)
(* Every await ends an action, and time may pass there.  An upsert and its *)
(* commit are one step: the statement overwrites the row unconditionally   *)
(* and waits for another request's upsert of the same symbol, so requests  *)
(* take effect one by one, in the order of their commits.                  *)
(***************************************************************************)
EXTENDS Integers, FiniteSets

CONSTANTS
    Symbol,
    Coins,       \* the symbols of COINGECKO_ID_MAP
    Req,         \* slots for the requests the server works on at a time
    Configured,  \* whether FINNHUB_API_KEY is set
    TTL,         \* CACHE_TTL_MINUTES, in ticks of the clock
    TIMEOUT,     \* the HTTP client's timeout, in ticks: one network operation's
    Operations,  \* bound: the network operations of a call (connect, write, the
                 \* reads of a response)
    Pools,       \* the sizes the pool of the database engine may have
    MaxTime,     \* bound: no request starts from here on
    None

ASSUME ConstantsAssumption ==
    /\ Coins \subseteq Symbol
    /\ Configured \in BOOLEAN
    /\ TTL \in Nat
    /\ TIMEOUT \in Nat
    /\ Operations \in Nat \ {0}
    /\ Pools \subseteq Nat \ {0}
    /\ MaxTime \in Nat

AssetClass == {"stock", "crypto"}

\* A price: who quoted it and when, and whether it is the zero Finnhub quotes
\* for a symbol it does not know.  Its value plays no other role.
Price == [asset_class : AssetClass, at : Nat, zero : BOOLEAN]

\* A row of quote_cache; its symbol is its key.
Row == [asset_class : AssetClass, price : Price, fetched_at : Nat]

\* A request and its locals, kept for as long as they are used: the row it
\* selected; of its call of a provider, the network operations that have ended
\* and when the last of them did; the provider's price; the new stamp.
Job == [symbol : Symbol, asset_class : AssetClass, row : Row \cup {None},
        ops : Nat, heard : Nat, price : Price \cup {None}, fetched_at : Nat]

Answer == [status : {200}, price : Price, cached : BOOLEAN]
          \cup [status : {404, 500, 503}]

ASSUME NoneAssumption ==
    None \notin Row /\ None \notin Price /\ None \notin Job /\ None \notin Answer

VARIABLES
    now,
    pool,    \* connections in the engine's pool; it does not change
    cache,   \* quote_cache, what is committed
    phase,   \* where a request's handler is
    job,     \* its locals
    answer   \* its response

vars == <<now, pool, cache, phase, job, answer>>

Init ==
    /\ now = 0
    /\ pool \in Pools
    /\ cache = [s \in Symbol |-> None]
    /\ phase = [r \in Req |-> "idle"]
    /\ job = [r \in Req |-> None]
    /\ answer = [r \in Req |-> None]

-----------------------------------------------------------------------------
Asked(s, c) ==
    [symbol |-> s, asset_class |-> c, row |-> None, ops |-> 0, heard |-> 0,
     price |-> None, fetched_at |-> 0]

\* The handler returns, or raises an HTTPException; its locals are gone.
Reply(r, a) ==
    /\ phase' = [phase EXCEPT ![r] = "reply"]
    /\ answer' = [answer EXCEPT ![r] = a]
    /\ job' = [job EXCEPT ![r] = Asked(@.symbol, @.asset_class)]

Shows(price, cached) == [status |-> 200, price |-> price, cached |-> cached]

Error(status) == [status |-> status]

Request(r, s, c) ==
    /\ now < MaxTime
    /\ phase[r] = "idle"
    /\ phase' = [phase EXCEPT ![r] = "wait"]
    /\ job' = [job EXCEPT ![r] = Asked(s, c)]
    /\ UNCHANGED <<now, pool, cache, answer>>

\* A session keeps the connection of its first statement until it commits or
\* ends; it ends when the answer is sent, and commits only after an upsert.
Holds(r) ==
    \/ phase[r] \in {"judge", "call", "upsert"}
    \/ phase[r] = "reply" /\ ( answer[r].status = 200 => answer[r].cached )

Available == Cardinality({r \in Req : Holds(r)}) < pool

\* The first statement, get_current_user's, waits for a connection; then
\* get_cached_quote's select, which is by symbol alone.
Select(r) ==
    /\ phase[r] = "wait"
    /\ Available
    /\ phase' = [phase EXCEPT ![r] = "judge"]
    /\ job' = [job EXCEPT ![r].row = cache[job[r].symbol]]
    /\ UNCHANGED <<now, pool, cache, answer>>

\* Fault: a row is as good for twice its time.
FreshTwice(row) == row # None /\ now - row.fetched_at <= 2 * TTL + 1

\* The row's age is taken when the select has returned.
Fresh(row) == row # None /\ now - row.fetched_at <= TTL

Hit(r) ==
    /\ phase[r] = "judge"
    /\ Fresh(job[r].row)
    /\ Reply(r, Shows(job[r].row.price, TRUE))
    /\ UNCHANGED <<now, pool, cache>>

\* fetch_finnhub_quote fails without a key; fetch_coingecko_price does not ask
\* for a symbol it does not know.
Miss(r) ==
    LET stock == job[r].asset_class = "stock"
    IN  /\ phase[r] = "judge"
        /\ ~Fresh(job[r].row)
        /\ IF stock /\ ~Configured THEN Reply(r, Error(500))
           ELSE IF ~stock /\ job[r].symbol \notin Coins
                THEN Reply(r, Error(404))
           ELSE /\ phase' = [phase EXCEPT ![r] = "call"]
                /\ job' = [job EXCEPT ![r].row = None, ![r].heard = now]
                /\ UNCHANGED answer
        /\ UNCHANGED <<now, pool, cache>>

-----------------------------------------------------------------------------
(* The call of a provider *)

\* The provider reads its price.  A coin's zero is a price like any other.
Quote(r, zero) ==
    /\ phase[r] = "call"
    /\ zero => job[r].asset_class = "stock"
    /\ job[r].price = None
    /\ job' = [job EXCEPT ![r].price =
                 [asset_class |-> job[r].asset_class, at |-> now, zero |-> zero]]
    /\ UNCHANGED <<now, pool, cache, phase, answer>>

\* The network operation the call waits for has not taken too long yet.
InTime(r) == now <= job[r].heard + TIMEOUT

\* A network operation ends and the next begins, the client's timeout with it:
\* nothing limits the call as a whole.
Hear(r) ==
    /\ phase[r] = "call"
    /\ InTime(r)
    /\ job[r].ops + 1 < Operations
    /\ job' = [job EXCEPT ![r].ops = @ + 1, ![r].heard = now]
    /\ UNCHANGED <<now, pool, cache, phase, answer>>

\* The provider's answer says it has no price.
NoQuote(r) ==
    /\ phase[r] = "call"
    /\ InTime(r)
    /\ Reply(r, Error(404))
    /\ UNCHANGED <<now, pool, cache>>

\* Fault: a zero is taken for a price.
AnyPrice(price) == TRUE

\* price is None or price == 0 (for a coin, price is None alone).
Usable(price) == ~price.zero

\* Fault: an answer without a price is not told from one with a price.
ArriveWithoutPrice(r) ==
    /\ phase[r] = "call"
    /\ InTime(r)
    /\ phase' = [phase EXCEPT ![r] = "upsert"]
    /\ job' = [job EXCEPT ![r].ops = 0, ![r].heard = 0, ![r].fetched_at = now]
    /\ UNCHANGED <<now, pool, cache, answer>>

\* The last read has the price; the upsert is made up, and with it fetched_at.
Arrive(r) ==
    /\ phase[r] = "call"
    /\ job[r].price # None
    /\ InTime(r)
    /\ IF Usable(job[r].price)
       THEN /\ phase' = [phase EXCEPT ![r] = "upsert"]
            /\ job' = [job EXCEPT ![r].ops = 0, ![r].heard = 0, ![r].fetched_at = now]
            /\ UNCHANGED answer
       ELSE Reply(r, Error(404))
    /\ UNCHANGED <<now, pool, cache>>

\* An HTTP error of the provider, or no connection to it.
Unavailable(r) ==
    /\ phase[r] = "call"
    /\ Reply(r, Error(503))
    /\ UNCHANGED <<now, pool, cache>>

\* The timeout of the HTTP client: one network operation has taken too long.
Timeout(r) == phase[r] = "call" /\ ~InTime(r) /\ Unavailable(r)

-----------------------------------------------------------------------------
(* upsert_quote_cache *)

\* Fault: asset_class is missing in set_.
UpsertKeepsClass(r) ==
    LET s == job[r].symbol
    IN  /\ phase[r] = "upsert"
        /\ cache' = [cache EXCEPT ![s] =
                       [asset_class |-> IF @ = None THEN job[r].asset_class
                                                    ELSE @.asset_class,
                        price |-> job[r].price, fetched_at |-> job[r].fetched_at]]
        /\ Reply(r, Shows(job[r].price, FALSE))
        /\ UNCHANGED <<now, pool>>

\* Fault: the database stamps the row, after the wait for the row's lock.
UpsertStampedLate(r) ==
    /\ phase[r] = "upsert"
    /\ cache' = [cache EXCEPT ![job[r].symbol] =
                   [asset_class |-> job[r].asset_class, price |-> job[r].price,
                    fetched_at |-> now]]
    /\ Reply(r, Shows(job[r].price, FALSE))
    /\ UNCHANGED <<now, pool>>

\* Fault: the upsert has a session of its own, while the request's is open.
UpsertApart(r) ==
    /\ phase[r] = "upsert"
    /\ Available
    /\ cache' = [cache EXCEPT ![job[r].symbol] =
                   [asset_class |-> job[r].asset_class, price |-> job[r].price,
                    fetched_at |-> job[r].fetched_at]]
    /\ Reply(r, Shows(job[r].price, FALSE))
    /\ UNCHANGED <<now, pool>>

\* INSERT .. ON CONFLICT DO UPDATE and COMMIT, and the answer.
Upsert(r) ==
    /\ phase[r] = "upsert"
    /\ cache' = [cache EXCEPT ![job[r].symbol] =
                   [asset_class |-> job[r].asset_class, price |-> job[r].price,
                    fetched_at |-> job[r].fetched_at]]
    /\ Reply(r, Shows(job[r].price, FALSE))
    /\ UNCHANGED <<now, pool>>

Done(r) ==
    /\ phase' = [phase EXCEPT ![r] = "idle"]
    /\ job' = [job EXCEPT ![r] = None]
    /\ answer' = [answer EXCEPT ![r] = None]
    /\ UNCHANGED <<now, pool, cache>>

Deliver(r) == phase[r] = "reply" /\ Done(r)

\* A database error, an answer that is no JSON, a crash, a lost connection, or too
\* long a wait for one of the pool's.
Fail(r) == phase[r] # "idle" /\ Done(r)

\* The clock goes on for as long as requests start or wait for a provider.
Tick ==
    /\ now < MaxTime \/ \E r \in Req : phase[r] = "call" /\ InTime(r)
    /\ now' = now + 1
    /\ UNCHANGED <<pool, cache, phase, job, answer>>

Next ==
    \/ \E r \in Req, s \in Symbol, c \in AssetClass : Request(r, s, c)
    \/ \E r \in Req : Select(r)
    \/ \E r \in Req : Hit(r)
    \/ \E r \in Req : Miss(r)
    \/ \E r \in Req, zero \in BOOLEAN : Quote(r, zero)
    \/ \E r \in Req : Hear(r)
    \/ \E r \in Req : NoQuote(r)
    \/ \E r \in Req : Arrive(r)
    \/ \E r \in Req : Unavailable(r)
    \/ \E r \in Req : Timeout(r)
    \/ \E r \in Req : Upsert(r)
    \/ \E r \in Req : Deliver(r)
    \/ \E r \in Req : Fail(r)
    \/ Tick

Spec == Init /\ [][Next]_vars

(***************************************************************************)
(* Handlers that can go on do, time goes on, and the HTTP client gives up  *)
(* an operation that has taken too long.  The pool serves those that wait  *)
(* in turn.  Nothing makes a provider answer, or go on with an answer.     *)
(***************************************************************************)
Fairness ==
    /\ WF_vars(Tick)
    /\ \A r \in Req : /\ SF_vars(Select(r))
                      /\ WF_vars(Hit(r) \/ Miss(r))
                      /\ WF_vars(Timeout(r))
                      /\ WF_vars(Upsert(r))
                      /\ WF_vars(Deliver(r))

FairSpec == Spec /\ Fairness

-----------------------------------------------------------------------------
(* Properties *)

\* Types; a request that stores has the price it stores, one that has answered
\* has its answer.
TypeOK ==
    /\ now \in Nat
    /\ pool \in Pools
    /\ cache \in [Symbol -> Row \cup {None}]
    /\ phase \in [Req -> {"idle", "wait", "judge", "call", "upsert", "reply"}]
    /\ job \in [Req -> Job \cup {None}]
    /\ answer \in [Req -> Answer \cup {None}]
    /\ \A r \in Req : /\ phase[r] # "idle" => job[r] \in Job
                      /\ phase[r] = "upsert" => job[r].price \in Price
                      /\ phase[r] = "reply" => answer[r] \in Answer

\* No cached stock price is the zero Finnhub quotes for an unknown symbol.
NoEmptyQuotes ==
    \A s \in Symbol : cache[s] # None => ~cache[s].price.zero

\* What a row says of the price in it: its class is the class the price was
\* quoted for, and its fetched_at is the price's own time but for the time of the
\* call, in which every operation may take as long as the timeout.
Describes(row) ==
    /\ row.asset_class = row.price.asset_class
    /\ row.price.at <= row.fetched_at
    /\ row.fetched_at <= row.price.at + Operations * TIMEOUT

\* Every row describes the price in it, whichever requests wrote it in which
\* order.
RowDescribesPrice ==
    \A s \in Symbol : cache[s] # None => Describes(cache[s])

\* No cached price is shown that was quoted longer ago than the cache's time to
\* live and the longest call together, however long the request waited for the
\* database, and even if a slow request has replaced a newer price by its own.
PriceAgeBounded ==
    [][\A r \in Req :
          ( /\ answer[r] = None /\ answer'[r] # None
            /\ answer'[r].status = 200 /\ answer'[r].cached )
          => now <= answer'[r].price.at + TTL + Operations * TIMEOUT]_vars

\* A request for a coin is answered with a price quoted for the coin (tests/
\* test_market_data.py: "Verify asset_class=crypto calls the CoinGecko client,
\* not Finnhub.").
CoinsFromCoinGecko ==
    \A r \in Req :
        ( phase[r] = "reply" /\ answer[r].status = 200 /\ job[r].asset_class = "crypto" )
        => answer[r].price.asset_class = "crypto"

\* Every request ends, even if the provider falls silent before or amid its
\* answer, and if there are more requests than connections: none waits for a
\* connection while it keeps one.
RequestsEnd ==
    \A r \in Req : phase[r] # "idle" ~> phase[r] = "idle"

-----------------------------------------------------------------------------
(***************************************************************************)
(* The inductive invariant: what the locals of a request say, from the     *)
(* select to the upsert.                                                   *)
(***************************************************************************)
LocalsOK(r) ==
    LET j == job[r]
    IN  /\ phase[r] \in {"wait", "judge"} => j.price = None /\ j.ops = 0
        /\ ( phase[r] = "judge" /\ j.row # None ) => Describes(j.row)
        /\ phase[r] = "call" => j.ops < Operations /\ j.heard <= now
        /\ ( phase[r] = "call" /\ j.price # None )
           => /\ j.price.asset_class = j.asset_class
              /\ j.heard <= j.price.at + j.ops * TIMEOUT
              /\ j.price.at <= now
        /\ phase[r] = "upsert"
           => /\ j.price.asset_class = j.asset_class
              /\ j.price.at <= j.fetched_at
              /\ j.fetched_at <= j.price.at + Operations * TIMEOUT
              /\ ~j.price.zero

Inductive ==
    /\ TypeOK
    /\ NoEmptyQuotes
    /\ RowDescribesPrice
    /\ \A r \in Req : LocalsOK(r)
===============================================================================
