# wealthdock-server in TLA+

A verification project for wealthdock-server (the Python code under
`src/src/wealthdock_server`): TLA+ modules of its stateful parts, TLC configurations that
check them on small instances, and proofs, checked by TLAPS, that hold for every value of
the constants.

Run TLC with `tlc -config <cfg> <module>` (the pairs are in the table of runs below) and the
proofs with `tlapm` on the modules `*Proofs`, `RecordStore` and `RecordSyncRefinement`.

## 1. The system

A FastAPI server on one event loop (or several processes) in front of PostgreSQL. Every
request is an asyncio task with its own `AsyncSession` (`db/session.py: get_db`): its
transaction begins with the first statement, ends with a commit, and is rolled back when the
handler raises or the task dies. Requests share nothing in the process but cached settings;
they meet in the database, and they interleave at every `await`.

| Component | Source | State | Operations |
|---|---|---|---|
| Per-record sync | `api/v1/sync.py` (`process_changes`, second half of `sync`), `schemas/sync.py` | `sync_records`, key (id, user_id): data, `updated_at`, `server_updated_at`; each device keeps `since` and `last_seen_id` | `POST /sync`: push a batch (last write wins, clamped clocks), commit, pull a page after the cursor |
| Whole-state sync | `api/v1/sync.py` (`get_sync_state`, first half of `sync`) | `sync_states`, one row per user: payload, version | `GET /sync`; `POST /sync` with `payload` and `version` (optimistic concurrency) |
| Quote cache | `api/v1/market_data.py`, `db/quote_cache.py` | `quote_cache`, one row per symbol: class, price, `fetched_at` | `GET /market-data/quote` |
| Price providers | `core/providers.py` | none | HTTP calls to Finnhub and CoinGecko, with a timeout for each network operation |
| Accounts and tokens | `api/v1/auth.py`, `api/v1/dependencies.py`, `core/security.py`, `schemas/auth.py` | `users`, e-mail unique; tokens in the clients' hands | register, login, `get_current_user` before every other endpoint |
| Bank connections | `api/v1/bank.py` | `bank_connections` | link token (a mock), exchange, webhook (verifies a signature, stores nothing) |
| Encryption at rest | `db/encryption.py`, `core/config.py` | each process's list of keys, read once from `ENCRYPTION_KEY` | encrypt with the first key, decrypt with any |
| Sessions and engines | `db/session.py`, `main.py: lifespan` | one engine per process on `app.state`, with a pool of connections | open at the start, dispose at the stop; a session per request |
| Gzip bodies | `api/v1/sync.py: GzipRequest` | none | bounded decompression |
| Application, error handlers, settings | `main.py`, `core/config.py` | cached settings | routing, exceptions to JSON |
| Migrations, deployment | `db/alembic`, `docker-compose.yml` | `alembic_version` | run by hand before the server |

How they interact: every endpoint but register, login, the webhook and `/health` first runs
`get_current_user` on the same session; sync and bank rows belong to the user it returns and
go with that user's row (`ON DELETE CASCADE`); `sync_states.payload` and
`bank_connections.access_token` pass through the encryption types; the quote endpoint holds
its session, and with it a connection of the pool, while it waits for a provider. Processes
share the database and nothing else: each has read its own settings when it started.

### What is hard, and what makes each component correct

* **Per-record sync.** A device must eventually see every record of its user exactly as
  stored, although stamps are taken before transactions commit, answers get lost, batches
  contend for row locks (and deadlock), a batch may be retried after an `IntegrityError`,
  and several rows share one stamp. A stored record may only be replaced by one at least as
  late; a wrong client clock may only win by the tolerance.
* **Whole-state sync.** No lost update: of two writes from one version at most one is
  accepted, also when the row does not exist yet and `SELECT FOR UPDATE` locks nothing. What
  a device is told has been the state. A rejected write does not keep the lock.
* **Quote cache.** Concurrent misses overwrite each other in any order; the row must still
  describe the price in it. The HTTP client limits each network operation but not the call,
  so a price can be old when it arrives: the age of what is shown is bounded by what the
  operations of a call may take. A provider that falls silent must not hold a request for
  ever.
* **Accounts.** Registrations of one address race between select and insert; the loser gets
  a token that opens nothing. Tokens outlive their accounts, deactivation and their own
  expiry, and an account may be active again while they do. Addresses come in several
  spellings.
* **Bank connections.** A client repeats an exchange whose answer was lost, and a process may
  stop between the commit and the answer: connections nobody was told of are unavoidable, but
  they must come of nothing else, and those a client was told of must stay. A webhook is taken
  only if its own scheme verifies it for this very body.
* **Encryption and rotation.** While keys are replaced process by process, no process may
  write what another cannot read. If the operator gets it wrong, data may be unreadable but
  must not be overwritten. Ciphertexts must fit the columns.
* **Compressed bodies.** The limit holds for what comes out, and a body damaged somewhere is
  not taken for its first part.

`PROJECT.json` lists the hazards at their lines and, for each, the properties that cover it.

## 2. Modules

| Module | What it is |
|---|---|
| `RecordStore` | abstract: a table in which every push takes effect as a whole and at once, with its own theorems |
| `RecordSync` | per-record sync: devices, requests, row locks, transactions, pages, and the refinement mapping to `RecordStore` |
| `RecordSyncProofs` | its theorems |
| `RecordSyncRefinement` | that it implements `RecordStore` |
| `VersionedRegister` | abstract: a register with a version and compare-and-swap writes |
| `StateSync` | whole-state sync, and the refinement mapping to `VersionedRegister` |
| `StateSyncProofs` | its theorems, the refinement among them |
| `QuoteCache` | the quote endpoint, the cache table and the providers' calls |
| `QuoteCacheProofs` | its theorems |
| `Auth` | accounts, tokens, `get_current_user`, an administrator |
| `AuthProofs` | its theorems |
| `Encryption` | what a list of keys writes and reads; lengths of ciphertexts and columns |
| `EncryptionProofs` | the column's width suffices for every length |
| `Server` | processes that start and stop under a rotation of keys; whole-state writes, bank exchanges, webhooks and compressed bodies on them (uses `Encryption`) |
| `ServerProofs` | its theorems |
| `MC*` | constants of the instances TLC checks |

Operators under a comment that begins with *Fault:* are what the code could have been and is
not (a missing WHERE clause, a plain SELECT, ...). No specification uses them. Putting one
in the place of the operator behind it breaks the property that guards against it; `mutants`
in `PROJECT.json` says which.

### Conventions of all modules

* A request occupies a slot `r \in Req`. `phase[r]` is the `await` it stands at, `job[r]`
  (in `Auth`: `cred`, `id`, `token`) its locals. One action is the code from one `await` to
  the next.
* `Fail(r)` is an uncaught exception (500), a crash of the process or a lost connection, at
  any point (in `Server`, where processes have a state, a crash is `Stop`): the transaction
  is rolled back, the locks go, what was committed stays.
* PostgreSQL at READ COMMITTED: a select sees what was committed when it began; an upsert
  takes its key's lock, waiting for its holder, and judges its WHERE clause on the latest
  row. Where an insert would wait for another transaction's insert of the same key, and the
  statement is followed by its commit at once, insert and commit are one action.
* `GiveUp(d)` is a client that stops waiting; its request runs on and its answer is dropped.

### RecordSync

`rows` is the table, `writes[r]` the uncommitted rows of a transaction, `lock` the row
locks, `cursor[d]`, `view[d]` what device `d` keeps, `late[d]` history. `Receive` parses the
request and takes the sync point (sync.py:164-213), `Upsert` is one turn of the loop of
`process_changes` (87-148), `IntegrityRetry` the except branch (217-221), `Commit` 216/221,
`PullRest` and `PullPage` the select and the answer for a page that is not full and for a
full one (223-284). `DeadlockAbort` is PostgreSQL's deadlock detector.

Time: each request takes a clock value of its own (microsecond stamps; the server clock does
not go back). Client times are inputs. `type`, `data` and `deleted` are overwritten together
and nothing looks at them, so a row carries only the device that wrote it. Record ids are
numbers for their order.

The retry is modelled as written. In the running program, `current_user.id` on line 220 is
an expired attribute after the rollback and expire_all, whose reload may raise in an async
session; `Fail` covers that outcome.

`RecordStore` is what all this promises. It has the table, the records on their way to each
device (`copy`) and the records each device has (`view`), and no requests, locks, clocks or
cursors. `Push` writes over every key the latest of the batch's edits of it, or leaves it, if
the stored one is later than all of them (`Winners`); of several edits with one time any may
stay. `Take` copies some records of the device's user, all as of one moment, `Put` adds them
to the device's, `Lose` drops them. The mapping takes `rows` and `view` as they are, and for
`copy[d]` the answer that `d` waits for (`Copy`): a push takes effect at `Commit`, a copy is
taken at `PullRest` or `PullPage`, and everything else, upserts included, is a stutter.

### StateSync

One user's row: users are independent. `SelectNone`, `SelectRow` are the locked select and
the version check (173-203), `Insert` the insert and commit with its `IntegrityError`
(184-195), `Update` 202-204, `Refresh` the re-read and the answer (206-207), `Read` the GET.
A 409 ends the session and its lock in the step that raises it. The JSON text `null` is a
payload of its own: it becomes SQL NULL, which the column refuses (409 on insert, 500 on
update).

### QuoteCache

`Request` is the arrival of a request, `Select` the first statement, which waits for a
connection of the pool, and the select of `get_cached_quote`. `Hit` and `Miss` are the age
test afterwards (time may pass in between), then the call: `Quote` (the provider reads a
price), `Hear`, `Arrive`, `NoQuote`, `Unavailable`, `Timeout`, and `Upsert`, which stores the
stamp taken in `Arrive`.

httpx's `timeout=10.0` (providers.py:47, 71) holds for every connect, write and read, and
starts anew with the next: nothing limits the call as a whole. `heard` is when the operation
a call waits for began; `Hear` ends it and begins the next; `Timeout` is for an operation
that has taken longer than `TIMEOUT`, whatever the call has taken. A call has at most
`Operations` of them, a bound of the model: a provider that sends its answer bit by bit, and
never ends, keeps its request and its connection for ever, and neither this server nor this
model has anything to say against it.

A price is the class, the time it was quoted, and whether it is Finnhub's zero. `pool` is
the number of connections the engine may have (SQLAlchemy's pool is external); `Holds(r)`
says when a request's session keeps one: from its first statement to its commit, or to the
answer if there is no commit, the provider's call included. The pool's own timeout (30 s,
after which the wait ends in a 500) is not in the model: it could only end requests sooner.

### Auth

`Check`, `Insert`, `Refresh` are register, `Verify` login, `Call` and `Identify` the two
halves of `get_current_user`, `Serve` the handler behind it. Hashing and signing are
perfect: a password matches its own hash, and a token is either signed with the server's
secret or not. A deleted address can be registered anew, under a new id. `Deactivate`,
`Reactivate` and `Delete` are external: `is_active` is a plain column, and no endpoint sets
it or deletes a user. `arrived` and `barred` are history: when a request was authenticated,
and whether its account has not been active at any time since; `Reactivate` clears `barred`
of the requests it concerns. The equal timing of answers to known and
unknown addresses is not modelled. Tokens whose subject is not a UUID
(dependencies.py:46-48) are never issued by the server and are left out.

### Encryption and Server

`Encryption` is the cipher of `db/encryption.py`: a value is kept with the key it was
encrypted under; `Encrypt` uses the first key of a list, `Opens` any. `FernetLength` is the
length of a ciphertext by the library's format, `ColumnLength` the computation of
`EncryptedString.__init__` (encryption.py:30-52).

`Server` puts it under load. `settings` is `ENCRYPTION_KEY`, which the operator edits
(`Rotate`); `ring[p]` what process `p` read of it when it started (`Start`: `get_settings`,
config.py:112-119, is cached). `Stop` is a shutdown or a crash: the process's requests are
gone without an answer, uncommitted work rolled back. `ordered` remembers whether every
rotation so far took one step at a time (`Compatible`): no key is dropped that a stored value
or a running process needs, and no process is left that could not read the next one's writes.
The repository documents no order of rotation; `Compatible` is the one `MultiFernet` and a
list read once per process allow. In particular `A` becomes `A,B`, then `B,A`, then `B`, with
every process restarted between two steps, and stored values written anew before `A` goes.

The requests are those that touch ciphertexts, with the rest of their handlers:

* whole-state sync: `Select` (the locked select, which decrypts), `Conflict`, `Store` (insert
  or update with its commit; the ORM leaves an equal payload alone, so its old ciphertext
  stays), `RefreshState`, and `Pull`, the GET. Whether a version matches is a choice here:
  versions are `StateSync`'s subject;
* `AskExchange`, `Insert`, `InsertFails`, `RefreshConnection`: `exchange_token`
  (bank.py:74-100). `n` numbers the exchanges, as history;
* `Receive`: the webhook (bank.py:103-170): a header is empty, forged, or a signature made for
  some webhook, perhaps another one. It stores nothing and awaits nothing between its checks
  and its answer, so no property is about it that would not repeat the checks;
* `Refused`: the outcomes of `GzipRequest.body` (sync.py:34-64) that end a request, and a
  401. A body is its size, how many of its bytes come out before a damage, and whether it is
  compressed. The chunks are not modelled: the loop raises as soon as the sum is beyond the
  limit, and a damage is only met if the sum before it is within;
* `PushRecord`: that per-record sync stores the data as it is.

`Deliver` is an answer that arrives, `Lose` one that does not. `Delete` removes an account
with its rows. The composition is with requests' effects, not with the actions of the other
modules: what they check of versions, records and tokens is independent of processes and keys.

## 3. Runs

| Run | Question | Bounds, and why they are enough |
|---|---|---|
| `records_concurrent` | safety of per-record sync under contention, the inductive invariant, refinement | two devices of one user, two requests at a time, four requests in all, pages of one record. Two requests give every order of upsert, commit, pull and answer of a pair; batches with the two records in either order collide on locks and deadlock, one batch has a record twice; pages of one record make every row a page boundary within one stamp |
| `records_serial` | is anything missed, or seen by another user, when requests do not overlap? | three devices of two users, three records, pages of two, a clamped time |
| `records_live` | does every request end? | two requests, opposite lock orders, pages of two |
| `records_missed` | the same as NothingMissed, with requests that overlap (**violated**) | |
| `records_skew` | does the clamp keep a device's own edits in order? (**violated**) | one device, tolerance 2 |
| `state` | whole-state sync: safety, refinement, liveness | two devices, two requests, versions up to 2, two payloads and null: both the insert race and the update race happen, with reads and give-ups |
| `state_answer` | does the answer to a write name the version that write made? (**violated**) | |
| `quotes` | what the cache holds and shows; does every request end? | one symbol in both classes, two requests, TTL and timeout one tick, two network operations in a call, start times 0-2: a slow call outlives the row it will replace, and two slow operations a single one's timeout. A pool of one or of two connections, chosen at the start: with one, every request waits for the other's call |
| `quotes_class` | is a coin's request answered with a coin's price? (**violated**) | one request at a time |
| `auth` | accounts and tokens under races, expiry, deactivation, reactivation, deletion | one address in two spellings, two passwords, two requests, two accounts in all (an address can be made anew once), tokens of one tick |
| `server` | rotations, crashes, repeated exchanges, damaged bodies: is anything lost, unreadable, or taken that should not be? | two processes, two requests at a time, every list of two keys, one user, two exchanges and ids, a plain body, a compressed one at the limit, a damaged one, one damaged and too large, a provider's name of 100 characters of four bytes and one of 101: two processes with different lists and a request in each is every way two lists can meet; two exchanges are one and its repetition |
| `server_plain` | is what a record holds encrypted? (**violated**) | one request at a time |

`server` and `server_plain` check for deadlock. In the others `CHECK_DEADLOCK FALSE`:
bounded clocks and versions let the instances come to rest. Symmetry is used only in runs
without liveness properties. In `auth` the ids are numbers and not part of the symmetry.

What the properties say:

* `SkewBounded`, `UpdatedAtMonotone`: a client clock wins by at most the tolerance, and a
  stored record's time never goes back.
* `PushedBeforeReply`: once the push is committed, each change is stored or has lost to one
  at least as late, also after the retry.
* `OnlyLateCommitsMissed`, `NothingMissed`: whatever a device's cursor has passed, the
  device has been told, unless its stamp belongs to a push that was in flight when the page
  was read. Without overlap there is no exception.
* `ImplementsStore`: whatever interleaves, retries or aborts, every push takes effect at its
  commit as a whole, by last write wins, and every page is of one moment.
* `AnswersAdvance`: an answer's cursor lies beyond the request's, so paging ends.
  `UserIsolation`: no record crosses users.
* `OneContentPerVersion`, `KnownWasCommitted`, `AnswerIncludesWrite`, `ImplementsRegister`:
  no lost update, answers are states there have been, and the handlers implement the
  register. `DevicesAdvance`: no answer leads a device back to an older version, although
  requests overlap and their answers are of different moments.
* `NoEmptyQuotes`, `RowDescribesPrice`, `PriceAgeBounded`: no zero is cached, rows are
  honest, and a price shown from the cache is no older than the TTL and the timeouts of a
  call's operations together, whichever of two concurrent misses wrote last.
* `TokensAreEarned`, `AddressesUnique`, `ServedWhenAllowed`, `RegistrationStands`: tokens
  open only accounts whose address and password their owner gave; spellings do not multiply
  accounts; expired or deactivated means not served from the next request on, unless the
  account is active again; races replace no account. `StaysShut`: the tokens of a deleted
  account never name one again, also when its address is registered anew, and those of a
  deactivated one open nothing until that account is reactivated.
* `RotationUnnoticed`: as long as rotations keep to the order, no request ever fails to
  decrypt, although processes take the lists up one by one and values under old keys stay.
  `NoBlindOverwrite`: whatever the order, a stored state is replaced only on behalf of a
  request whose process can read it, so a wrong `ENCRYPTION_KEY` loses nothing.
* `ToldIsKept`, `SurplusIsUnanswered`: a connection its client got a 201 for stays, and can be
  read; any other stems from an exchange that failed for the client, or is not over.
* `StoredIsWhole`, `TokenFits`: stored states are whole and within the limit, and an access
  token's ciphertext fits the 1024 characters of its column because the name of the provider
  is held to 100.
* `RequestsEnd` (three modules): no request waits for ever; in `QuoteCache` also not for a
  connection of an exhausted pool.

### Fairness

`FairSpec` asks for weak fairness of every step a handler can take by itself (the event loop
runs what is ready) and strong fairness of steps that wait for a row lock, because
PostgreSQL's lock queue is first come, first served, and of the step that waits for a
connection, because the pool's queue is too; of the deadlock detector; and, in
`QuoteCache`, of the clock and the HTTP client's timeout of an operation. Nothing obliges a
device to ask, a provider to answer or to go on with an answer, an administrator to act, or
anything to fail. That a call has no more than `Operations` operations is a bound and not
fairness: `RequestsEnd` says that a request ends when its provider falls silent, and says
nothing of one that never does.

### Disagreements found

1. `records_missed`: the sync point is taken before the push commits (sync.py:211) and a
   pulling device's next `since` is its own sync point. Device A takes stamp 1 and is slow;
   device B takes stamp 2, pulls, and resumes from 2; A commits at stamp 1, which B never
   asks for again, until the record is changed once more. `schemas/sync.py:75` offers the
   sync point as the `since` of the next sync.
2. `state_answer`: the refresh after the commit (sync.py:206) may read another device's
   later write. A write from version 0 inserts version 1; another device reads it and commits
   version 2 before the refresh; the first write is answered with version 2, where
   tests/test_api.py:240 has "POST with correct version (0) -> returns version 1". The answer
   is consistent all the same (`AnswerIncludesWrite`).
3. `records_skew`: a time beyond the tolerance becomes the server time, not "server time +
   tolerance" (sync.py:115, 124): a clock that is five minutes ahead beats the same clock at
   six.
4. `quotes_class`: the cache ignores the asset class on lookup (market_data.py:42). A stock
   request caches Finnhub's price, and a request for the coin of the same ticker is answered
   with it; tests/test_market_data.py:105 has "asset_class=crypto calls the CoinGecko client,
   not Finnhub".
5. `server_plain`: README.md:76 of the repository says sensitive financial data is encrypted
   at rest. Whole-state sync does that (models.py:95); per-record sync, which carries the
   same data record by record, stores it in a plain JSON column (models.py:115).

Seen on the way and without a run: the payload `null` on a first write is answered 409
"concurrent modification during initialization" (sync.py:194) with nothing concurrent;
`StateSync` has the behaviour. `EncryptedString(length=1024)` asks for a column of 5560
characters where the migration makes one of 1024, which would hold the ciphertext of no more
than 703 bytes; `TokenFits` shows why that does no harm today. Putting a new key first in
`ENCRYPTION_KEY` in one step (`A` to `B,A`) fails for the processes that still run with `A`.

## 4. Proofs

Nearly all theorems are of the form `Spec => ...` and hold for any sets of devices, users,
records, requests, processes, keys and payloads, and any page size, tolerance, TTL, timeout,
number of network operations, pool, token lifetime and size limit that satisfy the modules'
assumptions (types of the constants; the page size and the number of operations are
positive; the bounds of the clocks are natural numbers; normalising twice is normalising
once; lists of keys are not empty; a character is at most four bytes; `None` is none of the
values it is used beside). Three theorems assume more, in their own statement:
`PullsAreAnswered` that there are finitely many users and records, `PoolIsKept` that there
are finitely many requests at a time, `AscendingNeverDeadlocks` that clients list a batch's
records by id. The server does not see to the last, so this theorem says what a client can
rely on, not what happens (`records_concurrent` has batches that deadlock). The theorems of
`RecordStore` are about that module's own `Spec`, and about `Winners`, for constants of the
right types (`ConstantsOK`).

Each detailed module defines `Inductive`, checked by TLC as an invariant and proved by `Init
=> Inductive` and `Inductive /\ [Next]_vars => Inductive'` with one lemma per action;
`AlwaysInductive` is the conclusion and the others rest on it.

* `RecordSync`. `OnlyLateCommitsMissed` is not inductive by itself: an answer on its way
  must already be complete (`AnswersComplete`), and a push in flight below a cursor must be
  known as late (`LateKnown`), since its commit will put rows there. For that an uncommitted
  row must carry its request's stamp (`Transactions`), and no stamp may be ahead of the
  clock (`Stamps`). `PushedBeforeReply` rests on `Progress`: every change the loop has been
  through is locked by its transaction and stored or beaten in what the transaction sees.
  `UpdatedAtMonotone` rests on `Transactions`: an uncommitted row does not lose to the
  committed one, and its lock keeps it so. Theorems: `TypeCorrect`, `SkewIsBounded`,
  `PushesLand`, `CursorProtocol`, `PagingAdvances`, `UsersAreIsolated`, `LastWriteWins`.
  `SerialMissesNothing` is for a server that works on one request at a time: no push is in
  flight while a page is read, so nothing is ever late (`NothingLate`), and the exception of
  `CursorProtocol` never applies.
* `RecordSync`, that handlers do end. Liveness itself is out of the provers' reach, but what
  is not fairness in it is proved.
  * `HandlersEnd`: `WorkLeft` is a natural number in every state, and every step that a
    handler takes makes it smaller. It counts the changes still to be pushed, and counts the
    whole batch once more as long as the retry is still to come: the retry starts the loop
    over but not the measure.
  * `AscendingNeverDeadlocks`: the locks of an ascending batch are of records before the one
    it is at (`LocksPassed`), so the ids that the requests on a cycle wait for would have no
    least one. That a set of natural numbers has one is `LeastNatural`, from the
    well-foundedness of `<`; it stands in for induction here.
  * `PullsAreAnswered`: however the stamps fall, a pull finds exactly one page, and a full
    page exactly one last record for the next cursor. It rests on `(server_updated_at, id)`
    being a total order of one user's records (`BeforeOrders`) and on every finite set of
    them having a first and a last (`FirstRow`, `LastRow`). A pull of two users' records
    could tie.
* `RecordSyncRefinement`. `Refinement`: `Spec => ImplementsStore`. The step that matters is
  `Commit`: the rows that upsert after upsert has put there must be what one `Push` of the
  whole batch puts there. `TransactionsMerge` is the invariant behind it: what a transaction
  sees of a key is the latest of the changes it has been through and the *committed* row as
  it is now (`BatchesMerge`). A commit of another request could break that, were it not for
  the row locks, which `Progress` says the transaction has on every key it has been through,
  won or lost. `DevicesAdvance` then comes from the abstract module: a device never goes back
  to an older edit of a record and forgets none.
* `RecordStore`. `AlwaysBehind`: no copy is newer than the table; `DevicesAdvance` is about
  the order of arrival of copies, and needs that a device has one copy on its way at a time.
  `PushesCommute`: two pushes leave the same record whichever is committed first, unless two
  of their edits have the same time. So what the table holds in the end is a matter of the
  edits' times and not of the requests' luck. It rests on `PushesAddUp` (two pushes, one
  after the other, are one push of both) and `OneWinner`.
* `StateSync`. `Newest` says that the row is the newest content, `WriteProgress` that a
  request about to update holds the row at the version it compared. Theorems: `TypeCorrect`,
  `NoLostUpdate`, `DevicesHoldCommitted`, `AcceptedWritesLand`, and `Refinement`: every step
  of a handler is a step of the register or leaves it alone. `DevicesNeverGoBack`, with
  `AnswersAreNewer`: a device waits for one request at a time, which reads the row after it
  was sent, so its answer is never older than what the device holds.
* `QuoteCache`. `LocalsOK` says what a request's locals mean between select and upsert: in
  particular that the stamp is at most `Operations` timeouts after the quote. While the call
  lasts, the operation it waits for began at most as many timeouts after the quote as
  operations have ended, which each `Hear` keeps up. Theorems: `TypeCorrect`,
  `ZeroIsNoPrice`, `RowsDescribePrices`, `PricesAreRecent`. `PoolIsKept`: `Holds` follows the
  handler through each of its awaits, and only `Select` may begin to hold a connection; that
  requests together never hold more than `pool` is a count of the requests, step by step.
* `Auth`. `AccountsOK` (ids are new and never shared, addresses normal), `TokensOK` (signed
  tokens name accounts that were made), `Registering` (the account a register has made is
  its own, if it still exists), `Identifying` (an account barred stays barred until it is
  reactivated). Theorems: `TypeCorrect`, `TokensEarned`, `OneAccountPerAddress`,
  `OnlyTheAllowedServed`, `AccountsStand`, `TokensStayShut`. For the last, a deleted
  account's id would have to be given again: the ids of tokens are of accounts that were
  made, and an account made anew at the same address has an id that none was. What opens a
  token that opened nothing can then only be a step that makes its account active, and no
  handler's is.
* `Server`. `RotationUnnoticed` speaks of answers; the reason is `RingsAgree`: while
  rotations keep to the order, every running process, and the next to start, can read what
  is stored and what any other may write. A rotation, a start and every write must each keep
  it, which is what `Compatible` is for. `LocksHold` says that a request about to update has
  read the row and that the row is still the one it read, because of the lock, which the
  cascade of a deletion waits for too; `NoBlindOverwrite` and `StoredIsWhole` rest on it.
  `ExchangesOK` numbers the exchanges: a request about to insert has no connection yet, and
  one past its commit has exactly the one it will name; `ToldIsKept` and
  `SurplusIsUnanswered` rest on it. `TokenFits` needs arithmetic only: 46 characters and a
  name of up to 100 characters of four bytes are at most 446 bytes. Theorems: `TypeCorrect`,
  `RotationsUnnoticed`, `NothingOverwrittenBlindly`, `ToldAreKept`, `SurplusExplained`,
  `StoredAreWhole`, `TokensFit`. `RotationsCanBeOrdered` shows that `RotationsUnnoticed` is
  not empty: from every state that ordered rotations lead to, the procedure that replaces a
  key goes on. A new key may be appended at the end at any time; once all running processes
  have the list as it is, its keys may be put in any other order; once they all have that,
  every key but the first under which nothing is stored may go. A new key may be put in
  front only while no process runs.
* `Encryption`. `ColumnHolds`: for every length, the ciphertext of a text of that many
  characters, of up to four bytes each, fits the column `EncryptedString.__init__` computes.
  It rests on `LengthGrows`: more bytes never make a shorter ciphertext.

Only model-checked: the three liveness properties (`RequestsEnd`), which need ENABLED and
fairness. Every other property of a passing run is stated by a theorem.

## 5. Not modelled, and why

* **The global engine and standalone sessions** (`session.py:17-52`). No code of the program
  calls them, only tests. `dispose_global_engine` awaits between its test and its reset, so
  two callers, or one and a `_get_global_session_factory`, could interleave there; whoever
  begins to use it should model it first.
* **Migrations and deployment** (`db/alembic`, `docker-compose.yml`, `Dockerfile`). A linear
  history, each migration in one transaction; compose completes the migration before it
  starts the app. Nothing in the program interleaves with it. Two server versions on one
  schema are not a case the repository provides for.
* **Error handlers, routing, CORS, compression of answers, `/health`** (`main.py`). They hold
  no state; exceptions enter the models as the answers' statuses.
* **Settings other than the keys**, and the texts they are parsed from (`config.py`): no
  state that changes, no interaction.
* **`EncryptedDecimal`** (`encryption.py:82-124`): no table of the program has such a column.
* **An HTTP answer without an end** (`providers.py:47, 71`): see QuoteCache above.
* **`create_link_token`** (`bank.py:58-66`) changes nothing. **The payload of a webhook** is
  only logged.
* **A retry's expired user** (sync.py:218-220): after the rollback `current_user.id` has to be
  loaded again, which may raise in an async session. Which of the two happens is the ORM's
  affair; `RecordSync` has both (`IntegrityRetry`, `Fail`).
* **Hashing, signing and encrypting** are perfect in the models, and equal timing of answers
  (`auth.py`, `compare_digest`) cannot be expressed in TLA+.
* **Wording and shape of answers, logging.** No property is about them.
