# Verification of nexio-imdbratings

TLA+ models of the IMDb ratings service in this repository, the TLC runs that
check them on small instances, and theorems about them proved with TLAPS.
Source paths below are relative to the repository; `api/` stands for
`apps/api/internal/`.

    tlc -workers 2 -config SyncPair.cfg MCSnapshotSync.tla    # one run
    tlapm SnapshotSyncProofs.tla                              # one proof module

`PROJECT.json` lists the runs, the source lines each definition stands for, one
mutant per checked property, the hazards and the findings.

## The system

| Component | Code | State | Operations | Where modelled |
|---|---|---|---|---|
| Ingest runner | `api/ingest/runner.go` | `imdb_snapshots`, `dataset_sync_state`, the live, shadow and `*_previous` title tables; the locals of a pass; the goroutines of a download | `SyncOnce` and what it calls; the delta functions | `SnapshotSync`, `SnapshotPublication`, `CopyPipe`, `DatasetImport` |
| Worker loop | `api/worker/worker.go`, `cmd/worker` | none beyond the ticker | start a pass, stop on a signal | `SnapshotSync` (`StartSync`, `Crash`) |
| Query store | `api/postgres/store.go` | none (connections, and the locks of running statements) | ratings, episodes, search, snapshots, stats | `SnapshotReads` |
| Rate limiter | `api/api/ratelimit.go` | `buckets`, `counts`, two mutexes | `Allow`, `AllowConnect`, `Acquire`, `Release` | `RequestRateLimiter` |
| HTTP router | `api/api/router.go` | none | authentication, charging, handlers, 30 s timeout | guards and order in the modules above and below |
| WebSocket search | `api/api/websocket.go` | per socket: context, `cancelStore`, write mutex, message bucket | read loop, search goroutines, pings | `SearchSocket` |
| Authentication | `api/auth/apikey.go` | `api_keys` (read; `last_used_at`) | `Authenticate` | `PortalAccounts` |
| Edge API | `apps/edge-api` | one Durable Object per key: bucket (memory and storage), sockets, searches in flight | `/rate/allow`, `/ws/accept`, WebSocket events | `EdgeSession` |
| Web portal | `apps/web/server` | `users`, `web_sessions`, `api_keys` | sign-in, sessions, create and revoke keys | `PortalAccounts` |
| Schema | `infra/postgres` | the tables above | migrations | initial states |

The worker and the API are separate processes that share only Postgres. The
worker replaces whole tables by renaming them while the API queries them by
name; the only synchronization is what Postgres does with table and row locks.
Inside the API, handlers share the rate limiter; the goroutines of one socket
share its context, its `cancelStore` and its write mutex. The edge API is an
alternative front end: it queries the same tables and replaces the in-process
limiter and sockets by one Durable Object per key. The portal writes the accounts
and keys that both APIs read; it, too, shares nothing with them but Postgres.

Hard behaviours: promotion against queries and against a second promotion;
errors after a commit; kills at any step; an unclean Postgres restart; HEAD
answers that are older than the GET answers; clock readings that reach a critical
section out of order; searches that are replaced while they finish; clients that
disappear; objects that lose their memory; downloads that stall or are cut short while
three goroutines wait for each other; sign-ins that race while addresses change hands.
`hazards` in `PROJECT.json` lists
each at its line with the properties aimed at it.

## Modules

### SnapshotSync: the ingest worker and what it maintains

One action per database statement or HTTP request of `SyncOnce`, in the order of
the code; `pc[w]` is the position of worker `w`, `next[w]` the index of the loop it is in.
`remote`, `snap` and `baseline` are the locals of the pass.

* **Data.** A dataset is its upstream version number; the validators of a version
  are its number, 0 is "no validator" and also an empty table. A table is the id of the
  snapshot that created it. `data[d]` is the version behind the live name.
* **Transaction.** `tx[w]` collects what the import transaction has done; `Commit`
  makes it visible at once (`ApplyTx`). The same record is the locks it holds: a
  rename waits until no other transaction has renamed that table, an UPDATE until
  nobody else has updated the row (`LiveUnlocked`, `RowUnlocked`). Deactivation
  updates the rows that are committed when it runs (READ COMMITTED).
* **Outside the transaction** every statement commits by itself: `createSnapshot`
  before it, `dropPreviousTables`, `ANALYZE` and `markSnapshotFailed` after it, the
  upsert of an unchanged pass instead of it.
* **Failures.** Every call may fail (`PassFails`, `ImportFails`, `CleanupFails`,
  `AnalyzeFails`), a response may lack validators (`FetchMetadataBare`), COMMIT may
  succeed without the worker hearing of it (`CommitReplyLost`), the worker may
  be killed anywhere (`Crash`), Postgres may restart uncleanly (`DatabaseCrash`),
  which empties the promoted tables because they are UNLOGGED.

Downloads, COPY, normalization and index builds touch only tables that no
other session can name, so they are one step per dataset and one before the
promotion; their failure is `ImportFails` at the same places. What happens inside those
steps is the subject of `CopyPipe` and `DatasetImport`.

### SnapshotPublication: what ingest promises

The abstract specification, for a reader of the database: a snapshot is built out of
sight (`Begin`), then either given up (`Abandon`) or served (`Serve`), and `Serve`
is the only step that changes what readers see. It changes all tables, the announced id
and the ids in `dataset_sync_state` together, and the snapshot served before is over for good. An
announcement may be withdrawn (`Withdraw`) and a reference forgotten (`Forget`), never
replaced by a wrong one.

`SnapshotSync!PublicationSpec` is this specification under the mapping `StageOf` (the
life of an `imdb_snapshots` row, told from the row and from whether the snapshot
is live), `live`, `LatestActive` (the id `SearchTitles` would select) and the ids
in `sync`. Workers, transactions, locks, leftovers, validators and retries
have disappeared from it. `CreateSnapshot` maps to `Begin`, COMMIT (its reply received
or lost) to `Serve`, `MarkFailed` to `Abandon` or, for a snapshot that is served, to `Withdraw`,
the upsert of an unchanged pass to `Forget`.

### CopyPipe and DatasetImport: one import, row by row

`CopyPipe` is `copyDataset`: the goroutine that scans lines and writes records into
an `io.Pipe` through the csv writer's buffer (`ScanLine`, `ScanEnds`), the goroutine of pgx's
`CopyFrom` that reads chunks and sends them, and `CopyFrom` itself, which waits
for the end of the stream or an error of the server. Downloads break or stall,
lines are malformed, the server refuses a COPY or the connection is lost. Go's
pipe and pgx are external; they are modelled by what `runner.go` relies on.

`DatasetImport` extends it with the statements around it. A full refresh stages all files,
loads three new tables with the WHERE clauses of `normalizeSnapshot`, copies the votes
into `title_basics` and commits once; a delta stages each changed file and inserts,
updates and deletes the difference in batches (`Repeat` is `execBatchedStatement`), or
truncates and reloads `title_basics`, and commits each dataset by itself. The
delta is complete code that `selectSyncMode` never chooses today; it is modelled as it would
run. A row is a key and one value (NULL is 0); a table is a function from keys to values.

### PortalAccounts: accounts, sessions, keys

`Handlers` serve requests of the portal and of the API, each a sequence of
autocommitted statements: the callback of a sign-in (find by `google_sub`, else by
address, then update, link or insert, then create the session), a request with a session
cookie (check, extend, act), a request with an API key (load, touch). Accounts are Google
accounts (`google_sub`); the address of one may change between its sign-ins, and the
freed address may go to another account (`MoveAddress`, external). `users.google_sub` is nullable, so a row
may exist before its account's first sign-in. UNIQUE constraints make a statement fail (`Taken`),
and any statement may fail or the process stop (`HandlerFails`). `holder` and `maker` (who got the
cookie or the key), `ended` and `late` are history.
One assumption is stated in `MoveAddress`: an address that a row waits for does not change hands
within the few milliseconds in which a sign-in with it is served.

### SnapshotReads: queries beside the worker

Extends `SnapshotSync` with `Readers`. A request is a search, or asks for one or, in
`bulkGetRatings`, several titles in turn (`NextTitle`). A query method is a sequence of statements
(`Continuations`); a statement locks its tables in FROM order, resolving
each name when the lock is granted (`LockTable`), and reads them when it
has them all (`RunStatement`), or fails, also because the request's 30 s are over
(`StatementFails`). The promotion's rename waits for readers
(`Unread`). Both sides can wait for each other: `listEpisodeRatings` takes episodes,
then ratings, the promotion renames ratings, then episodes. Postgres aborts
either (`AbortReader`, `AbortPromotion`). Readers hold only shared locks and never wait for each
other, so one at a time shows every interleaving with the promotion that a property can see.

### RequestRateLimiter: admission

One handler per `Requests`; the clock is read before the mutex is taken
(`ReadClock`), the critical section is one action (`Charge`), and an
upgrade goes through it twice (`Allow` in `requireAPIKey`, then `AllowConnect`)
before it takes a slot. A bulk request whose body cannot be read is
answered before it is charged (`BodyUnreadable`). Time is counted in ticks of 1/`Scale` s and tokens in units of
1/`Scale`, which makes refill exact integer arithmetic; the code's
floating-point rounding is not modelled. `granted`, `born`, `seen` and
`retryAt` are history. The limiter is enabled (`RATE_LIMIT_ENABLED`); a disabled one admits everything
and keeps no state.

`RetryAfterSuffices` compares the balance after the wait with all that a repetition of the
denied request is charged (`RetryCost`), which for an upgrade is the charge of `requireAPIKey` and that of
`AllowConnect`, whichever of the two was denied. The code does not promise this to everyone, and
`Promised` says to whom: a request that costs more than the burst never gets in, and an upgrade whose two
charges exceed one second's refill may be denied at the second charge over and over, because `Retry-After` is
the deficit of one charge. With the default configuration (10 tokens per second; an upgrade pays 2, with
`?episodes=true` 9) the exception does not occur; with `RATE_LIMIT_TOKENS_PER_SECOND=1` it does.

### SearchSocket: one WebSocket of the Go API

The read loop (writer 0), one goroutine per accepted search (its seq), and
the ping goroutine. `at[a]` is where each is; `writeMu`, `ctxDone` and `cancels` are
`writeMu`, `connCtx` and `cancelStore.cancels`. A query that returns composes
its reply first and takes the mutex later (`QueryReturns`, `Lock`, `Write`), so
replies overtake each other. Frames answered by the read loop itself (pings,
rejections, the per-socket message limit) are one kind of "other" frame. The
client reads, disappears silently, or closes (`PeerLeaves`); while it reads,
writes and pongs are prompt. The router's timeout may strike any time
(`RequestTimeout`).

### EdgeSession: the Durable Object of a key

Event handlers of `durable/session.ts`. Storage operations hold up
all other events (the runtime's input gates) and responses wait for them
(output gates), so charging the bucket is one step; a search is two, before
and after the await of its query. A search frame that is refused (the socket's message rate, a `q` that is too
short, a type that is not allowed) is answered at once and leaves the older search alone (`RefuseSearch`, which may
happen any time); one that is accepted aborts it (`StartSearch`). So `SoleNoStaleResult` is about newer searches
that were *accepted*: after a refused one the result of the older search still arrives, and
`docs-site/api/websocket.md:221` has the client drop it. The limiter is enabled and the object reachable.
`Hibernate` loses memory and keeps sockets,
`Restart` loses both.
The map `inflight` is a set of searches in which a seq occurs once.

## Runs

| Run | Instance | What it shows |
|---|---|---|
| `SyncSingle` | 1 worker, 3 datasets, 2 versions, 8 snapshots, 2 faults | As deployed: recorded validators never ahead of the data, served data never older, leftover backups harmless, convergence |
| `SyncPair` | 2 workers, 2 datasets, 1 fault, 1 Postgres crash | Concurrent promotions: an active row is the live one, tables never mix, sync state names the live snapshot; refinement of `SnapshotPublication` |
| `Reads` | 1 worker, 1 reader, bulk of 2 titles, 2 versions of the ratings file, 1 fault | Joins never mix snapshots, a request never reads older rows than before, requests are answered and the import converges in spite of deadlocks and failing statements |
| `Limiter` | 1 key, 2 handlers, rate 3, burst 4, episodes 3, bulk of 0 and 7, 2 ticks per second, 2.5 s | Grant bound, Retry-After that covers both charges of an upgrade, slot accounting |
| `Socket` | 3 searches, 1 other frame | One uncancelled search, cancelled only when replaced, every search answered, a left socket dissolves |
| `Edge` | 2 sockets of which 1 open, 3 searches each, burst 2, 2 s | Bucket survives lost memory; one socket gets every search answered, and no result once a newer search was accepted |
| `Portal` | 2 accounts, 3 addresses moving twice, 2 handlers, 3 users, 2 sessions, 1 key | Accounts never share a user, ended sessions and keys stay ended, a sign-in is turned away for one of three reasons only |
| `Import` | 3 titles, 2 values, 2 to 4 versions of each file, both modes, batch sizes 0 and 1, buffer of 2 records | A successful COPY is the whole file, a successful import is what the files say, imports and their goroutines end |
| `SyncServed`, `SyncUnlogged`, `SocketPersistent`, `EdgeShared` | | Expected violations, see Findings |

**Bounds.** Two workers are enough for a conflict between two transactions, and
the invariants relate two at most; three datasets are those of `NewRunner`, two
keep the pair tractable while a promotion still takes several steps. `MaxVersion = 2`
lets upstream publish between HEAD and GET; `MaxSnapshots` is large
enough for every pass that the faults can cause, so that it never blocks one
in the liveness runs. Two faults allow a failed cleanup or lost reply to meet a
second failure. One key suffices for the limiter because buckets are independent;
two handlers give out-of-order clock readings. `Scale = 2` gives fractional
refills; with a rate of 3 an upgrade (2 tokens) is promised its Retry-After and is denied at either charge, and one with
`?episodes=true` (4 tokens, more than a second's refill) is not. Three searches give a
replaced search, its replacement and one after that. In `Reads`, one dataset is
published while requests are served (`Published`): the other two are imported along with it, and
each promotion replaces all three tables. Requests are finitely many (`MaxRequests`), and so are the deadlocks
that abort promotions: `ConvergenceDespiteReaders` says that the import converges once readers leave it alone, not that
an unending stream of queries could not abort it again and again. A bulk request of two titles has a second first statement.
In `Portal`, three addresses for two accounts leave one free to move to, two
moves let an address come back into use by the other account, and three users hold
both accounts and a row that waits for a first sign-in; rows of the bounded tables are
taken in order. In `Import`, the files hold a changed, a new and a missing title, a
NULL, a malformed line, a duplicate and an empty file; batch size 1 needs several batches,
batch size 0 must be replaced by the default. `CHECK_DEADLOCK FALSE` is said of
the sockets, which end, of an import, which ends, and of the portal, whose bounded
tables fill.

**Symmetry** is used for workers (`SyncPair`), handlers (`Limiter`, `Portal`), accounts and addresses
(`Portal`), sockets (`Edge`, `EdgeShared`), never in a run with a liveness property; the action property and the refinement checked there
name no individual.

**Fairness.** `FairSpec` and `ReadsSpec`: weak fairness of each worker's steps,
because the loop has no other exit than a signal and the process is restarted
(`restart: unless-stopped` in `docker-compose.deploy.yml`, `Restart=always` in
`docs/deployment.md`); of the statements of a running query and of Postgres'
deadlock detector. `SearchSocket`: weak fairness of goroutines, of queries (they end or fail),
of writes (`writeTimeout`), of the ticker. `DatasetImport`: weak fairness of the
goroutines' own steps, of `CopyFrom`, of the statements, and of the client's timeout
(`HTTP_TIMEOUT_MINUTES`, 30 by default), which covers the body; none of the arrival of
lines, so a download may stall. `PortalAccounts` and `EdgeSession` state none. Publications, faults, arriving
requests, leaving clients and the request timeout are never forced.

## Findings

Each is a run in which TLC violates a property that the repository's text states;
`PROJECT.json` quotes the lines.

1. `SyncServed`: after a commit, a failing `ANALYZE` or a lost COMMIT reply leads to
   `markSnapshotFailed`, which deactivates the snapshot that is being served.
   Search then reports snapshot 0, and the validators are recorded, so no
   pass repairs it until upstream changes.
2. `SyncUnlogged`: live tables are UNLOGGED. After an unclean Postgres restart they
   are empty while the validators say they are current.
3. `SocketPersistent`: the router's 30 s timeout ends every WebSocket.
4. `EdgeShared`: one socket's search cancels another's and tells the wrong client.

Also noticed, without a run: an upgrade is charged twice by the Go API
(`router.go:244`, `websocket.go:232`), documented as one call and charged
once by the edge API; the documentation adds that a 429 means an empty bucket (`docs-site/api/websocket.md:94`), but where the two
charges exceed a second's refill a client that obeys Retry-After may be denied without end (`Promised` excepts it); close code 1008 is documented and never sent; a bulk request
whose cost exceeds the burst gets a Retry-After that cannot help; the edge limiter
admits when its object fails (`routes/ws.ts:60`, by intent). A socket's `cancelled` frame may be
sent after the result that replaced its search (`websocket.go:111`; `docs-site/api/websocket.md:189`
describes the other order). When the server ends a COPY early, the goroutine that feeds the pipe stays
(`runner.go:485`; `FeederEnds` says so). A delta of the ratings alone would leave the votes copied into
`title_basics` stale, and commits dataset by dataset (`ImportedIsFile` says so; never called today). An account
whose new address is on another row cannot sign in, although its own row is found (`callback.get.ts:47`). This holds also when
that row only waits for a first sign-in: the update is refused at every attempt as long as that row has the address, which is the second
of the three reasons that `RefusalIsJustified` names. No code of the repository sets `users.disabled_at` or a key's `expires_at`, which
the checks of sessions and keys ask for, and `PortalAccounts` leaves them out. Revoking a key answers `revoked: true` for keys of others, which stay as
they are. The extension of a session revives one that expired between its check and its extension. Sockets opened
with a key stay open after it is revoked.

## What is proved

For every value of the constants that satisfies the named assumptions of the modules, which TLC
evaluates on every run:

| Module | Theorems | For any number of |
|---|---|---|
| `SnapshotSyncProofs` | `TypeCorrect`, `SyncInvariant`, `ActiveSnapshotIsLive`, `PromotionIsAtomic`, `SyncedSnapshotAgrees` | workers, datasets, snapshots, versions, faults, Postgres crashes |
| | `LeftoversAreHarmless` | the same, one worker |
| | `NoUpdateIsMissed`, `ServedDataNeverOlder` | the same, one worker and no unclean Postgres restart |
| `SnapshotPublicationProofs` | `PublicationInvariant`, `SyncImplementsPublication` | workers, datasets, snapshots, faults, Postgres crashes |
| `SnapshotReadsProofs` | `ReadsInvariant`, `ReadsTypeCorrect`, `JoinsAreUniform`, `PublicationBesideReaders` | readers, workers, titles of a bulk request, faults, Postgres crashes |
| | `ReadsGoForward` | the same, one worker |
| | `UpdatesBesideReaders` | the same, one worker and no unclean Postgres restart |
| `DatasetImportProofs` | `ImportInvariant`, `ImportTypeCorrect`, `CopyIsWhole`, `ImportGivesTheFiles`, `FailuresLeaveWholeTables` | titles (finitely many), values, files, batch sizes, buffered records |
| `RequestRateLimiterProofs` | `LimiterInvariant`, `LimiterTypeCorrect`, `GrantsAreBounded`, `RetryAfterIsHonest`, `SlotsAreAccounted` | keys, handlers, any rate, burst, cost, scale and limit |
| `SearchSocketProofs` | `SocketInvariant`, `SocketTypeCorrect`, `AtMostOneInFlight`, `CancelledOnlyWhenReplaced` | searches and other frames |
| `EdgeSessionProofs` | `EdgeInvariant`, `EdgeTypeCorrect`, `RateIsKept`, `SoleSocketAnswered`, `SoleSocketNotStale` | sockets, searches, any rate and burst |
| `PortalAccountsProofs` | `PortalInvariant`, `PortalTypeCorrect`, `AccountsAreIsolated`, `EndedStaysEnded`, `RefusalsAreJustified` | accounts, addresses, handlers, users, sessions, keys |

The restrictions are those the properties need: with two workers, or after an unclean restart of
Postgres, data and validators can part (TLC shows both), and two workers may promote in the other order
than their snapshots were created. `PortalAccountsProofs` relies on the guard of
`MoveAddress`, which is stated under PortalAccounts above.

*Concurrent promotions.* `ActiveIsLive` is not inductive: why should the row that
deactivation has missed not become active? `SyncInv` adds what a transaction
has done at each label (`LoopShape`), that no two have renamed the same table
(`LocksDisjoint`), and that after deactivation every active row is
deactivated or one's own (`DeactivationComplete`). The last holds because a
transaction past its renames holds all live tables, so no other is there to commit.

*Refinement.* The initial states correspond, and each action is a step of the
publication or a stutter, shown action by action. `PubInv` is what that needs
beyond `SyncInv`: the tables are of one snapshot, recorded ids are the live one, and
`RowLife`: rows that were never inserted have no status, no two passes hold the same row, the
row of an open transaction is importing, a served row is not. COMMIT is the
interesting step: `LockInv` says that the committing transaction has renamed every live
table, so that nothing of another one is half visible, `DeactivationComplete` that its
own id is the only one left active.

*No missed update.* `FreshInv` adds that HEAD's version is at most upstream's,
that a copied version is at least HEAD's and at least the served one, and that an
unchanged pass writes back what is recorded. Upstream versions only grow; with one
worker nothing else is published between copy and commit.

*Rate bound.* `BucketInv`: granted plus remaining units never exceed the burst and
the refill up to `lastRefill`, which is at most the clock. A clock reading older
than `lastRefill` adds nothing, which is the case the code's `elapsed > 0` is for.
`RetryInv` carries the promise of a denial: what the bucket holds or gains until
`retryAt` covers all that a repetition is charged, as long as nothing else was granted. For an upgrade this is where
`Promised` enters: `Retry-After` is at least one second, and one second refills both charges.

*Slots.* The counter equals the cardinality of the open sockets; the step
lemma is about adding and removing one element of a finite set.

*Sync state and leftovers.* `SyncedSnapshotAgrees` is the part `OneSnapshot` of the refinement's
invariant: the ids recorded in `dataset_sync_state` change in the transaction that renames the tables. For
`LeftoversAreHarmless`, `BackupsDropped` says that the transaction of a worker at its renames has dropped the
backups or there are none; nobody but that worker could make new ones.

*Queries beside promotions.* `LocksHold` says what a granted lock is worth: the table the name meant is still
the live one, and no transaction has renamed it. A rename waits for readers (`Unread`) and a lock waits for
a transaction that has renamed the table, so a COMMIT, which by `SyncInv` has renamed all tables, finds no reader
holding any. Hence a join that has locked two tables has locked two live ones, and those belong to one
snapshot (`OneSnapshot`). The worker's steps are those of `SnapshotSync` under stronger guards, and an aborted
promotion publishes nothing (`AbortPromotionUnseen`), so the refinement carries over.
`ReadsGoForward` adds `Ahead` (the id a pass holds exceeds every live one) and `NotBeyondLive` (nobody has
read beyond what is live): ids grow with the sequence, and a single worker promotes in their order.

*Imports.* `Stream` follows the records of a COPY: staged, in the sender's hands, in the pipe and in the writer's
buffer are together, in this order, the lines scanned so far, and the pipe ends without an error only when
all were scanned and nothing is left on the way. `FullInv` and `DeltaInv` say what each
statement has achieved. In a delta a batch brings some rows to what the file says and disturbs none, so that when an
insert has nothing left to do every key of the file is there, after the update with its value, and after the
delete no other key. `Current` tells for which datasets the delta already owes the live table to the
file: those passed or never changed, the titles only if the votes copied into them are not outdated too.
`FailuresLeaveWholeTables` reads off the two that COMMIT is the only step that changes a live table, and
changes it to what the files say; no run checks that property.

*One WebSocket.* `OneInFlight` is nearly inductive: `replaceAll` empties the store in the critical section that
adds the new entry. It needs that searches not accepted yet have not started, that a superseded search
is older than the latest, and, for `LatestNotCancelled`, that a composed reply says "cancelled" for a cause
(`CancelledForCause`): its search was superseded, or the connection has ended and the reply cannot be written any more.

*The Durable Object.* `RateInv`: the bucket in memory is the stored one or none, and stored tokens plus
grants never exceed the burst and the refill up to the stored time. Losing memory changes neither. `SoleInv`
speaks of objects with one socket used since the start: each search of it is `Settled`, so a search that runs
unaborted is the last one accepted and its controller is in the map. With a second socket that fails
(finding 4), which is why the theorems say `Sole`.

*Accounts.* Handlers act on rows they have read before, and nothing locks the rows in between. What they rely on is
`RowStep`: rows stay, a linked row keeps its account, and a row that is still unlinked has not changed at
all. `HandlerOK` says what a handler knows at each statement. The difficult case is `linkUser`, which
writes `google_sub` unconditionally: the row is as it was found or already the handler's own account's,
because only the account that has the row's address can wait to link it, and the address does not
change hands meanwhile.

**Only model-checked:** all liveness (`Convergence`, `RequestsAnswered`, `ConvergenceDespiteReaders`,
`SearchAnswered`, `SocketReleased`, `ImportEnds`, `FeederEnds`), which is out of the prover's reach, as is ENABLED:
weak fairness is defined with it. Every other property of the passing runs is stated by a theorem.

## Not modelled

HTTP formats and input validation, search ranking, row counts and progress logging, floating-point rounding,
TLS and proxies, configuration parsing, the exchange of a sign-in with Google before its token is verified (it
touches only the browser's cookies), the portal pages, and `cmd/contractstub`, which answers from
constants. The per-socket message buckets of both socket implementations only decide whether a frame starts
a search or is answered at once: any frame may be (`ReceiveOther`, `RefuseSearch`). The disabled limiters and the edge API's fail-open
path (`routes/ws.ts:60`), which admit everything. A body that breaks after its end was read counts as a
failed download (`ScanEnds`); in the code that COPY succeeds, with the whole file. The edge API's queries and
key check are those of the Go API in another language and are not modelled a second time.

## Plan

Done: ingest with its publication refined and proved, copy and import of the rows, queries (bulk
included), limiter, both socket implementations, accounts with sessions and keys, and a proof of each safety and
action property the passing runs check. What is left:

1. More consequences that no run checks but a reader would ask for, as `FailuresLeaveWholeTables`: that a
   COPY never stages a malformed line, that an admitted upgrade has paid both charges.
2. What remains true with two workers: validators recorded by a pass that imported are those of
   its own HEAD answers; the served version may go back only when promotions overtake one another.
3. What remains true of `EdgeSession` with several sockets: a search reported cancelled has been aborted, and is
   never sent a result afterwards.
