# Equicloud: a TLA+ verification project

Equicloud is a settings-backup server in Rust over ScyllaDB. Devices of a user
store one settings blob (`/v1/settings`) and any number of keyed values
(`/v2/data/{key}`), and reconcile what they hold with what the server holds
through `POST /v2/sync`. The server keeps no session: everything is in three
tables, every handler is an independent asynchronous task, and several replicas
may serve one database. A replica keeps two things of its own in memory: verified
tokens and the counts that `/metrics` reports. What is hard about it is therefore not
one function but the steps of several handlers on the same rows, with a driver in between that
may send a statement more than once.

## Inventory

| Component | Source | State | Operations | What makes it correct |
|---|---|---|---|---|
| Data store and data routes | `lib/database.rs`, `routes/v2/data.rs` | table `data`: per user and key a value, version, checksum, size | PUT (quota check + versioned write), DELETE, GET, save of one key, batch of saves | an acknowledged save is stored, versions order the saves of a key, the quota holds, every request ends |
| Delta sync | `routes/v2/sync.rs` | none of its own; reads and writes `data` | list, compare, download, check uploads, save, answer | the answer covers what it lists; an upload hides a row the device has not seen only if it came after the listing or was created anew after a delete |
| Manifest route | `routes/v2/manifest.rs` | - | list all keys | entries and their sum come from one read |
| Driver profile | `lib/mod.rs` | connection pool | speculative execution, retries, request timeout | no wait is endless; a resent statement does no harm |
| Settings v1 | `routes/v1/settings.rs` | table `users` | GET/HEAD/PUT/DELETE with ETag, If-Match | an acknowledged save is not undone, If-Match protects what it was compared with |
| Authentication | `middleware/auth.rs` | token cache per replica, table `auth` | look up, verify, insert, invalidate | a deleted account's token stops working within the TTL |
| OAuth callback | `routes/v1/oauth/callback.rs` | table `auth` | exchange, scope and user checks, whitelist, secret, revocation | every path revokes the Discord token; first logins agree on a secret |
| Account deletion | `routes/v1/delete.rs` | all three tables, cache | unlogged batch, invalidation | nothing of the account is left |
| Migrations | `lib/migrations.rs`, `migrations/` | table `schema_migrations` | look up, execute, record | order, one content per name, restartable |
| Metrics | `routes/metrics.rs` | cached counts, refresh lock | read, refresh | one refresh at a time; stale counts are served meanwhile |
| Lifecycle | `main.rs`, `routes/health.rs` | failure counter, shutdown channel | health tick, shutdown, drain | only three failures in a row stop the server |
| Codec and key names | `lib/utils.rs` | - | compress, decompress, checksum, validate_key | decompress undoes compress; a valid key has no hidden segment |

The handlers call `DatabaseService`, which calls the driver; the routes share no
memory except the token cache and the cached counts. All other interaction is
through rows. The hazards of each part, at their lines, are in `PROJECT.json`.

## The modules

| Module | Models | Proved in |
|---|---|---|
| `Registers` | what the data store promises its clients | shown implemented in `DataKeysProofs` |
| `DataKeys` | the table `data` and the requests on it | `DataKeysProofs`, `QuotaProofs` (extends it) |
| `DeltaSync` (extends `DataKeys`) | `POST /v2/sync` | `DeltaSyncProofs` (extends `QuotaProofs`) |
| `Settings` | the table `users` and `/v1/settings` | `SettingsProofs` |
| `Auth` | tokens, the OAuth callback, account deletion | `AuthProofs` |
| `Migrations` | schema migrations of several replicas | `MigrationsProofs` |
| `Lifecycle` | health monitor, shutdown, cached metrics | `LifecycleProofs` |
| `Codec` | stored bytes, names of keys, conditional GET | `CodecProofs` |

`MCDataKeys`, `MCDeltaSync`, `MCSettings`, `MCAuth`, `MCMigrations` and `MCCodec`
define the constants of the instances TLC checks; the `.cfg` files choose among
them and state what is checked. `Lifecycle` needs no such module. A definition
whose name ends in an underscore and a word (`Hit_NoTTL`) is a plausible mistake
in the code, kept beside the right form; nothing uses it, and putting it in the
place of the definition it varies makes TLC find a property violated.

### DataKeys

The partition of one user in the table `data` and the requests that write it.

| TLA+ | code |
|---|---|
| `data[k]` | the row of key `k`: its `version`, and the request that wrote it, which stands for value and checksum; `NoRow` for no row |
| `wire` | copies of statements the driver has sent and the database has not executed |
| `pc`, `local` | where a handler stands, and the locals of one turn of its retry loop |
| `answer` | the HTTP answer (`saved` with its version, `quota`, `exhausted`, ...) |
| `past`, `before`, `from` | history: the contents a row has had; the requests that were over when a request began; the length of its row's `past` then |
| `Begin`, `Refuse` | the checks at the top of `put_data` and `delete_data`; a delete or account deletion sends its statement at once |
| `ReadTotal`, `ReadRow`, `ReadsDone` | the two SELECTs under `join!` in `save_data_key_with_quota_check`; only the second in `save_data_key_lwt` |
| `OverQuota`, `RefuseForQuota`, `Send` | the quota comparison and the conditional statement |
| `Resend` | speculative execution and the retry policy: the same statement again, because it is marked idempotent |
| `ExecuteSave`, `ExecuteDelete` | the database executing one copy: INSERT IF NOT EXISTS / UPDATE IF version = v, or an unconditional DELETE |
| `ReceiveApplied`, `RetryAfterConflict`, `GiveUpAfterRetries` | `is_lwt_applied` and the loop `for _ in 0..LWT_MAX_RETRIES` |
| `Fail` | a database error, the driver's request timeout, or a client hanging up, which drops the handler at its await; copies already sent stay on the wire |

INSERT IF NOT EXISTS and UPDATE IF version = v are one comparison in `Applies`
because stored versions start at 1 and 0 stands for no row. `save_data_key`, which
no route calls, is the same loop as a save of a sync batch.

### DeltaSync

`delta_sync` on top of DataKeys, which it extends: each upload is a task
`<<sync, key>>` whose operation is `save`, and any other requests of DataKeys run
between the steps of the handler.

`StartSync` takes the request: what the device holds of each key is nothing, a
row the server once had, or such a row edited since, with the version it was
edited from. `ReadPage` reads the manifest page by page (1000 rows each in the
code, sets of keys here). `Fetch` reads one row of the download list; `Check` is
the rest of the synchronous part: the downloads (or their failure), then the
whole loop over the uploads. `Objection` gives the reasons in the code's order,
the recursive function in `RunningSize` carries `running_size` from one upload to
the next, and `Verdict`, `Valid` and `Invalid` are the outcome of the loop.
`BeginUpload` and `StepUpload` are the saves of the batch side by side, `Respond`
the answer with its merged manifest, `FailBatch` the early return at the first
failed save, which drops the others, and `HangUp` the handler being dropped.

Three variables are history. `base` is the entry of a key's `past` that the device's
copy is of, `mark` the length of that `past` when the key was listed, and `since` the
requests that were over when the sync began. Versions alone do not name a row, as
they start over when a key is deleted and stored again; `base` does.

### Settings

The row of the table `users` and the four requests on `/v1/settings`. The row has
no version: its ETag is `updated_at`, which `StartSave` takes from `clock` once,
before the loop. A save alternates `update` (IF EXISTS) and `insert` (IF NOT
EXISTS) statements (`SendFrom`, `InsertInstead`, `UpdateAgain`), a DELETE sends one
unconditional statement, and each may be sent again and executed late. `CheckPut`
is the comparison of If-Match in a read of its own, `CheckGet` and `Fetch` the two
reads of a GET (a HEAD makes the first). A conditional request carries `*` or the
tag of a row the server once had. `before` keeps which requests were answered and
which were settled (answered, with no statement on its way) when a request began,
`started` the length of `past` when a save entered its loop. `Outcome` is what the
handler reads in the column `[applied]` of a result.

### Registers, and what DataKeys promises

`Registers` says what a client may rely on, without handlers, statements or a
driver. Every key is a register. A save that was let in writes its register any
number of times, each time one version on from the row it replaces; a delete or
purge empties it any number of times; a save is told `saved` only under a version
it was stored under; and a request that was refused writes nothing. A write may
come after its answer, and may happen although the answer was a failure: that is
what resends and timeouts make of a conditional write, and the specification says
it openly. `DataKeys` states `RefinesRegisters == Promise!Spec` with `rows`,
`history`, `asked` and `told` mapped to `data`, `past`, `req` and `answer`.

### Auth

The account of one user: the row of `auth`, the content of `users` and `data` (one
cell per table, told apart by the request that wrote it), one token cache per
replica. A login generates a random secret, which the model names after the login.

| TLA+ | code |
|---|---|
| `Call`, `Exchange`, `ExchangeFails` | `oauth_callback` up to the exchange of the code; from there the server may hold a Discord token (`login.token`) |
| `WrongScope`, `WrongType`, `UserRequestFails`, `UserRequestRefused`, `UserUnreadable`, `NotWhitelisted`, `NotConfigured` | the early returns after it, one action each; which of the last two is possible depends on the configuration of the replica |
| `RefuseAndRevoke`, `RevokeInBackground` | `revoke_discord_token_in_background`, which each of them calls: the token is handed to a task (`handed`), and the task asks Discord to revoke it (`asked`) |
| `Admit`, `ResendInsert`, `ExecuteInsert`, `Inserted`, `Reread` | `get_or_create_user_auth_secret`: INSERT IF NOT EXISTS, resent and executed late as any idempotent statement, and the second read when it was not applied |
| `Grant`, `FailLogin`, `DropLogin` | the revocation, awaited, and the answer; a database error, which revokes in the background; a client that hangs up, whose handler is dropped with the token |
| `ArriveKnown`, `ArriveUnknown`, `Verify`, `Fill` | `auth_middleware`: a cache hit; a miss or an eviction, the SELECT, the insertion into the cache. Other requests run between the SELECT and the insertion |
| `Save` | any handler behind the middleware that writes |
| `SendBatch`, `ExecutePart`, `Collect`, `Invalidate`, `AnswerDeleted` | `delete_user_account`, whose unlogged batch is three statements executed one by one in any order, and `invalidate_user_cache`, which lists the tokens and then removes them one by one, on one replica |
| `Tick` | time, which ends the life of cache entries |

`stored` keeps when a secret was last in the row, and `visit.before` which
requests were settled when a visit began.

### Migrations

Each replica runs `Start`, `Bookkeeping` (keyspace and table), then per file the
look-up, the statement and the record: `Skip`, `RefuseModified`, `Apply`,
`Record`, and, when the record was not applied, `Recheck` with `AcceptRecord` or
`RefuseRecord`. A runner that fails or crashes (`Crash`) leaves the statement it
waited for on the wire, where it may still be executed, and starts again
(`restart: unless-stopped` in `compose.yml`). Revisions differ in the checksums
of their files. `schema[f]` keeps whose content created the object of a file.

### Lifecycle

One process: the monitor (`CheckSucceeds`, `CheckFails`, counting to
`MAX_CONSECUTIVE_FAILURES`), the shutdown (`Signal`, `MonitorAsks`), the drain
(`Stop` when nothing is in flight), and the requests for `/metrics`, which are
the ones that use memory of the process: `Read`, the lock that is only tried
(`TryLock`, `AnswerOld`), the second look (`AnswerRefreshed`, `MustRefresh`), the
query or its failure, and `Store`. The time a request uses is the one it took on
arrival; the clock may be set back; a client may hang up anywhere, which drops the
guard of the lock.

### Codec

One key from the bytes that are put to the bytes that are got. Bytes are what the
code tells apart: the sizes of the zstd frames they are nested in, and whether
what is inside begins with the magic number without being a frame. `Compressed`
and `Decompress` are `compress` and `decompress`; `Put` includes the case that
zstd fails; `Restart` starts the server with the other `COMPRESSION_ENABLED`.
`Get`, `NotFound`, `NotModified`, `Modified` and `SendValue` are the two reads of
a GET with If-None-Match, with puts, deletes and restarts between them.
`ValidKey` is `validate_key`, compared with `Paths`, which builds the clean paths
up from their segments.

## Runs

| Run | Instance | Distinct states | Shows |
|---|---|---|---|
| `data` | 2 requests of any kind, 2 keys, 2 attempts, 1 further copy of each statement | 108,723 | acknowledged saves are stored under versions of their own; retries are exhausted only by changes of the row after the save began; over the limit only by overlap; every request is answered; DataKeys implements Registers |
| `sync` | 1 sync of a key that 3 other requests put and delete, with a blocked key beside it, 2 attempts | 2,076,917 | the answer covers what it lists; an accepted upload outranks the download of its key, unless the row was deleted; a row the device has not seen is overwritten only if it came after the listing, or was created anew after a delete at a version no higher than the device's |
| `sync_answers` | 1 sync of 2 keys on 2 pages, 1 other request | 24,775 | every sync is answered; over the limit only by overlap or a partly saved batch |
| `settings` | 2 requests of any kind, 2 attempts, 1 further copy, 2 milliseconds | 358,599 | an acknowledged ETag was stored; what a settled request wrote does not return; If-Match is lost only to a race; a save gives up only when the row comes and goes after it began; every request is answered |
| `auth` | 2 logins, an account deletion, 2 replicas, 1 further copy | 58,193 | a granted secret was stored; a deleted secret stays away; Discord is asked to revoke every token, whichever way the callback ends, unless the client hangs up |
| `auth_cache` | 1 login, 2 saves, an account deletion, 2 replicas, TTL 2, 3 instants | 833,379 | a dead token lets in for at most the TTL; what was in the cache of a replica when it served a deletion lets nobody in; deleted content stays away |
| `migrations` | 3 replicas of 2 revisions, 2 files, 1 crash of each revision | 551,520 | a record is never ahead of the schema; statements find what they refer to; replicas that serve agree with the record; one revision serves in the end |
| `lifecycle` | 3 requests, 2 failures to stop, a clock of 3 values, 2 editions | 613,494 | only failures in a row stop the server; refreshes are a TTL apart; metrics do not go back; a lasting outage stops the server; a drain ends |
| `codec` | every name of up to 5 characters, 6 contents | 211,594 | names accepted are exactly the clean paths; what was put is got; a copy confirmed by its tag is what was stored |
| `data_quota` | 2 PUTs of different keys | | violated: the limit is exceeded |
| `sync_delta` | as `sync_answers` | | violated: a sync without uploads downloads what the device has |
| `settings_late` | 2 PUTs, 1 further copy | | violated: a late copy of an acknowledged save undoes a later acknowledged one |

**Bounds, and why they are enough.**

- `MaxRetries` is 2 where the code has 5: the loop body is the same in every turn,
  and 2 gives a first attempt and a repeated, last one. `MaxResends` is at most 1
  where the driver sends up to 2 further copies plus retries: two copies suffice
  for the applied one and the rejected one to be answered in either order, and for
  one of them to be late. Histories are not bounded by themselves; each request
  stores at most `MaxRetries` times.
- `data`: sizes are chosen so that two keys fill the limit and `k2` is too small
  for the larger value, so that `Refuse` happens.
- `settings`: `MaxClock` is 2, for saves of one millisecond and of different ones.
- `sync`: a device's copy of `t1`'s row, a delete by `t2` and a new row of `t3` at the
  same version are the shortest history in which versions mislead. The value of `t2`
  is too large to be stored, so that it can only delete. Two constraints bound the run:
  `WritersTakeTurns` lets one of the three be under way at a time, beside the sync and
  with whatever it left on the wire, as races among writers are the business of `data`;
  and `WritersWriteOneKey` keeps them off the blocked key, where they would be refused.
- In the runs of `Auth` the deletion may be served by either replica and the saves by
  one of them, which gives a deletion with and without the cache that matters.
  `auth` is about the callback and the row of `auth`, and has one instant; its deletion
  is there to come between a rejected INSERT and the second read. `auth_cache` is about
  time: `TTL` is 2 and `MaxClock` 3, so that an entry can live, be used and expire. It
  needs both saves: one to fill the cache and be over, or still be verifying, when the
  deletion begins, and one to arrive after it. The saves are symmetric.
- `migrations`: two replicas of one revision and one whose second file was edited;
  one replica of each may crash once, with its statement on the wire.
- `lifecycle`: `MaxFailures` is 2 where the code has 3, so that failures in a row
  differ from failures that are not. `MaxClock` is 2, and the clock also goes back.
- `codec`: names of up to 5 characters over a letter, a dot, a slash and one that
  is refused, with `MaxName` 4: two segments with a dot, and one character too
  many. Contents are empty, within and beyond the cap, frames of either, and text
  that begins like a frame.
- `sync` uses the symmetry of the two clients that put. Runs that check liveness use
  neither symmetry nor constraints.

The theorems below hold for every value of these constants.

Only `lifecycle` is checked without deadlock, as a server that has stopped takes no
step. In the other models a state with nothing left to do has an action of its own
(`Rest`, `SyncRest`, `Serve`), and anything else that cannot move is an error.

**Fairness.** `FairSpec` of DataKeys and of Settings and `FairSyncSpec` are weakly
fair to each handler: the tokio runtime polls a future that can progress, and
`request_timeout` (`lib/mod.rs:74`) ends a wait for the database, so that `Fail` is
among the steps eventually taken. Nothing is assumed of clients (they need not
call, and may hang up), of the database (a copy may never be executed) or of
resends: a request ends although everything it waits for is lost. In `Migrations`
runners go on, a replica that is down is started again, and a statement that is
awaited is executed; otherwise its runner times out, and that is a crash, of which
there is a bound. In `Lifecycle` the monitor's timer fires, the server takes its
message, handlers run with their timeout, and a server that is drained stops.
`FairSpec` of `Auth` is weakly fair to each callback and to each revocation task it
spawned: the runtime polls both, the timeout of the HTTP client (`callback.rs:21`) ends
a wait for Discord, and `request_timeout` one for the database. Again clients may hang up.
A process that stops between spawning a task and running it is not in the model. No
signal, recovery or failure of the database is assumed.

**Weaker than one would like.** Some properties are the forms that hold of
something a document or a client would like unconditionally. The violated runs
show three of the unconditional ones fail, and the findings in `PROJECT.json` quote
the lines that promise them.

- `OverLimitOnlyByOverlap`, `SyncOverLimitOnlyByOverlap`: the quota is exceeded
  when requests overlap, and also by a single device with no concurrency: a sync
  counts its uploads one after the other, so a smaller replacement makes room for
  the next upload, but saves run in any order and may fail one by one.
- `UnseenOverwrittenOnlyByRaceOrDelete`: an upload can replace a row the device has not
  seen when that row came after the listing. It can also do so with no race at all, when
  the key was deleted and stored again since the device saw it: versions start over, the
  device's is as high, and `sync.rs` (lines 191-203) compares nothing else.
- `IfMatchLostOnlyByRace`: If-Match is compared in a read of its own.
- `SettledNeverReturns`: what comes back late is only what was still on its way
  when the later request began; a resent UPDATE of an acknowledged save can undo a
  later acknowledged one.
- `RefinesRegisters`: registers are written at least once, and a failure that was
  reported is not a promise that nothing was stored.
- `TokenOutlivesAccountByTTL`: a dead token works for up to the TTL after a
  request that verified it, on replicas that did not serve the deletion and, if it
  was being verified meanwhile, on the one that did. So a request need not be verified
  itself, where `PRIVACY.md` (line 75) says that tokens are verified on each request
  and (line 179) that there is no cache: a hit at `auth.rs:77` lets it in.
- `TokensAreRevoked`: a client that hangs up before the callback ends drops its handler,
  and with it the token. Asked is not revoked: a failure of Discord is only logged.
- `NothingLeftBehind`: a save under way when the account is deleted may create its
  row after the deletion.
- `ServingAgreesWithRecord`: of two revisions that race, one may create the object
  and the other record its checksum. The record then names a statement that took
  no effect; what is checked is what the code can compare.

## Theorems

Every module with behaviour has its proofs, for every value of the constants that
meets the named assumptions, which the runs evaluate. No invariant below is
inductive as it stands; each module defines the conjunction that is, shows it of
`Init` and of every action, and draws the theorems from it.

| Module | Theorems (property) | Inductive invariant |
|---|---|---|
| `DataKeysProofs` | `TypeCorrect` (`TypeOK`), `AckedSavesAreStored` (`AckedWasStored`), `AckedSavesAreOrdered` (`AckedVersionsDistinct`), `ExhaustionNeedsContention` (`ExhaustedOnlyUnderContention`), `StoreKeepsItsPromise` (`RefinesRegisters`) | `SInv`, and `RInv` for the last |
| `QuotaProofs` | `OverLimitNeedsOverlap` (`OverLimitOnlyByOverlap`) | `QInv` |
| `DeltaSyncProofs` | `SyncTypeCorrect` (`SyncTypeOK`), `ListedRowsAreSafe` (`UnseenOverwrittenOnlyByRaceOrDelete`), `AnswersAreComplete` (`AnswerCoversManifest`), `UploadsOutrankDownloads` (`UploadBeatsDownload`), `SyncOverLimitNeedsOverlap` (`SyncOverLimitOnlyByOverlap`) | `YInv`, and `LInv` for the last |
| `SettingsProofs` | `SettingsTypeCorrect` (`SettingsTypeOK`), `AckedTagsWereStored` (`AckedTagWasStored`), `SettledBlobsStayGone` (`SettledNeverReturns`), `IfMatchIsLostOnlyToRaces` (`IfMatchLostOnlyByRace`), `SavesGiveUpOnlyUnderContention` (`SaveExhaustedOnlyUnderContention`) | `SInv` |
| `AuthProofs` | `AuthTypeCorrect` (`AuthTypeOK`), `DeadTokensExpire` (`TokenOutlivesAccountByTTL`), `InvalidationIsComplete` (`InvalidationHolds`), `GrantedSecretsWereStored` (`GrantedSecretWasStored`), `DeletedSecretsStayDead` (`DeletedSecretStaysDead`), `DeletionIsComplete` (`NothingLeftBehind`) | `AInv` |
| `MigrationsProofs` | `MigrationsTypeCorrect` (`MigrationsTypeOK`), `RecordsNeverAhead` (`RecordsBehindSchema`), `StatementsInOrder` (`StatementsFindTheirObjects`), `ServingIsSafe` (`ServingAgreesWithRecord`) | `MInv` |
| `LifecycleProofs` | `LifecycleTypeCorrect` (`LifecycleTypeOK`), `ShutdownNeedsFailuresInARow` (`AsksOnlyAfterFailuresInARow`), `CacheLivesItsTTL` (`RefreshesAreApart`), `AnswersAreMonotone` (`AnswersNeverGoBack`) | `LInv` |
| `CodecProofs` | `StoredContentsReadBack` (`ReadsBack`), `CopiesAreContents` (`HeldIsWhatWasStored`), `ValidKeysAreCleanPaths` (`KeysAreCleanPaths`) | `CInv`; names do not change |

**DataKeys.** The invariant has two layers. `HInv` adds to `TypeOK` how a
handler's locals relate to its state (`HandlersOK`) and that what is on the wire
was sent by the attempt it names (`WireOK`). `SInv` adds the history: `PastOK`, the
last entry of `past[k]` is `data[k]` and versions count up by one between deletions
(`CountsUp`); `SeenAt`, what a handler has read or been told has a place in the
history, later for later attempts; and `AnswerAt`, the same of its answer.
`StoreHistory` is the step that matters: a conditional write appends exactly one
entry that counts up. Distinct versions follow from `CountsUp`, contention from
each rejected attempt needing a change after its read, and the first read coming after
`from`. The lemmas are about `Step`,
which any request can take, so that the next module can use them.

**Refinement.** `RInv` adds `ProgressOK`: only a handler that has ended has
answered, and a refused request has nothing on the wire. Then every step of a
handler but the last is a stutter of `Registers`, an executed copy is a `Write`, an
`Erase` or a stutter, and the end of a handler is a `Tell`; that `saved` is told
under a version in the history is `AnswerAt`.

**Sums and lengths.** `Total` is a fold over the keys, `RunningSize` a recursive
function over the uploads, `Paths` one over the length of a name. What they compute is
shown by a least counterexample: `SmallestNumber` and `SmallestKeys`, from the
well-foundedness of `<` and of strict inclusion between finite sets, give a smallest
number or set of keys at which a statement fails, and the recursive equation at that
point contradicts it. That the equation holds at all needs a function that satisfies
it (`SumsExist`, `CleanNames`), built first. The lemmas used elsewhere are `TotalType`,
`TotalMonotone` and `TotalReplace`: replacing one row changes the total by the
difference of the two sizes.

**The quota.** `Overlap(t, u)`: neither request was settled when the other began. A PUT
that overlaps no other request is `Alone`, and `QuotaAt` follows it: while it reads
for the first time the rows it has read are the rows there are, because nothing else
is under way or on the wire; so when it sends, its value `Fits`; nobody else changes
the rows until its own copies are executed; and from then on the rows left by it and by
the requests before it (`Only`) stay within the limit, as others can only take rows
away from that set. In a state with `Total(data) > MaxTotal` in which no writer
overlapped another request, the writers are totally ordered by `before`; the last of
them (`LastWriter`) is a PUT that was alone, and every row is its own or of one
before it, so the rows are within the limit after all. `OrderOK` makes `before`
transitive and antisymmetric. A later attempt reads again, but its value fits
whatever it reads: only the row of its own key can have changed.

**The quota under sync.** `SyncAssumption` says that no client other than a sync saves
without the quota check, as no route but `/v2/sync` calls `save_data_keys_batch`.
`RunningSizeCounts` shows that `running_size` after any prefix of the uploads is the
total of the listing with the accepted uploads of that prefix put in their places. So
`PlanOK` holds: what a sync accepts fits. `SinceOK` and `OlderRowsOK` say which rows
are older than the sync: they are rows it has listed, and they are gone under the
keys it has saved. Then the last request that wrote a row, with all uploads of a sync
taken as one request, is either a PUT, as above, or a sync that saved everything it
accepted, and the rows are at most the plan (`Planned`).

**DeltaSync.** A step of an upload is a step of DataKeys, so `SInv` holds; that
dropping the saves of a batch keeps it is a lemma. `SyncAt(s)` then gives places in
the history to what a sync knows: the listed row is at `mark` (`ListedOK`), a
row sent was stored there or later and before anything the sync itself stored under
that key (`DownloadsOK`), what is accepted was listed and not dominated
(`AcceptedOK`), and the answer is the listing but for the uploads reported
(`MergedOK`). Every other request only lets the history grow (`Kept`), which keeps
all places. For `UnseenOverwrittenOnlyByRaceOrDelete`, `BInv` adds that the device's
copy is of the row at `base`, no later than `mark` (`BaseOK`). An upload that
replaces a row listed at version v was accepted by a device at v or above; without a
deletion between `base` and `mark` versions count up there, so the row can only be
the one at `base`. That a row a sync has stored was listed, and not dominated, is
`OwnRows`. `UploadBeatsDownload` is about the order of two places and `CountsUp`.

**Settings.** `HandlersOK` and `WireOK` say that statements come from handlers and
carry their time; `SettledOK` that a settled request stays settled; `PastOK`,
`AckOK`, `GoneOK`, `MatchOK` and `SawOK` what an answer, a later write, a comparison
and a rejected statement say of the history, the last counted from `started`. `GoneOK`
is the crux of `SettledNeverReturns`: once a request's write has been applied, no row of a request
settled before it began can come back, because nothing of it is on the wire.

**Auth.** `LoginOK` and `InsertsOK` follow a login to the place in the history its
secret has, `VisitOK` and `CacheOK` tie a cache entry to a request that began while
the secret was stored, `PartsOK` and `GoneOK` say what the executed statements of a
deletion have removed for good, and `EvictOK` which entries it has still to evict,
while other requests fill the cache.

**Migrations.** Schema and records only grow (`Grows`), so what `PlacesOK` says a
runner has established stays true while others run, crash and come back, and
statements of dead runners arrive.

**Lifecycle.** `MonitorOK` equates the count with the failures at the end of the
checks; `CountsOK` orders what a request was promised, what it has seen, the cache
and the table; `RefreshOK` gives the holder of the lock a time a TTL past the
cache's, which only it can change.

**Codec.** `RowOK` says what a PUT leaves: the content, or a frame of it, and a
content that begins like a frame only as a frame unless zstd failed. `ReaderOK` and
`HeldOK` follow a tag from an answer to the next conditional GET. For the names, `Clean`
states character by character what the rules of `validate_key` come to
(`ValidIsClean`), and `PathsAreClean` shows that the paths built up segment by segment
are the clean names of each length: a clean name is a segment, or is split at its last
slash (`CleanSplits`); a path joined to a segment is clean (`JoinedIsClean`).

**Only model-checked.** Liveness under fairness (`EveryRequestAnswered`,
`EverySyncAnswered`, `EverySettingsRequestAnswered`, `TokensAreRevoked`,
`OneRevisionServes`, `OutageStopsServer`, `DrainEnds`), which needs ENABLED and is out of the prover's
reach. Every invariant and action property of a passing run is a theorem.

## Not modelled, and why

- Contents, compression and checksums as bytes: in `DataKeys`, `DeltaSync` and
  `Settings` a row is told apart by its writer, so two requests with equal content
  count as different; in `Codec` a checksum stands for its content.
- Timestamps: writes are ordered by execution. A plain DELETE and a conditional
  write take their timestamps from different clocks of the database, which is
  outside the repository; `created_at` and `updated_at` decide nothing in the
  data routes.
- Consistency levels and nodes: the database is one linearizable store, as
  LOCAL_QUORUM with LOCAL_SERIAL is within a data centre.
- Account deletion and saves are joined in `Auth` at the grain of whole saves, and
  in `DataKeys` (`purge`) at the grain of statements, but not in one model: their
  product is beyond TLC.
- In a sync, rows of keys that are blocked now but were stored under an earlier
  configuration; and the bound of 16 reads or saves at a time, which only
  removes interleavings the model allows.
- The manifest route beyond the paged read (`ReadPage`): a filter and a sum over
  rows already read, with no state and nothing in between.
- The text of `execute_cql` (comments are stripped, statements split), base64
  decoding of the token, the GET of the OAuth settings, the token and the uptime of
  `/metrics`, and the parsing of the environment: pure functions of their input.
- Revisions with different numbers of files: in `Migrations` every revision has the
  same list of files and differs in their contents. A revision with a further file would
  serve beside one without it, and `OneRevisionServes` is about equal lists.
- Body limits, headers, routing, CORS and rate limiting: libraries.

Things the models include and a maintainer may want to know, though no document
says otherwise: a database error during verification is answered 401, as a wrong
token is; a drain has no deadline of its own for clients that are slow rather than
gone; a clock that is set back keeps the cached counts until it has caught up; until
the first refresh the counts are zeros; the four counts are four queries and not one
snapshot; a value larger than `MAX_DECOMPRESSION_SIZE`, which a configured key size
may allow, is returned as its frame (`Unreadable`); and `PRIVACY.md` describes
secrets as derived where the code generates them at random.

## Plan

Done: all modules above, their runs and their theorems. What is left:

1. `Auth` with a replica that restarts and loses its cache, and with two deletions.
2. A manifest of `DataKeys` with pages that are not fixed sets of keys, should the
   page size ever become a parameter.
3. For liveness, the safety half of the argument as theorems: that in no state a
   handler is without a step of its own, and that each step brings it nearer its end.

## Reading and running

Start with `Registers`, then `DataKeys` and `DeltaSync`; the other modules stand
alone.

    tlc -config data.cfg MCDataKeys            # also data_quota.cfg
    tlc -config sync.cfg MCDeltaSync           # also sync_answers.cfg, sync_delta.cfg
    tlc -config settings.cfg MCSettings        # also settings_late.cfg
    tlc -config auth.cfg MCAuth                # also auth_cache.cfg
    tlc -config migrations.cfg MCMigrations
    tlc -config lifecycle.cfg Lifecycle
    tlc -config codec.cfg MCCodec
    for m in DataKeys Quota DeltaSync Settings Auth Migrations Lifecycle Codec
    do tlapm ${m}Proofs.tla; done
