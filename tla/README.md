# Formal models of MARC Comparator

TLA+ modules, TLC configurations and TLAPS proofs about the parts of MARC
Comparator that are hard to test: the locks, the background tasks, the storage
of MARC records and the tasks that write them, the reviews, and the web client's
requests, live updates and pages. All paths below are relative to
the repository; line numbers are those of the sources.

## Inventory

| Component | State | Operations | Interacts with | Correct when |
|---|---|---|---|---|
| Lock server (`app/adapters/lock_server.py`) | Redis keys with TTL and token, the Redis set `active_locks` | `one_at_a_time_lock`, renewal watchdog, `get_active_locks` | API (`sync_records`), `ManagedTask`, lock banner | one holder per name as long as the TTL lasts; a key is freed by its owner; dead locks expire; the list tells what is held |
| Task execution (`app/adapters/tasks.py`, `app/tasks`) | rows of `tasks`, broker queue, workers | `enqueue_task`, `dispatch_task`, `ManagedTask.__aenter__/__aexit__`, `revoke_task`, `delete_tasks`, periodic creators | lock server, events, every task | a task runs once; its row tells what became of it; nothing is left locked or Started |
| MARC sectors (`app/adapters/marc_sectors.py`) | `marc_sectors`, `marc_record_index`, Redis cache | `read_marc`, `upsert_record_in_sector`, `SectorBuffer`, `write_records_to_sector` | all tasks that write records, all readers | a slice of the blob is the record; the cache agrees with the tables |
| Maintenance (`app/maintenance`) | the sectors, search vectors, redbeat entries | `compact_sectors`, `rebuild_search_vectors`, schedule | sectors, tasks | compaction changes no record |
| Fetching and syncing (`app/catalog_records/tasks.py`, `service.py`) | `catalog_records`, sectors, reviews | `fetch_record_task`, `fetch_batch_of_records_task`, `records_sync_task` | Aleph OAI, sectors, reviews, analytics | row, bytes, processing mark and reviews of a record stay together |
| Processing (`process_records`), linking, comparison, validation | links, comparisons, validations, snapshots, `processed_at` | one pass per record, each also a task of its own | sectors, external services, reviews | results and marks are about the stored bytes; changed results outdate reviews |
| Reviews (`entities/record_review.py`) | `record_reviews` | create, delete, outdate | users, tasks, analytics | at most one current review per aspect, of what is stored |
| Analytics and facets (`catalog_records/analytics.py`, `facets.py`) | analytics table, facet cube | `rebuild_all`, `upsert_records`, queries | tasks, reviews | agrees with the tables after each change it follows |
| Filters and search (`filter_*.py`, `search.py`) | none | compilation of one filter to ORM and SQL | record list, facets | both compilations select the same records |
| Events and WebSocket (`adapters/events.py`, `ws/`) | Redis channel, list of connections | publish, subscribe, broadcast | tasks, locks, client | those who may see an event get it |
| Client: requests and session (`client/src/lib/api-client.ts`, `hooks/use-auth.ts`, `layout`, `features/auth`) | waiting requests, refresh queue, the page shown | refresh on 401, health check, redirects, log-in, sign-up, log-out | API | one refresh for many 401s; no failure is silent; a session that can be renewed is kept |
| Client: live updates (`lib/ws-client.ts`, `hooks/use-ws-events.ts`, banners) | one socket, timers, coalesced events, query cache, history | connect, reconnect, coalesce, invalidate, poll | WebSocket, API | one connection that comes back; pages become current after a change |
| Client: records page (`features/records`) | the URL, cached answers, dialogs | filter by facets, page, move through the carousel, choose views, start tasks, review | API | each filter can be seen and removed; moves go to neighbours; what is posted fits what is offered |
| Client: access control and settings pages | dialogs and forms over fetched documents | tick permissions, edit, save, switch scope | API | roles keep the dependencies of permissions; no edit is lost unasked |
| Auth, access control, settings, system (`app/auth`, `app/access_control`, `app/settings`, `app/system`) | cookies, users, roles, one row per settings scope | single transactions | API | as the client meets them, in its modules |
| SDK (`sdk/marc_comparator`) | none | comparators, validators, linkers | tasks, remote services | (not modelled) |

What makes it hard: everything shares PostgreSQL under READ COMMITTED without
row locks or unique constraints on what matters (sectors, current reviews,
snapshot versions); Redis carries locks, cache and events without transactions
with the database; workers are killed on purpose (a revoke sends SIGTERM);
tasks commit in the middle of their work, and swallow the errors of single
records. In the client every answer, timer, close event and callback arrives when
the page, the record or the dialog it was asked for may have been replaced, and
react-query and react-hook-form decide what is kept. `PROJECT.json` lists the hazards one by one, with the property that
would catch each or the reason why none does.

## Modules

| Module | Of | Composes |
|---|---|---|
| `OneAtATime` | what the lock promises: at most one holder per name, until its time is over | |
| `LockServer` | the lock as it is, with time, TTLs, watchdogs and kills | implements `OneAtATime` (property `OneInstance`) |
| `LockServerProofs` | proofs about `LockServer` | |
| `TaskLifecycle` | a task's row, message, execution, exit, revoke and deletion | uses the lock through `OneAtATime` |
| `TaskLifecycleProofs` | proofs about `TaskLifecycle` | |
| `MarcSectors`, `MCMarcSectors` | sectors, index rows, cache, writers and readers | |
| `MarcSectorsProofs` | proofs about `MarcSectors` | |
| `BatchWrite` | the batch tasks: session, buffer, errors, periodic commits, next to reviewers and `process_records` | takes storage as `MarcSectors` promises it |
| `BatchWriteProofs` | proofs about `BatchWrite` | |
| `RecordReviews` | reviews and their analytics on the server, statement by statement, and the review button of a tab | |
| `RecordReviewsProofs` | proofs about `RecordReviews` | |
| `ApiClient` | the interceptor, the queries behind it and the pages that are left when session or backend is gone | |
| `ApiClientProofs` | proofs about `ApiClient` | |
| `WsClient` | the socket, its late events and its timers | |
| `LiveUpdates` | events from commit to query cache, banner and history | takes the connection as `WsClient` promises it |
| `LiveUpdatesProofs` | proofs about `WsClient` and `LiveUpdates` | |
| `MCClientSession` | one tab | `ApiClient`, `WsClient`, `LiveUpdates` |
| `RecordsPage` | the state in the URL shared by plots, table and carousel | |
| `MarcTable` | which result stands at which row of a record | |
| `RecordTasks` | the dialogs that start tasks | |
| `AccessControl` | the roles page | |
| `SettingsForm` | the forms of the settings scopes | |
| `ClientPagesProofs` | proofs about the five modules above | |
| `MCClientPages` | the pages of the client | `RecordsPage`, `MarcTable`, `RecordTasks`, `AccessControl`, `SettingsForm`, `RecordReviews` |

The parts that `MCClientSession` and `MCClientPages` put together share no state,
neither in the code nor in the model: a behaviour is one of one part (`part`)
with the others at rest, so that the runs add up the state spaces instead of
multiplying them.

### LockServer

`key`, `ttl` are the Redis key and its TTL (redis-py `Lock`), `active` the set
`active_locks`, `pc[p]` the place of a process in the context manager, `timer`
its blocking timeout or the time to its watchdog's turn. `Acquire` is
SET NX PX; `Announce` is `sadd`, the event and the start of the watchdog;
`Renew` is the watchdog's turn; `Finish`, `Release`, `Unlist` are the `finally` block.
A `Tick` is a second.

The watchdog renews nothing. redis-py keeps the token of a `Lock` in a
`threading.local` (`thread_local=True`, the default that `lock_server.py:50` leaves),
so `reacquire()` in the watchdog's thread has none and raises; the error is logged
and the thread returns (`lock_server.py:84-88`). `Renew` is that: the key of every
holder expires 60 seconds after its SET, while the body goes on. `lease[p]`, a
history, counts these seconds. What the lock promises is therefore claimed for the
time of the lease (`LeaseOwnsKey`, `OneInstance`), and what its docstring promises
beyond it, that bodies of any length exclude each other, is what the run
`lock_renewal` refutes. `ManagedTask` passes its timeout positionally as `blocking`
(`tasks.py:261`), so a worker waits for a lock although the docstring of
`lock_blocking_timeout` says 0: the model lets every call wait any time up to
`BlockingTimeout`.

### TaskLifecycle

One step is one commit or one message. `Insert`, `Dispatch`, `Respond` are
`enqueue_task` inside `sync_records`; `Receive` is Celery's delivery (early
acknowledgement: a message is delivered once); `Start`, `TakeLock`,
`LockRefused` are `__aenter__`; `Exit`, `Close` are `__aexit__`; `Collect` and
`Delete` are the body of `delete_tasks`; `Check`, `Broadcast`, `SaveRevoked`
are `revoke_task`, `Terminate` what the workers do with the broadcast. Faults:
a worker or an API process dies, a broadcast is lost. The lock is `OneAtATime`, which
`LockServer` is proved to implement within the TTL. `LoseLock` is the end of the TTL
in the middle of a body: no fault, but what happens to every sync that runs for more
than 60 seconds. It may happen in any body at any time, so that `OneSyncAtATime`
claims exclusion only for syncs not in the history `overran`.

### MarcSectors

A session is a transaction of a writer, stepping through the SELECT of the
sector, the SELECT of the index rows, the flush of the sector row and the
commit, which flushes the index rows that the session (without autoflush) still
holds. Updates of a row wait for the transaction that updated it; waiting in a
circle makes one a victim. Version `v` of a record is `v` bytes long, each
tagged with its record and version, so that a wrong offset or length is seen in
the bytes. The code appends the records one after another; the module says which
byte comes at which place (`Offset` counts the bytes of the records before), so
that the layout can be reasoned about without recursion. `raced`, `crossed` and `uncleared` are histories: the sectors
written from rows that had changed since they were read, the records cached by a read
that overlapped a write, and those whose entry a write failed to delete
(`_invalidate_cache` swallows the error of Redis and the write goes on). `Expire` is
the TTL of an entry; nothing is claimed of when it comes.

### BatchWrite

`pending` is what the transaction has changed (rows, cleared `processed_at`,
outdated reviews), `buffer` the `SectorBuffer`. `Handle`, `MarkDeleted`, `Miss`,
`Raise` are one answer of the OAI server; `Count`, `Cycle`, `Rebuild`,
`CycleFails` are `handle_batch_progress_snippet`; `Final`, `FinalFails`,
`FailureExit`, `Crash` the ends of a task. `Review` is `create_review`,
`ProcessBegin`/`ProcessEnd` what `process_records` reads and writes of the same
columns. The histories name the causes of damage: `undone` (bytes committed
after their row was rolled back), `dropped` (bytes lost with a buffer), `late` (a
review or a processing mark of bytes that were being replaced). The properties
say that nothing else does damage, so each is broken by a bug that damages a
record none of these causes has hit.

### RecordReviews

`reviews` are the committed rows in the order of their creation, `analytics` the
`reviewed_aspects` of the analytics rows, `call` the requests under way, `task`
the one task that changes results. A step is a statement or a commit under READ
COMMITTED. `Scan`, `Mark`, `CommitCreate` are `create_review`: `supersede_current`
takes the rows it sees, waits for those another transaction has updated and
leaves out what is no longer current, and `save` inserts and commits. `Find`,
`CommitDelete` are `delete_review`; `Snapshot`, `Refresh` are `upsert_records`,
one statement that reads first and writes when nobody holds the row;
`OutdateScan`, `OutdateMark`, `OutdateCommit` are `outdate_current` in a task.
A task rebuilds the analytics when it succeeds (`TaskSucceeds`) if its type is one of
`ANALYTICS_REBUILD_TASK_TYPES`; `FetchRecord` is none, although it outdates all reviews
of its record, and it does not call `upsert_records`, whose docstring
(`analytics.py:206-207`) names single-record changes: after `FetchSucceeds`, as after
`TaskFails`, the analytics keep the aspects whose reviews were outdated until another
change refreshes them (`lagging`). `Lose` is the death of the process
or of the connection anywhere in between. The tab is that of `Me`: `SubmitReview`
and `HandleRemove` are `review-button.tsx`, `UseRecordReviews` the query and
`OnSuccess` the mutations of `use-reviews.ts`, `ReviewButton` what happens to the
button when another record or view is shown. A button that stays mounted passes its options
to its pending mutations (`useMutation` calls `setOptions`), so that their
`onSuccess` invalidates the reviews of the record shown by then: `missed`. The
other histories are `overlapped` (creations that did not see each other),
`lagging` (analytics whose refresh never came, failed or was overtaken) and `told` (what
an answer has confirmed).

The query returns current reviews only, so the branch of `review-button.tsx` that
offers to review an outdated one again is never reached and is not modelled
(`docs/diagrams/review-lifecycle.puml` has outdated reviews shown with a
warning). Notes and the five minutes after which a query grows old are left out.

### ApiClient

`req[r]` is a request of the page: where it is (`sent`, `answered`, `queued`,
`refreshing`, `checking`, `waiting` for react-query's second try, `failed`), its
answer, the interceptor's `_retry` and whether a toast told of its failure.
`isRefreshing` and `refreshQueue` are the variables of `lib/api-client.ts`,
`leaving` the page `window.location` was sent to, which does not stop the script.
`Challenged`, `Refused`, `StartCheck`, `Lost` are the branches of the interceptor,
`RefreshSucceeds`, `RefreshRefused` and `FinishCheck` the ends of the refresh and of
`isBackendHealthy`. `LayoutEffect` is the effect of `app-layout.tsx`, `AppLayout`,
`LoginPage`, `SignupPage`, `LogoutPage`, `ServiceUnavailablePage`, `OidcLogin` what
the user can ask for on each page. The backend's part is `Answers`: which cookie
each endpoint needs, sets or clears. Cookies expire and the backend stops and
returns (`AccessExpires`, `SessionExpires`, `BackendSwitches`); a repeated request
is taken to be faster than the life of a new token.

### WsClient

`sock` are the WebSocket objects the browser still knows, `ws`, `closing` and
`tracked` the fields of `WSClient`, `timers` the reconnections that will fire, of
which `reconnectTimer` refers to one at most. `Connect` and `Disconnect` are the
methods; `Accepted`, `SocketRefused`, `CloseEvent`, `Cut` what the browser reports,
later than the call that caused it; `Reconnect` a timer; `Mount` and `Unmount` the effect of
`use-ws-events.ts`, which React runs twice in development. The server looks at the access cookie
once, when a socket connects (`ws/controller.py:16-25`), and closes a socket without a
valid one before accepting it, at every attempt: an idle page whose token has expired
(`TokenExpires`) has no connection until one of its requests is refused and renews it,
or its user logs in (`TokenRenewed`). `ConnectionReturns` is therefore about pages with
a token. `Cut` is the network or a stopped backend. One assumption about
time: an attempt that `close()` aborted is reported before a timer of a second
fires. Without it, the error of each aborted attempt may close the next, for ever. The delays themselves (1 s to
30 s) are left out: a timer may fire at any time.

### LiveUpdates

`server` is what the queries would answer (of the records a version number, which
each commit of the task raises), `run` how far the worker is, `outbox` the event each
process (the API that dispatched the task, the worker, the API that revokes it) has
yet to publish after its commit, `chan` what is on its way to the page, `pending` the
coalesced event, `cache` and `fetch` the query cache, `history` the notifications.
`CommitRecords` is `cycle_session` in the middle of the task, of which no event tells;
`FinishTask` the outcome, with the last batch; `Revoke` is `revoke_task`, whose status
`Revoked` makes the page ask for the tasks and not for the records; `LockExpires` the
TTL, of which no event tells either. `Die` is a process that dies between a commit
and its event, or a worker in the middle of its task (a revoke terminates it):
nothing is published. `Publish` reaches only an open socket, and not even that if the
API has just lost its subscription. `OnTaskStatus`, `OnLock`, `HandleTaskStatus` are
the handlers of `use-ws-events.ts`, `MainBanner` the interval of `main-banner.tsx`;
`FetchFails` is a refetch that failed with its retry, after which the old answer stays
and nothing asks again. `Pending` is published by the API after the dispatch, by
another process than the rest. Failure is an outcome like Success; progress events,
the read marks of the notifications and the dispatch that fails are left out.

The histories are `missed` (queries an event or answer about which was lost) and
`overtaken` (a status of the API published after the outcome). `CacheFollows` says
that a cached list older than the server's has a current answer or an event on its
way, or one of these causes, or that the code publishes nothing of the change
(`Untold`: batches of a task that has yet to end, or whose worker died; an outcome
that another status replaced; an expired lock). That list of causes is the
property: a page is stale for no other reason.

### RecordsPage, MarcTable, RecordTasks

`url` holds the parameters of `use-record-filters.ts`; `SetFilters` is a change of
them with all that follows in the rendering: the search is answered from the
cache or not (`ready`, left open, since react-query may have dropped it), the
index is clamped, and `RecordDetail` keeps the view or chooses another once the
details of the new record are `known`. `held` is what the table shows of the last
search (`keepPreviousData`). The operators named for the sections of the plots
give the parameters after each click they offer, `ActiveFiltersBar` the badges and
what their crosses leave. Texts are one Boolean, a score range another.

`MarcTable` has one step, the choice of a view with results; the rest are
operators: the rows that `marc-table.tsx` builds for fixed fields, repeated
fields, tags that only results name and results for no field in particular.
Validators name a field they have seen, or none (`Seen`, from the only validator
of the SDK), but seen in the bytes they were run on: a sync or a fetch replaces the
bytes and keeps the results until the record is processed again, so `SelectResults`
takes results of the record shown or of any other state of it. A result that names a
repetition which is gone matches neither filter of the rows (`marc-table.tsx:134-139,
159-161`) and is not shown at all; `ResultsShownOnce` says that this is the only case
(`FieldGone`), which results of the bytes shown never meet.

`RecordTasks` is `record-task-actions.tsx`: `dialog`, `picked` (which survives a
closed dialog), `posts`, and `info` of the system, which may be refetched with
other settings while a dialog is open. `offered` is a history.

### AccessControl, SettingsForm

`AccessControl` is the list of roles and the dialog of `role-form-dialog.tsx`
with `togglePermission`; answers close whatever dialog is open when they come. The
two recursions of `permission.ts` are written out to the depth of the
dependencies; `MCClientPages` has them as the code has them, and `RecursionsAgree`,
evaluated by the run `client_pages`, compares the two for every permission and
every set of permissions.

`SettingsForm` has one form for the scope chosen. Fields are described by what
their input produces and what the schema of `schemas.ts` accepts; those in
`Edited` are edited. `form` is draft, baseline and react-hook-form's set of
edited fields; whether a field that comes to equal a new baseline still counts as
edited is left open: it is the library's business. `OtherSaves` is another administrator, `Fetched` a refetch that moves the
baseline (`keepDirtyValues`). The rows of field arrays are left out.

## Runs

| Run | Question | Bounds | Result |
|---|---|---|---|
| `lock` | does the Redis lock implement the abstract lock within its TTL; is a key freed only by its owner; do waits, dead locks and stale names end? | 2 processes, 1 name, TTL 4, waits of 2, 2 kills | holds |
| `lock_renewal` | do bodies exclude each other however long they run? | 2 processes, TTL 3, no fault | violated: nothing renews the key, and another process enters |
| `lock_list` | is every held lock in `active_locks`? | 2 processes, TTL 3, no fault | violated: the `srem` of the last holder removes the name of the next |
| `tasks` | exclusion of syncs, no leaked lock or Started row, outcomes, progress, revokes | 2 tasks of any types, 1 revocable, 1 fault | holds |
| `task_success` | does Success mean that the body ran? | no fault | violated: a refused lock is recorded as Success |
| `sectors` | do blob, index and counts agree (`SectorSound`); does every session end; does the cache agree with the tables? | 2 writers or compactions, 3 records in 2 sectors; or 2 writers, 1 reader, 2 records in 1 sector | holds, lost updates, overlapping reads and failed invalidations apart |
| `marc_stale` | does the cache agree with the tables after overlapping reads, too? | 1 writer, 1 reader | violated: a slice that is no record is cached |
| `batch` | do row, bytes, mark and review stay together? | 2 records, 2 versions, 4 answers, 1 error or crash, flush every 3, rebuild every 2 | holds, `undone`, `dropped` and `late` apart |
| `client_session` | is a renewable session kept, a failure noticed, a waiting request answered, one socket open and back again, does the cache follow and the banner end? | 2 requests at once, 1 event (expiry, stop or return, address); 3 sockets, 3 cuts, 3 mounts; 1 task with 1 batch, 1 revocation, 2 losses | holds, lost, overtaken and untold changes apart |
| `client_pages` | the pages: filters and badges, moves of the carousel, posted tasks, shown results, roles, drafts, reviews and their analytics | 5 records, pages of 2 or 3, both orders (2 and one order with a facet chosen), 1 facet value; 2 linkers and bases, 2 posts, 1 change; 2 fields of a tag, 2 results; 2 roles, 4 permissions clicked; 3 scopes, 1 other save; 2 reviewers, 2 calls, 3 requests, 1 task, 1 loss | holds, `FieldGone`, `overlapped`, `lagging` and `missed` apart |
| `late_pending` | is the outcome of a task shown and kept? | 1 task, no loss needed | violated: a Pending published late replaces it |
| `batch_review` | do reviews follow the bytes whatever happens to other records? | 3 answers, 1 error | violated: the error of one record undoes the outdating of another's reviews |

Why the bounds are enough: the lock's conflicts are between two processes on one
name, and a TTL of 4 with a watchdog's turn in every second and a blocking timeout of 2
keeps the order of events of the code's 60, 20 and its shorter waits, while bodies
are shorter and longer than the TTL; two tasks make every pair of handlers meet, and a task type
matters only for the lock and for deletion; two writers on a shared and an own
sector give lost updates, both flush orders and the deadlock, and a third
record shifts offsets; four answers with a flush at the third cover an error
before, at and after a flush, and the intervals that are not aligned make the
rebuild commit in between (with the defaults, 500 and 5000, it finds nothing to
commit, which the model covers wherever both are due).

In the client two requests are enough for one to start a refresh that the other
joins, follows or outlives, with the layout's queries repeating by themselves;
three sockets let an old one close while a second aborts and a third connects;
two losses are that of an event, of whatever kind, and of the answer that would have made
up for it. Beside a revocation the run has no loss but the death of the worker, and the
second of two losses is that of an answer (`MCClientSession`): losses of two events are
independent in what they leave behind, and `late_pending` has them all. Five records make
a short last page for both page sizes and pages of several views and none. Two
calls overlap in each of their steps; the third request, the task and the loss
share the bound (they begin with some of it used up), because overlaps of more
than two of them are those of two; next to the button, the task is of the kind that
names one aspect or of the one that rebuilds nothing, and the part of the
reviewers has all kinds. The button of the tab meets a review made
before, a colleague, and one view of a second record. The system information of
`RecordTasks` begins with all bases and a validator, and what changes is what the
linkers offer, which is what a posted task is compared with.

Deadlock checking is on in the runs of the lock, where time always passes. It is
off in the others because those systems stop: the tasks and sessions are finitely
many and a batch ends, events and requests of the client are bounded.
That they do not stop halfway is what their liveness properties say.

Fairness: `LockServer!FairSpec` lets time pass (strongly, because calls may come
at any moment within a second), live processes go on, and the list be asked for
again; bodies need not end. `TaskLifecycle!FairSpec` is weak fairness of what
runs by itself once begun: handlers, delivery, executions apart from their
bodies, revokes, and the expiry of dead locks. `MarcSectors!FairSpec` is weak
fairness of sessions that have begun and of the database's choice of a victim (in the
run, of its first part only, where two sectors are written). `ApiFairness` says that the refresh, and the health check
after it, is answered or fails (the refresh has no timeout of its own in the code, so
this leans on the browser, which gives a connection up); `WsFairness` that the server accepts or refuses each
socket, the browser reports what became of it, and timers fire; `LiveFairness` that the banner's interval runs
and its requests are answered (only `MaxLosses` of them fail). Nothing is assumed of
users, of the renewal of a token, of the backend's return or of events: `BannerClears` holds though the event is lost. `BatchWrite`,
`RecordReviews` and the pages claim no liveness.

## Proofs

`LockServerProofs`, for any processes, names, waiting times, TTLs and numbers of
kills. The invariant `LockInv` adds to the ownership of the key (`LeaseOwnsKey`, which
says of it also that it has just the lease's time left) that every key has a TTL and
every call under way a name. From it follow type correctness, ownership
(`LeaseOwnership`), that a key with a live owner goes away only by its release, its
kill or the end of its TTL (`OwnershipRespected`), and the refinement of `OneAtATime`
(`LockRefinement`): `Announce` within the lease is `Take`, `Finish` and `Kill` are
`Drop`, a `Tick` that ends leases is `Lapse`, all other steps stutter. Nothing is
proved of bodies that outlive the TTL, which nothing protects.

`TaskLifecycleProofs`, for any set of tasks and number of faults: all safety
properties of the run `tasks`. Exclusion of syncs needs that the body of a sync
is the lock's one user unless it outlived the TTL (`SyncHasLock`, `OneUser`), which needs
that the expiry of a dead user's lock cannot hit a live body, that is, that an
execution which died is over for good (`OrphansAreOver`), which needs that a
message is sent and taken once (`SentOnce`). Outcomes are kept because a final
status comes after every step that writes one (`FinalIsLast`).

`MarcSectorsProofs`, for any records, versions, sector size, writers and readers. Its
first half is about the layout: each byte has a place (`PositionRange`,
`PositionInjective`, `PositionOnto`), so a sector cut where the index says is
the records it was put together from, and putting a session's records into what it
has read gives the image of the records so changed. The invariant `MarcInv`
then says of a sector nobody raced for that it and its index rows are the image of
what is stored (`Tables`), and of a session, that what it is about to commit is the
image of the records it has read with its own put in (`Changes`); this lasts until it
commits because the lock on the sector row lets one session at a time be at work on
it (`OneAtWork`). `CacheSound` needs more than itself (`CacheFits`): that
a reader has so far seen what is committed, unless it met a writer, and that between a
write and its commit nothing is cached but by such a reader or because the
invalidation failed. `CompactionFindsNothing` follows: only
after a lost update has a compaction anything to do.

`BatchWriteProofs`, for any records, versions, intervals and numbers of answers and
faults: all safety properties of the run `batch`. That what is committed is in
order says nothing while the buffer is full, so the invariant is about
what a flush and a commit would make of it: the row of a buffered record is in the
transaction (`BufferedHasRow`), unless `rebuild_all` has committed it (`early`) or
an error rolled it back (`torn`), and a review of bytes about to be replaced is
outdated in the transaction or excused (`ReplacedIsOutdated`). `FaultlessIsExact`
says what is left without a fault.

`RecordReviewsProofs`, for any records, aspects, reviewers and numbers of requests,
tasks and losses: all safety properties of the run about the reviews. They rest on
`RowsKept`: no step removes a row or makes one current again, so what a
request has read can only have become too large, except by an insert; and an insert
tells those whose reading it spoils (`raced`, `old`). From it, a creation that has not
raced has taken all that is current of its aspect (`ScanIsCurrent`), and a refresh
not overtaken has read what is current (`SnapshotIsFresh`). That `AnalyticsFollow` leaves
out what a task has outdated and not refreshed (`Outdated`, then `lagging`) covers the
fetch of a single record, whose success refreshes nothing. `OwnSeen` is
about the record shown; its invariant (`SeenByTab`) is about all that could be shown
without another fetch.

`ApiClientProofs`, for any number of requests and events: the two action properties
of the interceptor. The invariant says that `isRefreshing` and the queue agree with
the requests and one request is the initiator (`RefreshUnderWay`), so that
nobody waits for a refresh that nobody makes (`NobodyWaitsInVain`), and that a repeated
request is not refused again (`RepeatedIsAccepted`). The last holds only while
nobody is leaving: two premises of the properties (`leaving = "none"` in
`RenewableStays`, `~AuthPage` in `FailureNoticed`) came out of the attempt to prove
them, and TLC with larger bounds shows the runs that need them: a second 401 while the
page is being left after a log-out, and the requests of the application behind a
sign-up that succeeds after a log-in.

`LiveUpdatesProofs`, for any number of sockets, cuts, mounts, commits, revocations and
losses, with or without a token. `OneConnection` is inductive with the types; a mounted
page is never stranded because a socket that goes, refused ones included, leaves a
timer, whatever late events of others come (`Reconnects`). After the page is left, an
untracked timer may still connect: the model allows it, and that socket is the one
connection then. `CacheFollows` needs that an answer on its way has the same excuses as
the cache (`FetchFollows`), since it may arrive when the server has moved on; each step
either keeps the excuse of a query or asks for it anew (`StillFollows`). That the outcome
is shown unless another status overtook it (`OutcomeShownUnlessOvertaken`) needs that
only statuses of the API can follow Done through outbox, channel and coalescing
(`DoneIsCommitted`, `DoneIsPublished`, `DoneIsKept`): so the order of dispatch and
publication, or a revocation of a task that has just ended, is the only cause of what
`late_pending` finds.

`ClientPagesProofs`, for any records, filters, fields, results, linkers, roles, forms
and numbers of requests. `FilterShown` needs one value per flag in the URL (`UrlInv`):
two values would share a badge. `MovesByOne` needs that the index is one of the page
shown and the page size one that exists (`PlaceInv`), which every way of entering the
carousel, of paging and of filtering keeps; then, that a page is full unless it is the
last (`RowsOfPage`), so that the first place of a page follows the last of the page
before. `ResultsShownOnce` needs only that results are
numbered and name what their record, as shown or as it was, has (`TableInv`); the work is in the four kinds of
rows. `PostedFits` needs that what is picked was offered, also when it no longer is
(`PickedFits`). `RoleClosed` needs that stored roles are closed too (`RolesInv`), and
that two steps from the direct dependencies reach them all, which follows
from a measure: `Depth` falls along each dependency and is 3 at most. `DraftKept` needs that
what differs from the baseline counts as edited (`SettingsInv`).

Assumptions are the named ones of the modules; those that say more than that bounds are
numbers and names differ are: finitely many records, positive
versions and system numbers that are numbers (`RecordsAssumption`,
`SizesAssumption`); comparators and validators are different tools
(`ReviewsAssumption`); the fields of fixed length are not among the repeated ones
(`TableAssumption`); the page size remembered is one of those offered
(`PageSizesAssumption`); the facets of a flag have the values that `facets.py` gives them
(`LabelsAssumption`); the fields edited are fields of the forms and linkers offered
are not those gone (`SettingsAssumption`). TLC evaluates each on the small
instance.

Only model-checked are the liveness properties (`DeadLockExpires`, `CallAnswered`,
`StaleNameSwept`, `TaskProgresses`, `RevokeStops`, `TableSessionsEnd`,
`RefreshEnds`, `ConnectionReturns`, `BannerClears`: fairness and ENABLED are beyond
the prover) and that the written-out dependencies are the recursions
(`RecursionsAgree`).

## Plan

1. `ProcessRecords`: `process_records`, linking, comparison, validation and
   snapshots over one record, with the session that is cycled in the middle of a
   loaded batch; properties: results of existing links only, unique snapshot
   versions, reviews outdated by changed results.
2. `Analytics`: the cube, and the locks of TRUNCATE in the session of a task.
3. `Filters`: the two compilations of a filter as operators, compared on all
   small records.

## Not modelled

The server's side of authentication, users and settings is single transactions
and calls of libraries, modelled as the client meets it; of OIDC only the button
is there. Reading a settings row that no longer validates deletes it and commits
the caller's session (`entities/settings.py:91`): that needs a change of the
model between releases. The list of connections (`ws/manager.py`), which
`broadcast` walks while connections come and go, and the permissions read when a
socket connects are left out. So are, in the client: charts, the text search,
hover previews, the pages of tasks, maintenance, addition and system information,
the users section, rows of repeated settings fields, progress events, the read marks of
notifications, a second browser tab, and the notes of reviews. Leaving the settings
page, which drops a draft without asking, is outside `SettingsForm`, where lists of
checkboxes are sets: react-hook-form compares arrays in order, so that a box ticked
and unticked may leave its list edited. In `ApiClient` a query of a running backend is
answered or refused for lack of a token; other errors come to the edit request alone,
whose path they share. The SDK is sequential scoring and calls of
remote services; migrations, deployment and demo scripts run once. Within the
other modelled parts: the log handler of tasks, the periodic creators (whose
insert lacks `created_by` and fails), database errors in `__aexit__` and, in
`BatchWrite`, a buffer that reaches `SECTOR_SIZE` between two commits, other writers
of the same bytes, the time between finding, comparing and writing one record (one
step of `Handle`), and the time between the flush and the commit of
`process_records`; in `enqueue_task`, the Failure event of a dispatch that fails.
