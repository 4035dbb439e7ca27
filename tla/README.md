# ReportMate API: TLA+ models, checks and proofs

ReportMate API is a FastAPI service over Postgres. Devices post check-ins to it, dashboards read reports
from it, administrators maintain what is stored. It runs as several replicas, each one process
(`uvicorn --workers 1`, `Dockerfile`), and inside a process as one event loop plus a pool of threads. All
durable state is in Postgres at READ COMMITTED; the caches, the connection pool and the rate limiter live in
each process.

This directory models the parts of it whose correctness depends on the order of things: statements of
concurrent transactions, callbacks of an event loop, threads on a shared dictionary. Source paths below
are relative to `src/`.

## 1. Inventory

| Component | State it keeps | Operations | Hard part |
|---|---|---|---|
| Ingest, `routers/events.py` 779-1614 | `idempotency_keys`, `devices`, ten module tables, `usage_history`, `events`, `device_ingest_state` | `POST /events`: key, device row, modules, usage deltas, OS info, name, sweep, events, watermark | five or more transactions for one request; retries at other replicas; failures rolled back one by one; the process dies |
| Retention purge, `events.py` 41-75 | `events`, `idempotency_keys` | age out keys and events | runs between statements of a check-in |
| Insights cache, `routers/insights.py` | `_entries` (ordered, capped), `_inflight`, a semaphore, the refresher task | ask, refresh, store, evict, done callback, refresh pass, shutdown | callbacks interleave with threads; refresher and requests overlap |
| Card computation, `dashboard_insights.py` | none | reads the database in a thread, one statement for each platform, and merges the parts | fails, or reads early and returns late; the fleet changes between the parts |
| Response cache, `dependencies.py` 100-170 | one `OrderedDict`, no lock | `cache_get`, `cache_set`, `invalidate_caches` | threads interleave between any two dict operations |
| Dashboard lock, `routers/statistics.py` 51-69 | one asyncio lock for each key | look, lock, look again, compute, store | who computes; what a failure leaves locked |
| Device administration, `routers/admin.py` 30-310, 1407-1580 | `devices`, every module table, `events`, `usage_history` | archive, unarchive, delete, survey and delete orphans | a long transaction next to check-ins that hold no lock |
| Usage history maintenance, `admin.py` 315-921 | `usage_history`, `usage_history_archive` | anomalies, integrity, export, reset baseline, cleanup | copy, then delete, by two statements |
| Installs maintenance, `admin.py` 923-1404 | `installs`, `security` | clear errors, reclassify | read, edit in memory, write back |
| Connection pool, `dependencies.py` 1032-1252 | `_pool`, `_pool_url`, connections | build lazily, borrow, return, close | unlocked fast path; blocking borrow on the event loop |
| Ingest failures, `dependencies.py` 594-800, `events.py` 518-690 | `ingest_failures` | record, deduplicate, trim, outcome "retried" | deduplication without a constraint |
| Authentication, `dependencies.py` 283-560, 801-1029, `oidc_auth.py` | key cache | decide by header, role, scope, method | order of the decisions |
| API keys, `routers/api_keys.py` | `api_keys` | issue, rotate, revoke, touch | expiry against cached look-ups |
| Rate limit, `rate_limit.py` | window, counters | count, reject, record | edges of the window, two buckets |
| Inventory state, `routers/inventory_state.py` | `device_inventory_state` | upsert a set of devices, replace everything | overlapping replacing writes |
| Settings, `routers/settings.py` | its table | merge, save | the cache of other replicas |
| Classifiers, pagination: `install_status.py`, `log_tails.py`, `certificate_class.py`, `pagination.py` | none | pure functions | boundaries |
| Fleet reports: `routers/fleet.py`, `system_updates.py`, `security_vulnerabilities.py` and the queries in `sql/devices` | none | lists, pickers, drill-downs, distributions of usage, applications, installs, systems, certificates, updates, CVEs and detections | the same rows are counted by several queries, in Python and in SQL; dates of two clocks |
| Other reports: `routers/devices.py`, `statistics.py`, `system_services.py`, hardware, network, identity and management | none | one query each, fields copied | none that another reading has to agree with |
| Start-up, migrations, health, metrics, ETag, SQL loader | process start | sequential | none that TLC helps with |

How they interact. Ingest and the admin requests meet only in the database: nothing else orders them. A
write of an administrator commits and then clears the response cache of its own process; ingest clears
nothing, and what it wrote becomes visible as entries expire. The refresher, the requests for cards and the
threads meet in the insights cache. The failures view compares the time of a rejection with the watermark
that ingest moves. Reports and cards meet check-ins in the module rows, and inventory writes in the states
that excuse a stored device.

### What makes each component correct

- **Ingest.** Usage deltas, which accumulate and cannot be computed again, are added once however often a
  submission arrives. An accepted check-in is stored, but for the deltas of first rows that race. A reported result is taken away only together with its
  replacement. The watermark never moves back. Requests end.
- **Insights cache.** One computation for each key on behalf of callers; values never get older; room is
  made only when it is needed; callers are answered, and every default card has its turn.
- **Response cache.** An entry older than an administrator's write comes only from a request that was already
  past its query; the cap holds; one dashboard computation for each key; answers catch up.
- **Usage history maintenance.** What a reset takes from the live table is archived, once; an export is complete
  although rows come and go under it.
- **Installs maintenance.** The counters of a row agree with its payload. A cleanup of silent devices spares what
  live ones report; a cleanup of all leaves nothing to clean; a reclassify leaves every row as the classifier says.
- **The door.** What a device was refused for is on record once, however often it repeats it and whichever replica
  it meets, unless newer records push it out; a dropped upload that was sent again is shown as retried and stays so;
  nobody is throttled before the limit of the minute, nor let in beyond it.
- **Inventory state.** A write that replaces leaves its own devices and those others committed meanwhile.
- **Reports.** What one reading counts, the other shows: a row of a report and its drill-down, a picker and the
  list it filters, a card and the report its link opens. A device that is switched off is not accused of
  anything, and nothing is proved of it, by the days that pass.
- **Device administration.** A deletion nobody raced is complete; rows without a device need a race; no
  half of a deletion is ever visible.

## 2. Modules

| Module | Contents |
|---|---|
| `UsageLedger` | abstract: claims and bookings of submissions, no database in sight |
| `Ingest` | the write path of `POST /events` and the retention purge; `Ledger` is the refinement mapping to `UsageLedger` |
| `InsightsCache` | cache, single flight, semaphore, callers, refresher |
| `ResponseCache` | the shared dictionary statement by statement, the dashboard lock, writers |
| `DeviceAdmin` | archive, unarchive, delete, orphan cleanup, next to reduced check-ins |
| `UsageHistory` | baseline reset, retention cleanup and export of `usage_history`, next to check-ins that add deltas |
| `InstallStatus` | pure: the state of a managed item, the problems counted, what the cleanup blanks |
| `InstallsMaintenance` | clear-errors and reclassify on installs rows, next to check-ins that store them |
| `Access` | pure: the credentials of a request in the order they are tried, the scopes they give, the gate behind them |
| `CheckIn` | pure: the checks on the body of a check-in, in their order, and what is recorded of the first that fails |
| `FrontDoor` | rate limit, `Access` and `CheckIn` at several replicas, and the table of rejections they write; composes the two |
| `InventoryState` | the write of inventory states as a transaction that locks row by row |
| `CertificateClass` | pure: which certificates somebody has to renew |
| `Fleet` | what the reports read: devices, their module rows, archiving, deletion, days, and `InventoryState` beside them |
| `UsageReports`, `AppInventory`, `InstallReports`, `SystemReports`, `SecurityReports`, `UpdateReports`, `VulnerabilityReports` | the reports, pickers and drill-downs over the rows of `Fleet`, as operators |
| `InsightCards` | a card, computed part by part while the fleet changes |
| `Reports` | composes all of these, and says what must add up |
| `MC*` | values for TLC: model values, payloads, symmetry |
| `*Proofs` | theorems, each module extending the one it is about and TLAPS |

Definitions called `Name_Something` right before `Name`, commented "Mutation", are plausible bugs in the
code that `Name` stands for. They are not part of any specification: each shows that some property would
notice.

### Ingest

A *worker* is one process. `submit_events` awaits nothing that suspends once the body is read (the push to
the web socket hub is an `async def` without an `await` in it, `dependencies.py` 1720-1731), so a process
handles one check-in at a time and concurrency is between replicas. Each stage of `pc` is a statement group
between two commits, in the order of the handler:

| Action | Code in `routers/events.py` |
|---|---|
| `Deliver` | a client, or a proxy, sends a submission again |
| `ClaimKey`, `AnswerDuplicate` | the insert into `idempotency_keys`, 996-1014; a key another open transaction inserted is waited for |
| `LookupDevice`, `UpdateDevice`, `InsertDevice`, `InsertConflict` | the device row, committed together with the key, 1016-1056 |
| `LookModule`, `StoreModule`, `InsertOutrun`, `ModuleFails` | one iteration of the module loop: the look for a row (1111-1115), the write that follows (1116-1160), the insert that finds one there (1140, 1333-1336), any other failure; each commits or rolls back by itself |
| `BookUsage`, `UsageFails` | the usage deltas of the applications module |
| `StoreOsInfo`, `StoreName` and their failures | updates of the device row |
| `Sweep`, `SkipEvent`, `StoreEvent`, `EventFails`, `Finish`, `FallbackFails` | the last transaction, 1402-1590 |
| `Stop` | the process dies, or an exception nothing catches |
| `Purge` | lines 41-75 |

What an open transaction has written and not committed is in `swept`, `added` and, for the key, `HoldsKey`;
it is gone when the worker stops. Payloads are records that keep what the handler branches on: which modules
they carry, whether there are usage rows, where a name is found, and for each event its type, module and
whether storing it raises. The validation before the handler opens a connection (806-981) is not modelled:
a submission is one that passed it. `claims`, `landed`, `duplicates`, `outrun` and `seen` are remembered for the
properties only. `outrun` are the check-ins whose first row of applications another replica had inserted after both
looked and found none: the insert meets the unique `device_id`, is rolled back, and the deltas that follow it in the
same block are not booked, although the check-in is accepted. A key is dropped by `Purge` only when no request with it is under way: keys live seven days,
requests minutes.

### InsightsCache

Everything between two `await`s is one action. A computation is split where the thread reads the database
(`Read`) and where the loop receives the result (`Complete`): the version read is older by then. `Finished`
is the done callback and the wake-up of those who wait. The refresher (`TakeTurn`, `RefresherRead`,
`RefresherStore`) uses neither the semaphore nor `_inflight` for what it computes itself, as in the code; it goes over
`DefaultKeys` in order, and a key that fails (`RefresherFails`) or that somebody else computes does not end the pass.

### ResponseCache

Each dict operation of `cache_get` and `cache_set` is an action of a thread, since the interpreter may
switch threads between any two. `Spoil` marks scans that will raise because the order changed under them.
Entries carry the database version they were computed from. `Commit` and `Invalidate` are the two halves of
an administrator's write; `Ingest` is a commit that clears nothing. Keys in `Shared` are computed under the
dashboard lock.

### DeviceAdmin

One device, its rows by store: one for each module table, one for events, one for usage. Check-ins are
`Ingest` reduced to which stores they leave rows in, but split where a row is looked up and where it is
written, because a deletion fits in between. A deletion keeps what it deleted in `gone` until its commit and
makes others that write those rows wait. Tables a deployment lacks (`Missing`) raise, as they do in the code. A failing
statement is two things there: a DELETE from a module table, and the one from events in the orphan cleanup, are in a
block of their own, which rolls back and goes on (`DeleteTableFails`, `OrphanEventsFail`); usage, events of a deletion,
and the device row are not (`Unguarded`), and the request answers 500 without a commit (`RequestFails`). `raced` is
remembered: a deletion has met a check-in, or a statement of it has failed and the rest went on.

### UsageHistory

A row is the set of the deltas it has accumulated, since what matters is what becomes of each delta; numbers,
ceilings and the archive's columns are abstracted. A reset is three steps of a transaction on a connection of its
own: `BeginReset` (the counting statements), `Copy` (`INSERT ... SELECT`), `Delete`, and then `Commit`, or
`Refuse` where the two row counts differ, or `Fail`. What it has copied and deleted is private (`copy`, `gone`)
until `Commit`; rows in `gone` make other writers wait (`Locked`). `Copy` locks nothing, as in the code. The
export is its batches: rows are numbered in the order of the export, `NextBatch` resumes past the last one
sent. `booked`, `discarded`, `late` and `through` are remembered for the properties. Migration 0004 (14-17) says that a
reset "re-run over an overlapping range" may archive a row twice. A later one does not, since the first has deleted what
it archived; two at once do, when a check-in adds to a row between them, and `CountedOnce` says that only then
(`late`) they do.

### InstallsMaintenance

A row is a payload and its counters. Payloads keep what `classify_item`, `install_issue_counts` and the cleanup
branch on (`InstallStatus`); status texts are a set large enough to tell the ladder, which reads spaces,
hyphens and underscores as one, from the patterns of the cleanup, which do not. A request reads
(`BeginClear`, `ListItems`, `ReadBatch`), computes what to write at once and keeps it in `aged` and `plan`; each
`Update` is one UPDATE statement of an open transaction, which waits for rows other transactions have written;
`Commit` and `Fail` end it. Writes carry the payload that was read, so a `Store` between reading and writing is
overwritten, as in the code. `Store` leaves the counters alone where the payload is the one stored (the fast
path, `events.py` 1118-1134). `overtaken`, `blurred` and `doubtful` are remembered for the properties and say where
the code promises nothing: rows reported while an older payload was about to be written back, or since wiped by a cleanup of the whole
fleet, rows others changed under a request, and rows whose counters were computed from a payload that is no longer there.
A check-in that a request overwrites is such a case: the models make the step, and no property forbids it. `limit` of
reclassify, which ends a rehearsal after so many rows (`admin.py` 1220, 1254-1257), is not modelled.

### FrontDoor, Access, CheckIn

`Identify` goes through the credentials in the order of `verify_authentication`: internal secret, principal header,
API key, bearer, passphrase; a header that fails may end the request or fall through, as in the code. `Authorize`
is the scope gate. Hashes, signatures and the JWKS cache are whether they accept (`KeyStanding`,
`TokenStanding`). `ReadingChecks` and `ContentChecks` are the two lists of checks of the handler, and
`RecordedOf` is the row the first failing one leaves.

A replica is one event loop, and gives it up only where a request waits for its body (`Arrive`, `BodyArrives`): what
follows is synchronous, so a replica has one `job`, and only replicas race. Recording a rejection is `Insert`
(the guarded INSERT: `Repeats` is its NOT EXISTS, over committed rows), `Trim` (one write in fifty in the code,
any here), `Commit` or `RecordFails`. `BeginStore` and `Store` are what an accepted check-in leaves here, the time of the
watermark. `NOW()` is the start of a transaction, so a row's `at` may be older than rows committed before
it. `Outcome` is the failures view. `Restart` empties a replica's buckets. `done` and `seen` are
remembered for the properties. A behaviour begins at the instant `Start`, with rows an earlier life of the service
may have left (`Left`), and at most `MaxWaiting` bodies are awaited at a time: what a run needs to reach retention
and the turn of a minute in few steps.

### Fleet, the reports and the cards

A behaviour is about the rows of one module, its `topic`, since no report here joins two that change: the union
of small models, not their product. `CheckIn`, `CheckInWithout` (the module missing from the check-in), `Archive`,
`Unarchive`, `Delete` and `Midnight` change the rows; `WriteStep` is one statement of an inventory write. `Older` are
rows that earlier versions of the API have left. `devices.platform`, which every check-in overwrites, and the
OS name inside the module are two things, because the readers differ in which they take.

A report is an operator over this state, named after the endpoint or the function that computes it. Names of
applications keep what folding does to them: a base, a tail of version, architecture and ".app", case, and the blanks
around them. Items keep both their names, and that blanks were around one; severities and vendors keep case, and the
commas a question is split at. Days are numbers; so is a user and the name of a certificate, for the order
answers are cut by. A certificate's name stands for the pair of name and issuer that `certificates_soonest.sql` groups by, and
launches stand for the seconds users are ordered by. JSON fields that may be missing have values of their own (`NoText`, `NoDay`, `NoList`,
`Unset`, ...). Sorting and LIMIT are kept where an
answer depends on them (`Leading`): 200 users of the query and 50 of the answer (`UserRows`, `UserLimit`), the rows of a
certificate search, the first names of the Certificates card and the parts of a card, `deviceLimit` of applications.

`InventoryState`: `UpsertState` waits for rows another transaction holds; `LookForOthers` is the moment the DELETE
takes its snapshot, `ClearOthers` the moment it has all the rows; `beside` is remembered for the property.

`InsightCards`: `AskCard` fixes the question, with the day, as `NOW()` is fixed for the transaction; each `RunPart` is one
statement at READ COMMITTED, for one platform, and the parts are merged by `MergeRows`. `touched` remembers which devices
changed since the card was asked for.

## 3. Runs

| Run | Question | Bounds |
|---|---|---|
| `Ingest_checkins` | safety and refinement: a failing run with usage deltas, and the quiet run after it | 2 processes, 2 submissions of one device twice each, 1 fault, 1 purge |
| `Ingest_ends` | every request ends; an unkeyed check-in is accepted | 3 + 2 deliveries, 1 fault |
| `Ingest_lost` | *violation*: "duplicate" means processed | as above, no purge |
| `Ingest_badevent` | *violation*: a quiet run clears the error before it | 1 process |
| `InsightsCache_flight` | single flight, values do not age, no entry goes needlessly, callers are answered, every refreshed card has its turn though others fail | 1 caller that asks, leaves and asks again, 2 keys, 2 tasks, 1 permit, the refresher over both keys, 1 change |
| `ResponseCache_answers` | cap, staleness, one dashboard computation, answers catch up, the lock is given back | 2 threads, 2 keys of which 1 locked, cache for 1, 1 write |
| `UsageHistory_upkeep` | nothing lost but late deltas, nothing counted twice, complete exports | 2 admins, 2 resets, 3 rows on 2 days of 2 devices, 4 deltas, 1 removal, 1 export in batches of 1 |
| `UsageHistory_recover` | *violation*: a reset is recoverable | 1 reset |
| `InstallsMaintenance_upkeep` | counters follow payloads, live failures stay, cleanup and reclassify settle | 2 admins, 2 requests, 2 rows, 2 check-ins, 4 payloads, batches of 1 |
| `DeviceAdmin_races` | completeness, orphans, atomicity | 2 check-ins, 2 admin requests, 2 tables, 1 fault |
| `FrontDoor_races` | rejections collapse but stay on record, the table is trimmed from its old end, retried stays retried, the limit is exact | 2 replicas, a device with good headers and one with none, 1 router, instants 2 to 5 in minutes of 3, retention 3, dedup window 2, room for 1 row and 1 left from before, 1 body awaited at a time |
| `Reports_fleet` | what reports, pickers, drill-downs and cards count is what the others show; days prove nothing; a replacing write clears | 2 devices and a test device, 2 to 6 documents a device and topic, up to 3 days, 3 inventory writes by 2 writers, cards over 1 platform or 3 parts |

Why these bounds are enough to meet the interesting cases. Ingest: a duplicate needs two deliveries; a
duplicate that races needs two processes; out-of-order runs need two submissions with different times; a
fault at every statement is one fault at a time, and the purge makes a key claimable again. Insights: an old
callback meeting a new task needs two tasks; overtaking needs one change of the data; a card that fails ahead of another needs two keys to refresh; waiting for a permit
needs fewer permits than tasks. Response cache: spoiling a scan, evicting somebody else's entry and storing
late need two threads and one entry too many. Administration: a deletion that meets a check-in that meets
another deletion needs two of each. The door: a repetition that races needs two replicas and one device, trimming needs a row more
than there is room for, the turn of the minute needs instants on both sides of it. Reports: names that fold
into each other on different devices need two, a pick that fits no case a third spelling, the age of an agent one check-in
before and one after a midnight, a card that is overtaken one change between its parts; the test device is
what must be left out everywhere. Two writers are enough for a row to be held against each other, three writes for a
replacing one to meet two others. Usage history: two resets, each copying before the other deletes, is what the counts are
there for; a row with two deltas can change under a copy, and batches of one row put a removal between any two.
Installs: two requests are what can write back over one another, two rows in batches of one make a batch resume,
a check-in between read and write is one, and its repetition meets the fast path; the payloads differ in what
cleanup and ladder make of them, and the first row has counters that an earlier release left wrong.
`CHECK_DEADLOCK` is off in this run, where requests and check-ins are bounded and need not come, and in
`Reports_fleet`, where the topic of inventory writes alone stops at their bound. Where a cfg gives `SYMMETRY`, the permuted values occur in no
definition of the module and in no liveness property of that run.

### Fairness

`FairSpec` of `Ingest` has weak fairness on each worker's progress: a handler waits on nothing but the
database, whose statements have a timeout, and on a key held by another worker that itself makes progress.
`RetrySpec` adds that a client delivers again until the submission landed, which is what makes "accepted in
the end" meaningful; failures are not fair, and there are finitely many. `FairSpec` of `InsightsCache`: the
event loop reaches each ready callback, and threads end because their statements time out. Callers need not
stay, and need not come. `FairSpec` of `ResponseCache`: threads run on, entries expire and an administrator's
request finishes; nothing is assumed of who gets the dashboard lock. `FrontDoor` and `Reports` have safety
properties only and state no fairness. No run assumes that something fails or does not.

### What the violations show

- `Ingest_lost`: the key commits with the device row (`events.py` 1052), not with the submission as the
  comment at 994-995 says. A process that dies after it leaves a key without modules, deltas or events, and
  the retry is acknowledged as a duplicate.
- `Ingest_badevent`: an event that cannot be stored rolls back the sweep of the same transaction (1511): the
  stale error the comment at 1408-1410 is about stays, in a check-in that is accepted.
- `UsageHistory_recover`: a check-in that adds to a copied row before the delete runs loses its delta with the row
  (`admin.py` 828, 844), and the counts that are compared agree. `KeptSomewhere` says that nothing else is lost.

Seen while modelling, built into the models as the code has it, and without a run of its own: a run that
arrives late leaves its events next to those of the later run (`events.py` 1424, only older rows are
swept); the refresher does not register its computations, so a request may double them (`insights.py` 173);
a failing DELETE rolls back the deletes before it, and the device row goes all the same (`admin.py` 266); two first check-ins of a module at two replicas leave one of them without it (`events.py` 1140, 1333), and the usage
deltas in it lost (`AcceptedIsStored` says how many); a
missing table makes the deletion answer 500 while the rows are counted (240), although the delete loop
allows for it; a check-in that was past the device row when it was deleted leaves orphans (262); ingest
does not ask whether a device is archived (`events.py` 1017); a request between its query and `cache_set` brings
the old answer back after `invalidate_caches`, whose docstring promises visibility on the next read
(`dependencies.py` 162-169: `StaleOnlyFromRacers` and `AnswersCatchUp` say how far this goes). Which ids are orphans
is decided by one statement and used by later ones (`admin.py` 1536, 1553): a device that registers in between loses
its rows, although naming a live device is to delete nothing (1511-1512). The patterns of clear-errors read
"needs-attention" but not "Needs Attention" (`install_status.py` 101), which `admin.py` 929-931 names as cleared; nor do
they find "Not Installed", an error known from the last attempt only, or Cimian's problems of a run: these stay
counted after a cleanup, and so do packages that failed in the run log (`install_status.py` 251). clear-errors leaves
the stamped states as they were until the next check-in or reclassify. A check-in that arrives between the read
and the write of either request is overwritten by what was read (`admin.py` 1178, 1289), and counters rewritten alone
(1158) may be those of an older payload; the fast path of ingest then keeps them until the payload changes.

At the door. The deduplication of failures (`dependencies.py` 692) compares with every row of the device, so an
upload dropped after the device was accepted may collapse into a row that already shows as retried, although
`events.py` 527-529 says a row is retried because that submission came again. An API key that fails next to a valid bearer ends the
request, while a bearer that fails next to a valid passphrase does not. A failing key look-up answers 401 as if the
key were wrong. A payload with NUL characters is recorded as accepted although the checks after it may still refuse
it. The identity of a refused request is read from a body that was not inflated.

Inventory. A replacing body of blank serials clears every state. Two replacing writes at a time leave a union that
neither sent, which is why `ReplaceClears` speaks of rows committed beside it.

Reports, where the readings differ by what the code says and the properties leave a margin:

- Folding a name once more may fold it further ("7-Zip 19.00 (x64)", then "7-Zip 19.00", then "7-Zip"), so opening such
  a row shows others than it counted, against `fleet.py` 996-1009; rows tell case apart and drill-downs do not; the
  docstring at 974 speaks of substrings, the code of whole names.
- The usage report filters by `devices.platform`, lists and distributions by the OS name first, and the update card
  counts `devices` by the one and pending updates by the other.
- The list of applications reads at most `deviceLimit` devices before it filters, its distribution reads all.
- A card calls an agent silent after more than seven days, the report calls it stale from one day on, though
  `dashboard_insights.py` 642-644 says "by the same reading".
- `installs/filters` judges an item by its status texts (`fleet.py` 2208-2224) and never reads the stored state, which
  `events.py` 1085-1088 calls the single answer all read.
- In the system list the number of deferred updates is set only for a document with fields (3502-3513): an empty one shows
  that of the device before it, or, when it is the first, its row is dropped.
- "They partition the fleet, so device counts from the parts add up" (`dashboard_insights.py` 221-222) holds for devices
  that do not change their platform between two statements (`CardCountsOnce`).
- The search for certificates rounds days down and so lists some a day longer as expiring than card and report, and lists
  a certificate under each class that one of its views has. The classification back-fill (`admin.py` 1325-1405) writes
  back what it read, over a check-in in between.
- A search for updates that a device dates ahead is no evidence until that day comes, and then is fresh.
- Between the two commits of a check-in a report sees the new `last_seen` beside the old module row: a device that comes
  back is listed stale for that moment.
- The usage report names its users from the first 200 rows of a query by time used, of which service accounts take theirs,
  and shows 50 (`fleet.py` 824-832): `UsageAddsUp` says whom it may leave out. Its App Usage card has no archived devices.
- The list calls an application without a name "Unknown Application" and finds it by that, the distribution and the filters do
  not (1525, 1776); the distribution takes the blanks off a version, the list does not (1518); installs beside usage take a ".app"
  off (358), the list finds a name by any part of it.
- `installs/filters` leaves out "managed_apps" and "managed_profiles" of Cimian's, before it takes blanks off, and calls an item
  without a name by its display name (2167-2168); the list does neither for Cimian (2491), the second only for Munki (2516).
- Severities and vendors are lowercased and split at commas when a list of them is asked for (`system_services.py` 53), and
  counted by the pickers as they are spelled (`security_vulnerabilities.py` 514, 678): picking one of two spellings shows both, and
  picking one with a comma in it asks for its parts, so a row of that vendor is not found.
- A certificate search answers `limit` rows by serial and name without saying that there are more (`security_certificates.sql`
  102-103), and has no offset; the card's list has `TOP_N` names and none for a certificate without a readable one.
- Counters on an installs row add the failures of a run that no item accounts for (`install_status.py` 568-585), which no list of
  items can show: `InstallCounts` has them, and the comparison is made by items (`FailingAreListed`).
- The picker of CVEs counts each spelling of an update that has no CVE apart; picking any of them shows all.
- An update with neither KB nor title has rows, and picking one of its CVEs shows it, but `build_update_options`
  skips it with its CVEs: the picker counts the updates that have a name (`Known`).
- Test devices: some queries leave out `TEST-` but not `localhost`, the dashboard's neither.
- `list_devices.sql` orders by `last_seen` alone, so devices with equal times may appear on two pages or on none.

## 4. Proofs

Everything below is checked by TLAPS for every value of the constants that satisfies the modules' named
assumptions.

| Theorem | States |
|---|---|
| `IngestProofs!TypeCorrect` | type correctness |
| `IngestProofs!UsageOnce` | `UsageAtMostOnce` |
| `IngestProofs!WatermarkNeverBack` | `WatermarkMonotone` |
| `IngestProofs!LedgerRefined` | `Ingest` implements `UsageLedger` |
| `IngestProofs!NothingAcceptedIsMissing` | `AcceptedIsStored` |
| `IngestProofs!GoneOnlyWhenReplaced` | `RemovedByAcceptance` |
| `IngestProofs!AcceptedRunClears` | `RunSuperseded`, when every event can be stored |
| `InsightsCacheProofs!TypeCorrect` | type correctness |
| `InsightsCacheProofs!SharedComputation` | `SingleFlight` |
| `InsightsCacheProofs!ValuesNeverAge` | `NeverOlder` |
| `InsightsCacheProofs!NoRoomWasted` | `RoomIsUsed` |
| `ResponseCacheProofs!TypeCorrect` | type correctness |
| `ResponseCacheProofs!OnlyRacersAreStale` | `StaleOnlyFromRacers` |
| `ResponseCacheProofs!SharedComputedOnce` | `OneComputation` |
| `ResponseCacheProofs!CapIsHeld` | `CapHeld` |
| `UsageHistoryProofs!TypeCorrect` | type correctness |
| `UsageHistoryProofs!NothingLostButLate` | `KeptSomewhere` |
| `UsageHistoryProofs!NothingCountedTwice` | `CountedOnce` |
| `UsageHistoryProofs!ExportsEverything` | `ExportComplete` |
| `InstallsMaintenanceProofs!TypeCorrect` | type correctness |
| `InstallsMaintenanceProofs!CountersFollowPayloads` | `CountersFollow` |
| `InstallsMaintenanceProofs!RecentFailuresSurvive` | `LiveFailuresStay` |
| `InstallsMaintenanceProofs!ClearingSettles` | `ClearSettles` |
| `InstallsMaintenanceProofs!ReclassifyingSettles` | `ReclassifySettles` |
| `DeviceAdminProofs!TypeCorrect` | type correctness |
| `DeviceAdminProofs!OrphansNeedARace` | `OrphansOnlyByRace` |
| `DeviceAdminProofs!NoHalfDeletion` | `RowsGoWithTheDevice` |
| `DeviceAdminProofs!NothingLeftBehind` | `DeletionIsComplete` |
| `FrontDoorProofs!TypeCorrect` | type correctness |
| `FrontDoorProofs!RepeatsCollapse` | `OnlyRacersTwice` |
| `FrontDoorProofs!TrimmedFromTheEnd` | `NewestSurvive` |
| `FrontDoorProofs!NoRejectionLost` | `RejectionLeavesARow` |
| `FrontDoorProofs!RetriedStays` | `NeverRejectedAgain` |
| `FrontDoorProofs!LimitIsExact` | `FairLimit` |
| `ReportsProofs!TypeCorrect` | type correctness of the fleet under the reports |
| `ReportsProofs!ReplacingClears` | `ReplaceClears` |
| `ReportsProofs!RowsAreHeldByOne` | no two open inventory writes hold the same row |
| `ReportsProofs!TimeProvesNothing` | `SilenceProvesNothing` |
| `ReportsProofs!CardsCountOnce` | `CardCountsOnce` |
| `ReportsProofs!CardsAreListed` | `CardsCountTheirReports` |
| `ReportsProofs!UsageIsListed` | `UsageAddsUp` |
| `ReportsProofs!ListsAreTrue` | `ListsAddUp`, from the next four |
| `ReportsProofs!AppsAreListed` | the lists, distribution and filters of applications |
| `ReportsProofs!InstallsAreListed` | the list and filters of installs |
| `ReportsProofs!UpdatesAreListed` | the report and picker of updates |
| `ReportsProofs!VulnerabilitiesAreListed` | the reports and pickers of CVEs and detections |

The assumptions are named in the modules. Besides types and bounds they say: values that stand for "nothing" are no
value (`NoneAssumption`, `NoRowAssumption`, `NotARowAssumption`, `AbsentAssumption`); the pool of threads is finite, as
`run_in_threadpool` uses one with a limit (`ThreadsAssumption`), and so are the processes (`WorkersAssumption`), the items of a payload
(`NamesAssumption`) and the rows of a table (`RowsAssumption`, by which the row an earlier release left is one of them).
For the reports: devices, their items, certificates and spellings are finite in number (`FinitelyMany`); dates are numbers,
as the columns are timestamps (`DatesAssumption`, `RunsAssumption`); a query reads its own module
(`QueriesAssumption`); a stored document is not the mark of a missing row (`StoredAssumption`); computers are among the
accounts that are no people, limits are numbers, and what stands for a name that is not there is one of the numbers names are (`UsersAssumption`,
`SearchAssumption`); a platform is one of three, as the query that lists them says
(`PlatformsAssumption`); a system document has lists and lengths of updates and a number of days up (`SystemAssumption`, also that
the rows of the list come in some order of the devices, each once); and the views of one certificate in a document agree on when it
expires, as they are one certificate seen in several stores (`CertificatesAssumption`). A question has the fields its endpoint
has parameters for, and the limit of devices is a number (`QuestionsAssumption`); the applications of a device come in a sequence
(`AppsAssumption`), and so do updates, each of which is something; a pending update of a Mac has no KB and no CVEs, which is
how `macos_pending` builds it (`UpdatesAssumption`); the usage of a device is finite, its days are numbers and a name has its three
parts (`UsageAssumption`). How items, versions, certificates
and days are classified is not assumed.

The arguments:

- **Ingest** (`IInv`). That deltas are booked at most once for each claim is not inductive: a worker at `usage`
  is about to book. The invariant says who works on a keyed submission. At most one worker is past the claim
  (`OneClaimant`): before the commit of the device row the key is held and not in the table (`HolderUncommitted`),
  after it the key is there (`ClaimCommitted`) and `Purge` does not drop it while the request runs. Until that
  worker has passed the usage rows a claim is left to book against (`ClaimLeft`). The refinement follows: the
  commit of the device row is `Claim`, the commit of the deltas `Book`, the purge `Forget`, all else a stutter.
  The watermark needs types and that `GREATEST` is no less than either argument. What an accepted check-in has
  stored (`StoredInv`) is what each stage of the handler has behind it, module by module, as long as nothing failed; a worker
  whose insert of a first row is outrun has that row behind it all the same, the other's. no
  step takes a device row, a module row or a booking back, so it is still there at the end. How many deltas the race for a
  first row loses is a count (`OutrunInv`): once the row is there, those outrun and those still waiting to insert looked before it
  was, each at a worker of its own, and the worker that inserted it is none of these. For event rows
  (`RowsInv`) every open transaction has a time of its own that its rows bear: no row that is there, or that a worker has
  seen, can come back with somebody else's commit, and what is swept is the device's and no newer. `RunSuperseded` then needs
  that the sweep took all it supersedes of what it saw (`SweepInv`), which an event that cannot be stored undoes: hence
  the hypothesis `EventsCanBeStored`, a statement about payloads which the payloads of `Ingest_badevent` do not satisfy and
  those of `Ingest_checkins` do.
- **InsightsCache** (`FlightInv`, `AgeInv`). `SingleFlight` is inductive with the types of the tasks and with "what
  is under way has a key". `NeverOlder` needs that no value is newer than the data (`NoFuture`), that a result
  which was read and not stored is at least as new as the value it will replace (`ReadInTime`, `RefreshInTime`),
  and that a key which the refresher computes has no other computation (`Apart`), each of these but for the keys in
  `doubled`. Two computations of callers never meet on a key by `SingleFlight`. The order of eviction is within the limit
  (`RoomInv`); storing gives up at most one old place and takes one. Types need that permits are conserved
  (`PermitsAccounted`: free permits and working threads add up to `Concurrency`) and that a queued task is in the queue
  (`InLine`).
- **ResponseCache** (`StaleInv`). A thread about to insert an answer older than `cleared` is marked late
  (`CarriersAreLate`): a query after the clearing reads a version no older than `cleared` (`NotAhead`). Whoever is
  between query and store of a shared key holds its lock (`LockInv`). The cap is not inductive as it stands, because
  evicting before storing leaves no trace: each entry over it is owed to a write under way (`CapInv`). A write that has
  moved its key to the end answers for one entry until it leaves, one that has inserted it answers for the key,
  once for all who insert the same (`OnePlaceEach`, `Accounted`).
- **DeviceAdmin** (`RaceInv`). While nothing raced: no check-in runs next to a request that deletes (`Alone`); such a
  request has in `gone` the rows of every store it has passed, and at its commit all rows there are (`Taken`);
  and without a device row there are no rows and no check-in that found one (`Vacant`). For completeness (`HoldInv`): no
  check-in is under way beside a request that is not mixed, so nothing returns to a store it has been through
  (`Apart`), and if none of its statements failed it holds the rows of all those stores (`Gathered`).
- **UsageHistory** (`UInv`). What a reset deletes it has copied, late deltas apart (`Covered`), and what is there of
  what it copied it deletes (`Reached`); no two resets hold a row (`Exclusive`). With nothing late, copies are what
  they are copies of (`Verbatim`), so the deleted rows are among the copied ones, and equal counts of finite sets
  make them the same (`NothingLeftOut`): that is why comparing two numbers is enough against overlapping resets.
  An export (`ExportInv`) has sent, of the rows watched, exactly those up to the last one sent (`SentSoFar`): a batch
  holds the rows next to it, so that a short one leaves none (`NoneLeft`).
- **InstallsMaintenance** (`CountInv`). A planned write carries the counters of the payload it was planned with
  (`PlansCounted`), so what a transaction has written is right unless it wrote counters over another payload
  (`PendingCounted`), and then the row becomes doubtful with the commit. How problems are counted is never expanded:
  the theorem holds for any classifier. The others look into payloads, by lemmas on what stamping and clearing do:
  stamping twice is stamping once, a cleared payload has nothing to clear, either leaves an item that was tried
  recently alone. `LiveInv`: in the row of a live device, what a request for silent devices is about to write, or has
  written, is the *same* as the payload there but for old items, unless the row was overtaken; commits of one such
  request keep it for the next since being the same is transitive. `SettleInv`: of a row nobody else changed, a
  cleanup of the fleet has exactly one write left that clears it, or wrote it, or had nothing to do (`ClearRow`), and
  every row up to the last that reclassify has read agrees with the classifier or is about to (`StampRow`). That
  no row is skipped between batches is `LastOfBatch`: a batch of the first rows that are left holds all up to its last.
  `LiveFailuresStay` was false as first stated, with more requests than the run had: a reclassify that read before a
  cleanup of the whole fleet brings back what it cleared, and a later, narrower cleanup, that had read in between,
  clears it again. Rows such a cleanup has written are now overtaken until the next check-in; TLC agrees for four
  requests of three administrators.
- **FrontDoor** (`IInv`). A replica's counts are those of the requests seen in the current minute (`Counting`), from which
  the limit follows. An open transaction has at most one row of its own, which bears its time and which nobody else has
  (`Recording`, `Private`), and ids and times run alike (`Ordered`). Two rows of one failure within the window are racers:
  when the second began the first was not committed (`Raced`). A row to be trimmed is old, or enough newer ones stay
  (`TrimsSoundly`); transactions trim at a time, but none deletes a row that makes another's choice wrong, as both delete
  from the old end. A rejection that was collapsed has its row committed, or the table is full of recent ones, or time has
  moved past its window (`Collapsed`).
- **Reports** (`WritesInv`, `Documents`). From the moment the DELETE of a replacing write has looked, every state there is
  is in its body, was committed beside it, or is one it is about to delete (`Accounted`), and it has written rows of
  its body only (`OwnRows`). A write takes a row only when it is free, so rows have one holder (`OneHolder`). For the days:
  only `Midnight` moves them; the age of an agent is a difference of two stored dates, and what is fresh tomorrow is
  fresh today unless it is dated ahead (`FreshBefore`), for which dates have to be numbers (`DatesAssumption`, carried to
  the rows by `Documents`).
  Sums are folds over finite sets, and a recursive definition cannot be reasoned about by induction here. Instead a
  statement on the subsets of a finite set that fails fails for a smallest one (`LeastNatural`, from the well-foundedness of
  the naturals), so any function of sets that grows with each element by its weight is the sum (`SumIs`). With it `CardsInv`
  carries a card from statement to statement: what the parts so far count of a row is what the devices that have it in
  these platforms are, for every device that nothing touched since the card began (`TableAdds`, `TableOwns`). A device that
  changed its platform between two statements is touched, which is why the invariant speaks of the others. That a card
  counts what its report lists is no matter of steps: it follows from `Documents`, card by card. The hard ones: the list of updates
  reuses the loop variable of the row before, and shows the card's devices because no row that is full reads it
  (`FullRows`); and the card folds the views of a certificate after it has chosen the class, the report before, and the
  search after class and status: they agree because the views agree on the expiry (`FoldedAlike`, `SearchesAddUp`).
  The lists likewise follow from `Documents`, report by report. Each begins with what a row is, said as a membership
  (`RowsAre`, `CveRowsAre`, `InstallRowsAre`, `AppListIs`): the row of an update comes from the pending ones, from the installed ones
  when one was picked, or says that there is none. A picker's counts and the picked rows are then the same devices since an
  update's key is the same wherever it is seen (`OneKeyOneName`) and a question with one field changed changes no other
  (`NarrowedRows`). The list of applications is put together from sequences of sequences; what that yields is proved
  by a smallest prefix that is wrong (`JoinedSoFar`): it has what its parts have, begins with the first, and has nothing twice that
  they do not (`Flattened`, `FlattenBegins`, `FlattenOnce`). So a round has one row of each device, and as many rows
  as there are devices show them all (`FirstRowsShowAll`); device after device, the mutant, they would not.
  What a LIMIT keeps is said once (`LeadingIs`): some of what there is, nothing left out comes before what
  is kept, and all of it when fewer are kept than may be; its uses are the users of the usage report
  (`MostLead`, `TopUsersAre`), the rows of a certificate search and the names the Certificates card shows. That a cut query that is short
  of its limit has everything is what carries the comparison from the whole to what is answered.
  Usage needs an invariant of its own, as its rows grow (`UsageDocuments`). Report, drill-down and card are each compared
  with the rows of the history that fold into a name (`Folding`): the report's rows under its spellings split them
  by bucket (`ReportedAlike`), the drill-down by device (`DrilledAlike`), the card does not (`CardCountsAlike`), and sums of disjoint
  parts are the size of the whole (`SumOfReport`). That names which differ by case fold alike (`FoldAlike`) is what the
  drill-down rests on, since it collects raw names on the whole fleet first. The devices a question about the whole
  fleet counts are the healthy ones but for those in storage, which the health counts apart: the run had no stored device with usage,
  the proof did not go through without saying so.

Only model-checked: everything under fairness (`RequestEnds`, `UnkeyedRetryLands`, `EveryCallerAnswered`,
`EveryCardGetsItsTurn`, `AnswersCatchUp`, `LockIsFreed`), which is beyond the prover's reach.

## 5. Plan

In order of what would add most:

1. A property for a module row that a late payload overwrites: what a device's newest check-in left, unless an older one came
   after it.

### Not modelled

- The connection pool: borrowing and blocking are PooledDB's. Seen while reading: `close_db_pool` may set the
  global to None between the fast path's test and its return (`dependencies.py` 1137), and a late request builds the pool
  again; check-ins borrow on the event loop from a pool that blocks, while exports hold a connection between chunks the loop
  has to send, so as many open exports as connections would stop the replica.
- Each replica clears its own response cache only: another one answers the old value until it expires. One replica is
  what `ResponseCache` models.
- Hardware, network, peripherals, identity, management and log reports, device pages, statistics, services and
  extensions: one query each whose fields are copied, so a model would be the query again.
- API key and settings administration: single statements on one row.
- Log tails and the cursors of `pagination.py`, event reads, start-up, migrations, health, metrics, ETag, the SQL loader: they
  change no state that a model could tell apart, or run once and alone.
