# Verification of Archer Analytics

TLA+ models of Archer Analytics, its backend (`src/backend/src`) and the requests
of its frontend (`src/frontend/src`), the TLC runs that check them, and TLAPS
proofs about the dataset pipes, their schedule, the charts and their views,
filters and reports, datasets, access control and the browser's requests. The
program copies the rows of RSA Archer's MS SQL reporting feed into Postgres tables
("datasets"), and serves reports, exports and dashboard charts from them; it is a
single Node process, so the code between two `await`s runs without interruption
and everything else may happen in between.

Contents: 1 the system, 2 the plan, 3 the modules and the code, 4 the runs,
5 bounds, 6 fairness, 7 the proofs, 8 where code and documents disagree,
9 what the models leave out, 10 how to run everything.


## 1. The system

`bs` stands for `src/backend/src`.

| Component | State it keeps | Operations | Talks to |
|---|---|---|---|
| **Dataset pipes** `bs/sync-source/dataset-sync.service.ts`, `mssql.source.ts` | dataset tables, `sync_reload_*` tables, `dataset_sync_state` (status, rows, watermark), `dataset_sync_history`; in memory the set `running` and the map `cancelable` | `syncDataset` (incremental, full, Truncate & Sync), `copy` (streamed pull, chunk flushes, swap), `cancelSync`, `refreshDerived` | MS SQL by a streamed query, Postgres, chart matviews and page caches by `refreshDerived` |
| **Sync schedule** `sync-source.module.ts`, `*.controller.ts` | timers; one pool of 4 connections to MS SQL | `onApplicationBootstrap`, `runQuietly`, `syncAll`, the requests to run and to cancel | the pipes |
| **Chart matviews and dashboards** `bs/dashboard/dashboard.service.ts`, `dashboard.repository.ts` | `dashboard_widgets`, the views `mv_chart_<id>` and `mv_chart_<id>_build`, `chart_matview_state`; in memory the map `building` | `addChart`, `updateChart`, `removeChart`, `deleteMine`, the administrator's `updateWidget` and `deleteWidget`, `getWidgetData`, `drill`, previews | Postgres, the result cache; refreshed by the pipes; dropped by reports and dataset administration |
| **Query builder** `bs/dashboard/query-builder.ts` | none | `validateSpec`, `buildAggregation`, `buildBreakdown`, `buildDrill` | charts |
| **Dataset administration** `bs/datasets/datasets.service.ts` | `datasets`, `dataset_fields`, `dataset_relations`, the tables themselves | `create`, `update`, CSV import, `remove` | pipes (same tables), matviews, catalog |
| **Field catalog** `catalog.service.ts` | in-memory cache of each dataset's fields | `forDataset`, `invalidate` | everything that builds a query |
| **Dataset browsing** `dataset-browse.service.ts` | none | paged reads | catalog |
| **Reports, filters, exports** `bs/reports` | `reports`, `report_views` | CRUD, `findingsData`, streamed exports, filter-logic parser | catalog, cache, matviews |
| **Result cache** `cache.service.ts` | Redis keys with an expiry | `getJson`, `setJson`, `invalidatePrefix`; every failure is swallowed | reports, charts |
| **Users, roles, groups** `bs/users`, `bs/roles`, `bs/groups` | users, roles, memberships, permissions | CRUD with the rule that one active administrator remains | authentication |
| **Authentication, single sign-on** `bs/auth` | tokens, the state cookie of a sign-on | `login`, `refresh`, `handleCallback` | users |
| **Schema bootstrap** `bs/database` | the schema | ordered best-effort statements at every start | Postgres |
| **Field mapping** `bs/mapping` | `field_mappings` | `autoMap`, `save` | pipes |
| **Audit log** `bs/audit` | `audit_log` | inserts nobody waits for | none |
| **Frontend** `src/frontend` | screens, tokens in local storage, one shared token refresh | requests whose answers land in any order, drills, previews | the REST interface |

What is hard in it, and what would make each part correct:

* **Pipes.**  Chunks are committed one by one while the pull goes on, and the
  query reads no snapshot while the source is written to; any of the chunks, the
  source, a `cancelSync`, or the process may fail in between. The watermark is
  saved once, after the last chunk, and an incremental run never looks below it
  again. Correct means: *the watermark never passes a row that is missing or old*,
  but for the rows no query can have returned (changed behind a scan, or with a
  stamp the watermark had reached); *`ok` means the whole of what was queried is
  in the table*; *Truncate & Sync is all or nothing*; *no row goes back in time*;
  *the in-memory lock is always released*; *nothing that was committed stays
  invisible*.
* **Charts.**  A build takes minutes, during which its chart may be edited,
  removed, read, drilled into and refreshed by a sync.  Correct means: *builds
  never mix up their scratch views*; *a view that can be read stays readable
  while it is rebuilt*; *an edit gets its own view*; *a removed chart leaves
  none*; *a breakdown that was cut off is never served*; *every build leaves
  the map, every request is answered*.
* **Dataset administration.**  Table, fields, mapping, views and state row are
  changed by separate statements while a sync, a chart or another administrator
  uses them.  Correct means: *the registry says what the tables are*; *a removal
  leaves nothing behind and touches no other dataset*; *of each id of an
  imported file the last row is stored*.
* **Catalog.**  A cache without expiry is filled after several awaits.
  Correct means: *between operations what is cached is what is there*.
* **Schedule.**  Loops of the timer and requests overlap.  Correct means: *one
  run per dataset at a time*, *the status shown is true*, *one dataset that
  fails or hangs stops no other*, *a cancel ends what it cancels*.
* **Administration and sign-on.**  *A user is shown exactly the active views and
  dashboards that were granted*; *a start of the application costs no
  administrator, and restores the role and the group of the administrators*; *a
  saved set replaces the old one*.
* **Frontend.**  *What a screen shows is the answer to the last thing asked of
  it*; *the crumbs name the level whose bars are shown*; *every request settles,
  also when the token expires under several at once*.
* **Query builder, filters, exports.**  *A filter selects what its logic says*;
  *a bar is the sum of the bars it breaks into and of the records behind it*;
  *the view kept for a chart and the table give the same bars*; *pages tile the
  result*; *an export has each row once*.

Every hazard is listed at its line in `PROJECT.json`, with the properties that
state it or the reason why none does.


## 2. Plan

Done, in this order:

1. **DatasetSync**, **PipeContract**: every await of the pipes, what a pipe
   promises, the proofs of safety and of the refinement.
2. **ChartMatview**: builds, edits, removals, reads, drills, the page cache, a
   sync's refresh; the proofs of its safety properties.
3. **FilterLogic**, **FieldCatalog**, **ChartQuery**: filters as the words of
   SQL they become, the registry, aggregation, drill-down, previews;
   **FilterProofs** and **ChartQueryProofs**.
4. **Reports**: pages, counts, caches, exports, edits of a view; it shares
   FilterLogic and FieldCatalog with the charts; **ReportsProofs**.
5. **DatasetAdmin**: datasets, fields, imports, mapping, the catalogue's cache,
   composed with running syncs, charts and matviews; **DatasetAdminProofs**.
6. **SyncSchedule**: the timer, the requests, the lock, cancels and statuses;
   **RefreshProofs**, of this module and of ChartMatview.
7. **AccessData**, **SchemaBootstrap**, **AccessControl**: who may do what, what
   a start asserts, and the concurrent changes of administrators and sign-ins;
   **AccessControlProofs**.
8. **ApiClient**, **TableScreens**, **ChartScreens**, **ViewScreens**,
   **Screens**: the browser's requests and what their answers do;
   **ScreensProofs**.

Left: the composition of DatasetSync with ChartMatview (a build whose snapshot
is older than a sync's commit), and the administrative tabs that are one form
over one request.


## 3. The modules and the code

### DatasetSync

One value of `run[d]` is the local state of the `syncDataset` call of dataset
`d`; `run[d].pc` is the await it stands at.

| Model | Code (`dataset-sync.service.ts`) |
|---|---|
| `running`, `cancelable` | the set at 89 and the map at 90-93 |
| `target`, `reload`, `state`, `history` | the dataset's table, `sync_reload_<key>`, one row of `dataset_sync_state`, the history rows of the latest run |
| `StartRun` | the check and the `add` of 173-180: no await between them |
| `RecordRunning`, `ReadWatermark`, `PrepareReload`, `OpenStream` | 181-288: preflight, the watermark (only an incremental run starts from it), `DROP`/`CREATE` of the reload table, the query and the registration of its request |
| `ScanRow` | the server reads one row, at any time while the query runs, and sends it if the `WHERE` selects it: `mssql.source.ts` 189-199, a plain `SELECT *` of no snapshot |
| `DeliverRow` | the row handler, 346-373: count, raise the watermark, buffer, pause and flush at `CHUNK_ROWS` |
| `FlushCommit`, `FlushFail` | a chunk's transaction, 289-329, 366-372 |
| `StreamError`, `StrayCommit`, `StrayFail` | the `error` event rejects at once and leaves a flush in flight behind |
| `StreamDone`, `FinalFlush`, `FinalFlushFail` | 375-390 |
| `Swap`, `SwapAbandoned` | the swap's transaction, 391-453, and every way out of it |
| `Close`, `AdvanceWatermark`, `RecordOk`, `AppendOk`, `RefreshDerived` | the `finally` of 463-466, the watermark of 468, the state row and history, 532-554 |
| `StepFails`, `RecordError`, `AppendError`, `RecordingFails`, `Release` | the catch and `finally` of `syncDataset`, 206-225 |
| `CancelSync` | 131-144 |
| `SourceWrite`, `SourceDelete` | Archer itself, between any two steps |
| `Crash` | the process stops: memory is lost, Postgres rolls back what was not committed |

A row is the *version* of its last write; `StampOf(v)` is the value that write
left in the watermark column.  `toDate` cuts the source's datetimes to
milliseconds, and coarse columns are common, so `StampOf` need not be
injective; later writes never carry earlier stamps.  0 stands for "no row" and
"no watermark".  In `run[d]`, `scan` are the rows the server has not come to,
`wire` those sent and not delivered, `snap` each row as the query read it.

The query is no snapshot and its `WHERE` is strict (`>`), so two kinds of rows are
passed by a watermark that no query returned: one changed after the scan read it
while the scan went on to later stamps, and one written with a stamp the watermark
had reached. The code loses both for its incremental runs, and the model says
which they are. `stray` holds flushes in flight whose run has already been
rejected. Four variables exist for the properties only. `fresh[d]` are the source
rows changed since a query of d read them; `missed[d]` those of them the watermark
has passed, from the moment it does and until they change again above it or a full
run returns them. So a row is `missed` for one of these two reasons and no other:
nothing else the service does puts a row there. `strayed` are the datasets that
another run has written to (a stray flush, or a Truncate & Sync that shares the
reload table), and `dirty` those with committed rows that no refresh has covered.
The safety properties are stated for the datasets that are not `strayed`; what a
stray flush does is the subject of `RerunIsSafe`.

### PipeContract

The abstract pipe: a source that others write (`Write`, `Delete`), queries that
read a row at a time (`Look`), a table whose rows move forward in portions
(`Upsert`) or that is replaced at once by all a query read (`Replace`), and a
watermark. `Vouch` moves the watermark to where every row it passes is in the
table, or is known to be missed; a row may become missed only when no query has
read it since it changed. After `StrayWrite` nothing is promised of the datasets
reached. `DatasetSync!Contract` instantiates it with the state row's watermark
and, for `void`, `strayed`; `KeepsContract` is the refinement.

### DatasetSyncInductive

The inductive invariant `AllSound` (see 7).

### ChartMatview

| Model | Code |
|---|---|
| `widget`, `mv`, `scratch`, `truncated` | `dashboard_widgets`, `mv_chart_<id>`, `mv_chart_<id>_build`, `chart_matview_state` |
| `building`, `build` | the map of `dashboard.service.ts` 132-149 and the locals of a `syncChartMatview` call |
| `BuildMatview` | 143-149: start a build or join the chart's running one |
| `DropScratch` .. `Swap`, `BuildFails` | `createChartMatview`, `dashboard.repository.ts` 118-169; the error is caught at 168-183 of the service |
| `AddChart`, `UpdateChart`, `Rebuild`, `Invalidate` | 470-511: the row, the build that is started and not awaited, the page cache |
| `RemoveChart`, `DeleteDashboard`, `DropView`, `DropBuild`, `DropState`, `DropFails`, `Cascade` | 451-460, 513-518 and `dropChartMatview` 171-175 |
| `AdminUpdateWidget`, `AdminDeleteWidget` | 742-762 |
| `Open`, `CacheHit`, `CacheMiss`, `Reply` | `getWidgetData` 651-684 |
| `ReadFlag`, `Probe`, `RecordFlag`, `ReadView`, `Missing`, `Live` | `chartData` 185-233, `breakdownTruncated` 205-225, `aggregateChartMatview` 227-295 |
| `AwaitOver` | `awaitMatview` 151-166 in `drill` 525-582 |
| `SyncCommit`, `SyncList`, `SyncRefresh`, `SyncInvalidate` | a sync and its `refreshDerived`, `dataset-sync.service.ts` 532-554; the list's `LIKE` also matches the scratch views |
| `Expire`, `Crash` | Redis expiry, a restart |

Rows are the spec they answer and the data version they were computed from.
`Layout(s)` are the columns of a breakdown (a breakdown with other columns
cannot be read for `s`), `Overflows(s, v)` whether it outgrows
`BREAKDOWN_MATVIEW_CAP`.  `Drilling` specs have a breakdown view, `Records`
none, `PerViewer` ones are not cached.

### FilterLogic, FieldCatalog

`FieldCatalog` is `CatalogService`: which fields filter, measure, group and are
searched, from the registry's rows.  `FilterLogic` is
`reports/filterable-fields.ts` and the `WHERE` clauses of
`dashboard/query-builder.ts`.  A clause is a sequence of SQL words, its tests
carry the *numbers* of their parameters, and `Selected` evaluates the words as
PostgreSQL does: precedence of `OR`, `AND`, `NOT`, three truth values.  So a
wrong offset, a lost parenthesis or a NULL has its effect.

| Model | Code |
|---|---|
| `tokenizeLogic`, `parseLogic`, `parse` | the recursive descent over `1 AND (2 OR NOT 3)` |
| `OPERATORS`, `buildClause`, `Known`, `buildExpressionWhere` | one condition per field type and operator, those left unfinished, the whole expression from a parameter offset on |
| `mergeScope`, `Shifted`, `buildChartWhere` | a view's scope joined with a chart's filter; drill steps with `'(none)'` |
| `Answerable`, `Meaning` | the reference: what the conditions and the logic say of a row |

### ChartQuery

State: the table, a view's scope, a chart's spec, the drill steps with their
bars, the records list, the preview.  `Open`, `onSectionClick`, `jumpTo`,
`ShowRecords`, `previewQuery`, `previewDrill` are the requests of the chart
panel and the designer; `buildAggregation`, `buildDrill`, `buildBreakdownMatview`,
`aggregateChartMatview`, `measureReaggParts`, `buildRecordsQuery`,
`previewTopGroups` keep the names of the code.

### Reports

| Model | Code (`bs/reports`) |
|---|---|
| `whereFor`, `SearchOr`, `SearchIn` | one numbering for scope, user filter, quick search, column search |
| `Ask`, `ReadContext`, `GetCount`, `KeepCount`, `GetPage`, `Answer` | `findingsData`: context, cached page, cached count, page, stores |
| `capPage`, `Cut`, `Total` | top N |
| `countFindings`, `Counted`, `Estimates` | 187-228 of the repository: a filtered count stops one past its cap, an unfiltered one is `reltuples` from `EstimateAbove` on (any number `Drift` off, or -1 for a table that was never analyzed) |
| `StartExport`, `StreamChunk`, `After`, `CloseExport` | keyset streaming, `capStream`, the limit of a pdf |
| `Write`, `SyncDone`, `Expire` | a sync's writes and its clearing of the caches; Redis expiry, which stands for a `getJson` or `setJson` that fails as well |
| `Invalidate` | `cache.service.ts` 71-81: best effort, a clearing that fails leaves any of the entries |
| `updateView`, `setColumns`, `setAccessRoles`, `EditFails`, `upsertColumn`, `deleteColumn` | an administrator's edits, statement by statement: the `DELETE` of a set comes first, and a statement that fails ends the edit without a clearing |

History: `version` counts the writes, `fence` is the version at the last clearing,
what is read carries the version it was read at, and the mark `old` of a cached
entry says that the code has let it grow old in one of the ways `CacheCoherent`
names.

### DatasetAdmin

An administrator's operation is a *plan*, the list of the statements the code
will run from what it has read so far; `Statement` takes the next one, `Fails` ends
the operation there.  `createPlan`, `updatePlan`, `importPlan`, `removePlan`,
`MappingPlan` are `create` (108), `update` (200), `importRows` (300), `remove`
(414) and `MappingService`.  `StartSync`, `EndSync`, `AddChart`,
`BuildMatview`, `forDataset`, `KeepCatalog` are the others that use the tables.
`Request` is what an administrator who waits for no answer may begin.  Rows are
found as the code finds them, datasets, fields, mappings and views by the id that
was read, charts by the key of their dataset or view: an id is the number of
deletions before the row was made (`db.deleted`), which tells a row from an earlier
one of its name.  `Created` is the database after a creation that was done before.
`hist` is history: edits that failed, charts that were ever made (`born`), names
of views that were removed (`freed`), and the datasets whose mapping an overlap or a
failure may have left off (`loose`), until a removal alone with the dataset clears it.

### DatasetAdminInductive

The inductive invariants `AdminInv`, `Imports` and `Tally` (see 7).

### SyncSchedule

`pulls` are the calls of `syncDataset` with the phase each is in: `check` (176),
`pull` (191, connecting), `stream` (a request to cancel is registered),
`refresh` (after the end was recorded ok).  `Tick`, `RunAll`,
`syncableDatasets`, `NextDataset`, `LoopEnds` are `syncAll` (154) for the
timer's loops and for requests; `Lock` and `End` are what 172-175 and 197-225
do to `running`.  `EndUnrecorded` is an end the database refuses to record.
`torn` is history: whose last pull has no recorded end.

### AccessData, SchemaBootstrap, AccessControl

`AccessData` has the tables as one record, the effective roles, permissions,
views and dashboards, unique keys and cascades.  `SchemaBootstrap!Step(n, d)` is
the n-th step of a start.  In `AccessControl` a request is let in on the
permissions of its *token* and runs its statements one by one; a replacement of
a set (`setRoles`, `setPermissions`, `setMembership`, grants) is a transaction at
READ COMMITTED: its DELETE sees the rows there are when it begins, waits while
another transaction deletes some of them, does not see what others commit
later, and then it inserts its own.  `updateView` is the row and then, with a
set of roles, a DELETE and an INSERT for each, in no transaction; views and
dashboards have the `is_active` that their lists filter on and `updateView` and
`updateBoard` set.  `login`, `refresh`, `handleCallback` issue the
tokens; `restart` and `onApplicationBootstrap` run the steps, any of which may
fail.

### ApiClient and the screens

| Module | Code (`src/frontend/src`) |
|---|---|
| `ApiClient` | `api.ts`: a 401 waits for the one refresh all share and is sent again once |
| `TableScreens` | `ReportView`, `DataSetsTab`: a query per change, the debounce, the sequence number |
| `ChartScreens` | `DashboardView` (shell, a request per card), `DrilldownChart`, `ChartEditor` with its preview |
| `ViewScreens` | `ViewsTab`: the draft, its columns, its unguarded preview |
| `Screens` | `App`, `Login`: session, sections, lists; composes the others by INSTANCE |

The local state of the open component is the record `screen`; a request is a kind
and its arguments, and its answer is applied to whatever the screen is when it
lands. Answers for a component that was closed are dropped (`Without`). A
dashboard that shows a loading line or an error keeps `adding` and `editing`
(`hidden`), also when "+ Add chart" above it is clicked meanwhile (`AddChart`),
and draws the designer afresh when its cards come (`Drawing`). What a write did
and what a list holds is the server's to say and is chosen freely.


## 4. The runs

| Run | Instance | Properties | Result |
|---|---|---|---|
| `sync_safety` | one pipe, two ids, three source writes of which two share a stamp, rows read one by one, chunks of one row, one stray flush | `TypeOK`, `Covered`, `OkMeansComplete`, `AllSound`, `TruncateIsAtomic`, `NoRegression`, `KeepsContract` | holds; 1.4 million states |
| `sync_live` | two ids, chunks of two rows, stamps that coincide | `RunEnds` | holds; 0.5 million states |
| `schedule` | two datasets, the first one's source stuck, two loops, one fault, one change of the registry | `OneRunPerDataset`, `StatusTrue`, `PipesServed`, `CancelEnds` | holds; 56 thousand states |
| `charts_safety` | one chart, two specs, two requests, two builds | `TypeOK`, `ScratchIsOwn`, `SwapsOwnBuild`, `StaysReadable` | holds; 1.5 million states |
| `charts_live` | one request and one build at a time, the page cache | `BuildEnds`, `RequestEnds` | holds; 0.4 million states |
| `queries` | three tables, every logic of up to five lexemes (four through a scope), every operator, every shape of chart | `ScopeHonoured`, `LevelsAgree`, `PreviewHonest`, `BarsPartition`, `RecordsBehindBar` | holds; 107 thousand states |
| `reports` | four rows and two a sync may write, pages, searches, two writes, edits, clearings that fail, counts and estimates, one cached entry of each kind | `OnlyNarrows`, `PagesTile`, `ExportOnce`, `CacheCoherent` | holds; 1.0 million states |
| `datasets` | two datasets (one built in), two administrators, two operations, one failure | `FieldsMatchColumns`, `CatalogCoherent`, `CleanRemoval`, `OthersSpared`, `ImportComplete` | holds; 1.3 million states |
| `access` | three users, three roles, three groups, two clients, two requests, one restart | `SeesWhatIsGranted`, `BootKeepsAdmins`, `StartRestores`, `SaveReplaces` | holds; 159 thousand states |
| `screens` | every screen, two or three things done on it, two requests at a time | `LatestWins`, `CrumbsDescribeChart`, `ScreensSettle` | holds; 0.65 million states |
| `rerun` | one id, one stray flush | `RerunIsSafe` | violated, see 8 |
| `reports_straddle` | a view of its top three rows, pages of two | `PagesTile` | violated, see 8 |

For each property of a passing run there is a mutant, an operator (named
`...Slip`, or marked "Mutant") that stands before the definition it spoils: a
dropped guard, a missing reset, an error that is swallowed, parameters numbered
anew, an order reversed.  With it in place TLC finds the property violated under
the same configuration.

What the less obvious properties say:

* `Covered` is about every row the watermark has passed but the `missed` ones, and
  `KeepsContract` says that a row becomes `missed` only if no query read it since
  it changed: a watermark saved too early, or a chunk that is lost, breaks both.
* `AllSound` is the inductive invariant of the proofs; `KeepsContract` the
  refinement of `PipeContract`.
* `ScopeHonoured` compares the rows the words of SQL select with `Meaning`, and
  when the request is refused with `Answerable`.
* `LevelsAgree`: the bars from the breakdown's counts, sums and averages are the
  bars from the table, and "Other" is the measure of the records outside the top;
  a level split into series may be cut at `CHART_TOP_GROUPS` + 1 bars: see 8.
* `BarsPartition`, `RecordsBehindBar`: a click on a bar, and the records behind
  it, give its value again.  Text named `(none)` and date buckets of NULL are
  left out of the tables: see 8.
* `CacheCoherent` compares a cached page with what would be read now: rows, columns,
  total, and whether the total is said to be capped or estimated; a cached count in
  the same way.  A total is exact, up to the cap, unless the table is
  large and nothing filters; then it is `Drift` off at most.  Out of date may be
  only what is marked: what was *read* before a clearing and *stored* after it,
  for the code has no guard against that; what a failed clearing left; pages kept over
  `upsertColumn`, `deleteColumn` or an edit that failed, which clear nothing.
* `CatalogCoherent` excepts what was read before a clearing and stored after it.
* `SeesWhatIsGranted` is about active views and dashboards, for the role names a token
  issued now would carry.
* `StartRestores` says what each completed start makes good, by the steps of it that
  did not fail: whatever requests did to the administrators' role and group before.
* `SaveReplaces` allows for what others committed since the delete: two
  replacements at once leave the union of both.
* `CrumbsDescribeChart` excepts a jump made while a click waits (`raced`).


## 5. Bounds

* `MaxClock`, how many writes the source makes (3): an old version, one that
  overtakes it, one after the query.  With two ids this covers a row behind the
  scan, a row ahead of it, and a row that is deleted and written again.
* `TwoPerStamp`: the first two writes share a stamp and the third has a later one,
  so that a write may carry the stamp the watermark has reached, or pass it.
* `ChunkRows`: 1 gives a commit per row, so a pull can fail after some chunks;
  2 (`sync_live`) gives full and partial last chunks (`FinalFlush`).
* `MaxStray`, how many flushes may outlive their run at a time (1; 0 in
  `sync_live`, where they cannot matter: a run waits for none of them).
* `NoStrayYet` (a constraint of `sync_safety`) stops at the states a stray flush
  has written to: the properties speak only of datasets without one.
* `ReadBack` (a view of the state) leaves out what the service writes and never
  reads: the statuses, the history and the row counts (of the total, all but
  whether it is 0), a cancel once the stream is over, the locals of a pull that
  was given up, and where a run started from once that is used. `Deciding` in the
  same way leaves out the rows in Redis and in answers under way.
* `MaxData` (1): before and after a sync.  `Calls`, `Builds` (2): one edit or
  removal overtakes another, two builds meet.  Liveness has one of each, for
  requests wait for the build only.  `Overflows`: `Fits` in `charts_safety`,
  where a cut-off breakdown only sends a reader to the live query.
* ChartQuery: three tables of up to six rows with a NULL, a tie, a tail beyond
  `ChartTopGroups` = 2 (in one of them with the NULL in it) and a sampled half;
  two conditions and five lexemes reach every nesting of two conditions; four and
  five conditions reach the limit of 5.
* Reports: pages of two, a count cap of 3, chunks of 2 and a pdf of 3 rows over
  four or five rows put every limit inside the data. `EstimateAbove` = 4 and
  `Drift` = 1: tables of three to five rows are counted, estimated, or either, and
  an estimate is too high or too low.
* DatasetAdmin: `MaxOps` = 2 operations and `MaxFailures` = 1: any two
  operations interleave, or one fails halfway and is repeated.
* SyncSchedule: two loops meet each other and a request; of two datasets the
  stuck one comes first.  `MaxFaults` = 1 restart or unrecorded end.
* AccessControl: two requests at once, or one on either side of a restart; a restart
  comes before the last request, or after it where no active administrator is left.
* Screens: `MaxActs` = 4, `MaxEdits` = 2 on one screen, `MaxCalls` = 2 requests
  under way when the user goes on (a screen may send more): the answers to two
  questions in both orders, while a third thing is done.

Ids, requests, clients and administrators are interchangeable where a
configuration says SYMMETRY; the runs with liveness use none.  Deadlock is
checked for the pipes and charts; the other instances stop when their bounded
requests are used up.


## 6. Fairness

`DatasetSync!FairSpec`: weak fairness of `RunStep(d)`, the steps of a run that
has begun.  Each of them is the continuation of a promise that settles:
`connectionTimeout` and `requestTimeout` bound the waits for MS SQL
(`mssql.source.ts` 59-116), `lock_timeout` and the server bound those for
Postgres.  Nothing is assumed of a cancel, of a source write, of a flush that
outlived its run, or of the next run starting.  A paused request has no rows to
deliver: it waits for its flush, which commits or fails.

`ChartMatview!FairSpec`: weak fairness of a request's own steps and of a build's
own statements.  A drill's wait for a build is over after 20 seconds whether the
build has ended or not (`AwaitOver`), so it does not need the build's fairness.

`SyncSchedule!Fairness`: the interval keeps firing (weak fairness of `Tick` for
some loop), a loop that has begun goes on, and so does a pull, except that a
source in `Stuck` answers only once its request is cancelled.  Faults and
changes are bounded, so in the end the registry stays as it is.

`Screens!FairSpec`: weak fairness of the network (every request is answered or
fails, the refresh too) and of the timers of the browser.  Nothing is assumed of
the user.


## 7. The proofs

`DatasetSyncProofs` proves, for every value of the constants that satisfies
`ConstantsAssumption` and `StampAssumption` (any number of pipes, rows, writes,
stray flushes and any chunk size):

| Theorem | Statement |
|---|---|
| `TypeCorrect` | `Spec => []TypeOK`: with the types, the lock is held exactly while a run is under way, and the registered requests are those of copies under way |
| `PipesAreSound` | `Spec => []AllSound` |
| `WatermarkIsKept` | `Spec => []Covered` |
| `OkIsComplete` | `Spec => []OkMeansComplete` |
| `TruncateSwapsWhole` | `Spec => TruncateIsAtomic` |
| `RowsOnlyAdvance` | `Spec => NoRegression` |
| `ContractIsKept` | `Spec => KeepsContract` |
| `ContractIsFaithful` | `Contract!Spec => []Contract!Faithful`: whatever implements `PipeContract` keeps the promise of the watermark |

Nothing is assumed of the query, of the stamps but that they never fall, or of
the reload tables' names: what the code cannot promise there is in `missed` and
`strayed`, and the theorems are about everything else.

The argument.  `Covered` is not inductive by itself: it says nothing of a run
under way, whose highest watermark will one day be saved.  The strengthening
`AllSound` follows each row the query has read:

* `NothingLost`: it is still on the wire, in the buffer, in the flight of a
  chunk, or landed where this run's chunks land (the dataset's table, or the
  reload table of a Truncate & Sync);
* `ReadsAge`: what was read is the source's row still, unless the row has changed
  since (`fresh`) or was missed before and is out of this query's reach;
* `FreshIsMissed`: a row that changed and is passed all the same is missed;
* `ReloadIsPart`, `Emptied`, `CompleteAt`: what is left to do at each step of
  the end of `copy`, so that at the save nothing that was read is left out;
* `Prepared`: an incremental run starts at or below the saved watermark, and a
  Truncate & Sync from nothing;
* `Behind`: the table is never ahead of the source, which makes overwriting
  with a row that was read a step forward;
* `Alone`: a reload table in use is of one run, or both datasets are `strayed`.

Each action of `Next` has its lemma or step, and those that touch no pipe share
one frame lemma.  For the refinement, every action is shown to be a step of the
contract or to leave its variables alone, with `AllSound` as the invariant.

`RefreshProofs` proves of ChartMatview, for any number of charts, specs, requests and
builds, from `ChartAssumption` alone:

| Theorem | Statement |
|---|---|
| `ChartTypes` | `Spec => []TypeOK`: with the types, the map names exactly the builds under way |
| `ScratchViewsAreOwn` | `Spec => []ScratchIsOwn` |
| `BuildsSwapTheirOwn` | `Spec => SwapsOwnBuild` |
| `ViewsStay` | `Spec => StaysReadable` |

The inductive invariant is `Sound`.  Beside the types it says that a request
beyond its first step has a chart and, where it needs one, a spec (`GoodCall`);
that a chart's build under way is the one on the map (`Mapped`), so that two
builds never have one chart; and, from it, that no other build, and no removal
or refresh, puts another spec's view under a build's scratch name.  `ViewsStay`
also needs that only a removal, a swap and a refresh change the views that are
read (`ViewChanges`), and that the last two never put nothing in their place.

Of SyncSchedule it proves, for any datasets, loops, restarts and changes:

| Theorem | Statement |
|---|---|
| `OnePull` | `ScheduleSpec => []OneRunPerDataset` |
| `StatusIsTrue` | `ScheduleSpec => []StatusTrue` |
| `ScheduleTypes` | `ScheduleSpec => []ScheduleTypeOK` |

The three invariants together are inductive.  That no other call pulls the
dataset is what lets the end of a pull take the lock away (`EndKeeps`) and what
makes the status it writes the status of its own pull (`SetKeeps`); neither
holds without the other two.

`AccessControlProofs` proves, for any users, roles, groups, views and submitted
sets, any number of clients and restarts, from `CodesAssumption` (the three
permissions named in the code are permissions), `AtFirstAssumption` (the
tables a start finds have their columns, and role names are unique, as `init.sql`
declares) and `ViewEditsAssumption` (the roles submitted for a view are a list):

| Theorem | Statement |
|---|---|
| `AccessInvariant` | `Spec => []Inv` |
| `ShownWhatIsGranted` | `Spec => []SeesWhatIsGranted` |
| `AdministratorsKept` | `Spec => BootKeepsAdmins` |
| `AdministratorsRestored` | `Spec => StartRestores` |
| `SavesReplaceAll` | `Spec => SaveReplaces` |

None of the four properties is inductive.  `Inv` adds what each leans on:
`UniqueNames` (a role's name stands for one role: without it the names in a
token could stand for more than was granted); `TxCovers` (each row of a set that
is being replaced was seen by the DELETE or committed by another client since);
`QuietStart` (a restart ends the requests, and none begins
before the start is over); `StartKeeps` (what each step of a start leaves for
the next: those in the administrators' group manage users before the step that
takes the seed roles away); `StartAsserts` (what the steps of a start that did not
fail have asserted still holds while the later steps run).

`ScreensProofs` proves, for any views, datasets, dashboards, users and answers
and with no assumption on the constants:

| Theorem | Statement |
|---|---|
| `ScreensInvariant` | `Spec => []Good` |
| `LastAnswerShown` | `Spec => []LatestWins` |
| `CrumbsTellThePath` | `Spec => []CrumbsDescribeChart` |

`LatestWins` speaks of the screen and says nothing of the requests that are still
to be answered.  `Good` ties the two together: every request under way is of the
screen that is open and of a part of it that is there (`AllBelong`), the newest
request for rows or for a preview asks for what is chosen now, and one is under
way unless it has been shown or refused (`TableGood`, `PreviewGood`); a drill
waits for one answer at most, and records that are asked for lie one level
below the crumbs (`DrillGood`).  Requests are sent, superseded, doubled by a
retry and dropped in many places; `Sends` says once what such a step does to the
set of them.

`DatasetAdminProofs` proves, for any datasets, fields, files, mappings, charts and
administrators, however many operations and failures, from `ConstantsAssumption`,
`SubmittedAssumption` (what is submitted is finite, a file is a list of rows, an
edit names each existing field once, as the form does) and `NamesAssumption` (fields
are submitted in a list, a name is a sequence, there is one built-in dataset and
none is created under its key):

| Theorem | Statement |
|---|---|
| `AdministrationInvariant` | `Spec => []AdminInv` |
| `CatalogueIsCurrent` | `Spec => []CatalogCoherent` |
| `RemovalsAreClean` | `Spec => CleanRemoval` |
| `OtherDatasetsSpared` | `Spec => OthersSpared` |
| `ImportsAreComplete` | `Spec => ImportComplete` |
| `OperationsAreOnCourse` | `Spec => []Tally` |
| `FieldsAreColumns` | `Spec => []FieldsMatchColumns` |

An operation is a list of statements that grows as it reads, so the invariant is
about the statements that are still to come.  `Planned`: each is one its kind of
operation may make, and is on its dataset.  `Owned`: the matviews and charts it
will drop, and the view it will delete, are its dataset's; a view's id and
`deleted` tell it from a later view of the same name.  `Removals`: whatever is left
of a dataset under removal has a statement that takes it away, the charts a
chain of them, and `find views` comes before the views are deleted.  It holds of a
removal that is `Alone`, and `Noticed` says that one that is not has been told.
`Cached`: what is cached or being read is what is registered, unless it is
`late`, an operation that clears the catalogue is under way, or one has failed.
`Shape` and `Finite` are the types that the proofs need: what `SetToSeq` lists is
finite.  TLC checked `AdminInv` on the instance of `datasets` first, and by
simulation with eight operations, three charts and two failures.

`ImportsAreComplete` needs a second invariant, `Imports`, which TLC checked on the
same instance: what an import still has to write is what `rowsById` keeps of its
file, and while nothing has joined it, each row of the file is stored or among
the statements to come.  `PlanWrites` is the arithmetic of the batches: each row
is in one, and none is empty.  `UpsertWrites` is a batch: it stores its rows and
takes none of the others away.  A statement of another operation on the dataset
would, but an import that is alone has none (`Noticed`), and one on another
dataset leaves its rows (`StatementSpares`).

`FieldsAreColumns` says what a dataset is between operations; `Tally` says it of
every moment. A dataset that no operation changes is `Settled`. While one that has
the dataset for itself does, its fields, its columns and its mapping differ in the
middle, and the statements S it has still to issue account for that: where a
column has no field, a statement adds the field, where a field has no column, one
deletes the field, where their types differ, one sets the type (`Explained`); what
a statement needs is there when its turn comes (`Ready`), what follows it in the
code is still to come (`Paired`, `Ordered`), and no label is mapped onto a column
that goes without a statement that unmaps it (`Mapped`). A statement takes S to
the rest of S (`BetweenStep`, column by column, and `MappedStep`), and when
nothing is left, nothing differs (`BetweenEnds`, `MappedEnds`). That the plan of
an edit or of a creation is such an S when it begins is `EditBegins` and
`CreateBegins`.

An edit may fail anywhere. `Again` says that what S would change is what the edit
asks for, and `Halfway`, of a dataset a failed edit left, that each difference is
one the same edit accounts for: a column without a field has the name
`resolveColumnKey` gives a field the edit adds. So its repetition begins on course
again. This needs that a new name depends only on the names of its own family that
are taken (`ResolveSame`), and fails when two labels give one name, which is why
the property leaves such edits out (`Apart`, section 8). An edit of the built-in
dataset is refused before it changes a column (`Refusing`), and its mapping is set
label by label, each to a column no other label has or will be given (`Remaps`,
`RequestOnCourse`).

A mapping that an overlapping edit seeds after a removal outlives it (section 8),
as TLC found on histories of more than two operations: `hist.loose` records that,
until a removal that is alone with the dataset clears the mapping. TLC checked
`Tally` and `FieldsMatchColumns` with three operations (558 thousand states,
complete), and 8.8 million states with four.

What the model's recursive functions compute (`FlattenSeq`, `desiredFields`,
`Created`) is proved by induction over the set of the numbers for which the
statement holds (`SetInduction`), as the library's rule takes an operator.

`FilterProofs` proves, for any conditions and any expression, whatever numbers the
parameters begin at:

| Theorem | Statement |
|---|---|
| `RulesAreRight` | each rule of the grammar, in every state it accepts, writes words that mean what it read |
| `WrittenMeans` | what `buildExpressionWhere` writes is true of a row exactly if `Meaning` says so, also as a clause among others |
| `AnsweredExactly` | it is refused exactly when the conditions and the logic are not `Answerable` |
| `MergedIs` | what `mergeScope` makes of a scope and a filter is answered when both are, within `MAX_CONDITIONS`, and true of the rows for which both are |

The modules prove nothing of a recursion for free: that `Value` and `parse` are the
functions their equations describe rests on sets of shorter sequences (`ValueIs`)
and on a size of what is left to read (`ParseIs`: a rule calls another on less, or
a lower rule on as much).  `Value` evaluates a sequence of words by splitting it at
the operator that binds least, so the proofs need where that is: a sequence in
parentheses is never split inside (`ParenShape`), and of two that are joined by a
word the joint is the split unless a looser operator stands outside parentheses
(`JoinedShape`).  Then, by induction over the size: a condition writes tests of its
own parameters (`BindMeans`), and no later one renumbers them (`Agree`, `Extends`);
each rule's item, and each turn of its loop, reads some lexemes and writes words of
their value (`TurnIs`, `FactorIs`).  What is written is a chain of clauses joined by
`AND`, so that a scope, a filter and searches can be appended to each other
(`AndIs`, `AndedSays`).  `AnsweredExactly` is the converse: a lexeme or a rule that
fails has found something no derivation of the grammar has at that place.

`ReportsProofs` proves, for any rows, writes, views, edits, requests, chunk size and
limits, from `TableAssumption` (ids are naturals, a table has one row of each),
`LimitsAssumption`, `AskedAssumption` (the types of what is configured and asked)
and `WordsAssumption` of FilterLogic (the words of the code are strings, which the
provers cannot tell):

| Theorem | Statement |
|---|---|
| `ExportInvariant` | `Spec => []ExportInv` |
| `ExportsAreOnce` | `Spec => []ExportOnce` |
| `WhereMatches` | the rows a statement selects are those that match the request |
| `PagesNarrow` | `Spec => []OnlyNarrows` |
| `PagesAreSlices` | `Spec => []PagesTile` |
| `CachesAreCoherent` | `Spec => []CacheCoherent` |

`ExportOnce` says when an export has ended what it has sent.  `ExportInv` says it of
every moment: the rows sent are in descending order of id and all at or above the
cursor, no steady row at or above the cursor is unsent, and at the end each steady
row is sent or the export is cut.  A chunk is the rows below the cursor in
descending order, cut at its size; that this order lists each of them once is
`InOrder`'s, an induction over the number of rows.

`WhereMatches` adds the quick search and the searches in columns to what
`WrittenMeans` says of the scope and the filter, clause by clause.  It and what
rests on it assume that the dataset has a column to search in
(`globalSearch(Fields, Indexed) # {}`): without one, a quick search that is no number
adds no clause, and all rows of the view are shown.  `OnlyNarrows` then needs that
a request keeps the scope it began with, and the invariant `NarrowInv` that what is
read and sent was selected by its statement.

`FreshInv` ties what is read and cached to a table: a page that was read from the
present table is the page of that table, and unless the caches were cleared since,
nothing was written since either; the same of each entry of the caches, under its
key, unless it is marked `old`. It is inductive because a write counts `version`
up, a clearing moves `fence` to it and empties the caches but for what it leaves
and marks, what was read before the fence is marked as it is stored, and a count
is shared only by requests of one statement (`SameWhere`). A total is exact or an
estimate by the branches of `countFindings` (`Tells`, `TellsIs`), whatever
`reltuples` says. `PageIsSlice` is the arithmetic of the shrunk window.
`PagesAreSlices` has a hypothesis more, for what section 8 says of it: that no
page of a view straddles its N (`Straddles`; the run `reports_straddle` shows one
that does). The instance of `reports` satisfies both. TLC checked `ExportInv`,
`NarrowInv` and `FreshInv` on it before they were proved.

`ChartQueryProofs` proves, for any tables, views, charts, clicks, sample and number
of groups drawn:

| Theorem | Statement |
|---|---|
| `ScopesAreHonoured` | `Spec => []ScopeHonoured` |
| `PreviewsAreHonest` | `Spec => []PreviewHonest` |
| `RecordsAreBehind` | `Spec => RecordsBehindBar` |
| `LevelsAreTheSame` | `Spec => []LevelsAgree`, for charts that are `Designed` and `Labelled` |
| `BarsBreakDown` | `Spec => BarsPartition`, for the same charts |

It assumes `QuestionsAssumption` (the types of what is asked), `TablesAssumption`
(finite tables of natural values and NULLs), `LimitsAssumption` and
`CatalogAssumption`: the catalogue has the measure `count` and no dimension is named
like the absence of one; a measure that tests a column is a count, for PostgreSQL
reads no `round(...) FILTER (...)`, which is what the code would write for another.

`ScopesAreHonoured` joins `MergedIs` and `AnsweredExactly` with the drill clauses a
chart adds.  `PreviewsAreHonest` is arithmetic over sets of bars: a sum over a finite
set is the same in any order and can be taken part by part (`SumByParts`, by
induction over finite sets), a group's measure lies in the range of its column
(`MeasureRange`), and the first N of a strict order are N, or all
(`FirstCount`).  Its invariant `Previewed` says of the preview on screen which
query drew it, on which rows.

The other three are about the drill-down, and rest on one invariant, `Walked`: the
steps of the panel lead down the chart's dimensions from the first one on, and the
bars on screen are an answer to them.  That the clauses the steps write select the
records under a bar is an induction over the steps; `RecordsAreBehind` compares
these with the records that are listed, which are all there are when fewer than
were asked for came back (`NewestAll`).

`LevelsAreTheSame` is about the two ways to compute a level.  The view kept for a
chart has a cell for each combination of the values of its dimensions; a level
read from it folds the cells of each bar, the query on the table folds the records
(`StoredIsLive`).  That they give one number is proved for each measure: counts and
sums add up over the parts, a minimum and a maximum are those of the parts', and
an average is kept as a sum and a count (`FoldedBar`).  `BarsBreakDown` is the same
arithmetic between a bar and the bars below it: what is shown of a bar is the
total of its cells (`ShownWorth`), and the records of each of the bars below are
apart from the others' (`WorthOfParts`).

The two hypotheses say what a chart is.  The instance satisfies both, as
`MCChartQuery` asserts and TLC evaluates.  `Designed`: the chart is one the editor
writes (`ChartEditor.tsx` 222-242): a chart without a dimension, or a grouping, has
no drill path of its own, and a grouping counts records.  `Labelled`: two series do
not share the label they are drawn under.  The code groups by the columns of a
series and names the series by `concat_ws(' / ', ...)` (`query-builder.ts` 397-402
and 545-551), which leaves missing values out: "A / (nothing) / B" and
"A / B / (nothing)" are two groups under one name, and the view, which is read by
the name, adds up what the query on the table lists twice.  No theorem says
anything of such a chart.

Model-checked only: liveness (`RunEnds`, `PipesServed`, `CancelEnds`,
`BuildEnds`, `RequestEnds`, `ScreensSettle`), which is out of the prover's reach.


## 8. Where code and documents disagree

Two runs TLC ends with a counterexample.

* **A flush that outlives its run** (`rerun`).  A cancel or a lost connection
  rejects without waiting for the chunk in flight (`dataset-sync.service.ts`
  369); it may commit after the next run has put newer versions in and moved the
  watermark past them.  DocumentationPage.tsx 264-265 says that re-running a sync
  is always safe.
* **A page that straddles the top N** (`reports_straddle`).  `capPage`
  (`reports.service.ts` 87-91) shrinks the page's size, from which
  `pageFindings` then computes its offset: the page repeats rows of the one
  before.  The comment (83-85) says it ends exactly on N.  `PagesTile` holds
  where N is a multiple of the page size or below it.

What follows are behaviours the models have, recorded here without a run.

The pipes (`bs/sync-source/dataset-sync.service.ts`):

* `refreshDerived` is called only after a run that ended ok (202); a failed or
  cancelled run has committed chunks no chart shows.  The comment above says
  that fresh data must rebuild charts and cached pages.
* Two Truncate & Sync runs of `a-b` and `a_b` share `sync_reload_a_b` (256) and
  may swap in each other's rows.  Both datasets are then `strayed`.
* The query reads no snapshot (`mssql.source.ts` 199): a change behind the scan,
  with a newer row read after it, is below the saved watermark and never pulled
  by an incremental run.  With a coarse watermark column, writes that share the
  saved stamp are lost (the strict `>` of 193).  Such rows are `missed`; a full run
  or a Truncate & Sync finds them.
* `cancelSync`'s comment (136) promises a rollback that leaves nothing partial
  behind; chunks committed before the cancel stay.  A cancel before the request
  is registered, or after the copy, answers that nothing was running.
* A refresh that fails after an ok run records the run a second time, as an
  error (204).  A restart, or a failure to record an end, leaves `last_status`
  at `running` until the next pull (`StatusTrue` says when).
* A request to pull everything is refused while a single pull hangs.

The charts (`bs/dashboard`):

* `chart_matview_state.truncated` is written when a view is built and not when
  a sync refreshes it (`dashboard.repository.ts` 161): a breakdown that outgrows
  the cap is served cut off, against the comment of `query-builder.ts` 451-452.
* The administrator's `deleteWidget` (`dashboard.service.ts` 757) drops no view,
  and a build running while its chart is removed creates one afterwards.
* An edit made while the chart builds joins that build (143), which is for the
  old spec; the administrator's `updateWidget` starts none.
* A page read that began before an edit or a sync caches its rows after the
  invalidation, and an empty answer to a failed query is cached as well.
* A condition that is not complete counts as true inside an explicit logic and
  is left out without one (`filterable-fields.ts` 158-160, 360).  A view's scope
  and a chart's filter that together have more than `MAX_CONDITIONS` are refused.
* A date bucket of NULL is drawn as a dash, and the drill into it selects
  nothing; a text that reads `(none)` shares its bar with NULL
  (`query-builder.ts` 159).
* The exports of a chart have the rows as rolled up, although `query-builder.ts`
  299 says every group.
* A preview of groups counts a group without a value as 0 (`Number(null)`,
  `dashboard.service.ts` 359-372): "Other" may show a minimum of 0 that no record
  has, although the comment (347-351) says that a tail is folded only when that is
  exact.  A grouping is scaled by the aggregation `spec.measure` names.
* A chart split into series that has a breakdown is cut at its first 201 bars in
  the order of the axis (`dashboard.repository.ts` 249-252), without an "Other" and
  without a word; `query-builder.ts` 282-288 calls that the old behaviour and says
  that reaching a limit is never silent.  Read from the table it has all its bars.

The reports (`bs/reports`):

* An export pages by record id and takes the first N of that order, the screen
  the first N of its own.  With N at the count's cap the screen says "N+".
* `upsertColumn` and `deleteColumn` (433-446) clear no cache; the comment at 408
  says that cached pages go when columns change.  `setColumns` and
  `setAccessRoles` are no transaction.
* A page or a count read before a clearing and stored after it stays until it
  expires (a page 60 s, a count 30 minutes), and so does what a clearing leaves that
  failed: `cache.service.ts` 78-80 swallows the error.
* The total of an unfiltered table of 2,000,000 rows or more is `reltuples` of its last
  ANALYZE (199-210); under a view's N below it, the total is N and no estimate.

Datasets (`bs/datasets`, `bs/mapping`):

* A dataset without a key column cannot be created: `key_column` is NOT NULL
  (`datasets.sql` 25) and `create` inserts NULL (140) after it has made the
  table, which stays; DataSourcesTab.tsx 200-201 offers to leave it blank.
* An import into the built-in dataset is always refused; a blank id takes the
  row's place in the file as its id, which may be another row's.
* An edit that failed is not always made good by repeating it (`update`, 200-297).
  When two labels give one name, the repeat numbers the new names anew, and `ADD
  COLUMN IF NOT EXISTS` takes over the column that was made for the other, with
  its type.  When another edit comes between, a column that was added and never
  registered stays.  `FieldsMatchColumns` is about the other repeats.
* An edit that fails does not clear the catalogue and may leave the mapping of a
  dropped column; a label dropped and added in one edit, or given to two fields,
  leaves the new field unmapped; a column a chart's view uses cannot be altered.
* An edit of a dataset that overlaps its removal seeds a mapping after the
  removal cleared it (`ON CONFLICT DO NOTHING`, `mapping.repository.ts`): a
  dataset created later under the key is mapped onto columns of the one before.
  `hist.loose` keeps such datasets out of `FieldsMatchColumns`.
* `autoMap` maps onto the columns of `fact_findings` whatever the dataset (the
  comment at 154 says so of the built-in one only).
* A dataset removed during its sync gets its state row back (463-467), and a
  changed watermark column keeps the old column's watermark (196).

Access (`bs/users`, `bs/roles`, `bs/groups`, `bs/auth`, `bs/database`):

* Two replacements of one set at once leave the union of both.
* The last two administrators may delete each other: each request counts before it
  deletes, and the two counts may precede both deletions (`users.service.ts` 76).
  No property forbids it.  Deactivating, editing roles and groups has no
  last-administrator rule at all.  `StartRestores` is what the next start makes good.
* The lists of views and dashboards trust the role names of the token, which may be
  up to 15 minutes old; `SeesWhatIsGranted` is about the names of now.
* A start goes on after a step failed (schema-bootstrap 174-192), so that the
  removal of the seed roles may follow a migration that did not happen.
  `BootKeepsAdmins` is about starts without a failure, and about those who are
  administrators by a role of their own.
* The default role of single sign-on, `viewer`, is one the start removes
  (README.md 51-52).

The frontend:

* A wrong password is a 401 like any other: it runs the refresh, and the message
  is "Could not reach the server" (api.ts 60-67, Login.tsx 26-28).
* A refresh answered after the user signed out stores tokens again (api.ts 30).
* The requests for a table's columns, a view's preview and its fields have no
  sequence number: whichever lands last is shown.  `LatestWins` is about those
  that have one.
* `ReportView` keeps page and filters when another view is chosen, and the old
  rows when a request fails.
* `jumpTo` does not wait for a click under way (DrilldownChart.tsx 177); a
  preview click while the next level loads mixes two levels (ChartEditor); a
  save that ends after its editor was cancelled closes the editor open then.


## 9. What the models leave out

* Cell conversions, column types, layout of files and screens, wording,
  logging, passwords and signatures.  Audit rows: nobody waits for them and the
  program reads none back.
* A row without a watermark value (351) and a change of the watermark column:
  the promise of the watermark is about neither.  Rows of a paused request (the
  driver is taken to deliver none); the preflight awaits are one step.
* A crash after Postgres has committed a chunk and before the backend knows is
  the commit followed by the crash.  A `CREATE MATERIALIZED VIEW` that Postgres
  goes on with after the backend died is taken to end before the crash or never.
* The size of the pool of connections to MS SQL (a failed flush leaves its
  request paused, holding one of four), and several replicas of the backend.
* Charts: the legacy widgets with a fixed source, the order of cards, a second
  dashboard.  The ceiling of 5000 groups of a level (`MAX_CHART_GROUPS`).
  ChartMatview takes what a spec answers as given; ChartQuery says
  what that is.
* A query reads each id once at most (a scan that moves with its index may meet a
  row twice).
* Reports: preferences, the files' layout; dataset browsing is a view without
  scope.
* Access: a file of users or roles is imported a row at a time; of a dashboard's
  operations only ownership, grants and whether it is active; views are edited,
  not made or removed (`datasets` removes them).
* Frontend: PersonalizedDashboard, the virtual table, parsing of files, and the
  tabs of users, roles, groups, mappings and syncs, each one form with one
  request (the sync tabs poll).  In `Screens` a user opens another screen only
  once App's own requests are answered.
* Deployment, samples and the legacy schema: no program state.


## 10. Running

```
tlc -workers 2 -config DatasetSync.cfg MCDatasetSync.tla      # and DatasetSyncLive, SyncRerun
tlc -workers 2 -config SyncSchedule.cfg MCSyncSchedule.tla
tlc -workers 2 -config ChartMatview.cfg MCChartMatview.tla    # and ChartMatviewLive
tlc -workers 2 -config ChartQuery.cfg MCChartQuery.tla
tlc -workers 2 -config Reports.cfg MCReports.tla              # and ReportsStraddle
tlc -workers 2 -config DatasetAdmin.cfg MCDatasetAdmin.tla
tlc -workers 2 -config AccessControl.cfg MCAccessControl.tla
tlc -workers 2 -config Screens.cfg MCScreens.tla
tlapm DatasetSyncProofs.tla
tlapm RefreshProofs.tla
tlapm ChartQueryProofs.tla
tlapm AccessControlProofs.tla
tlapm ScreensProofs.tla
tlapm DatasetAdminProofs.tla
tlapm FilterProofs.tla
tlapm ReportsProofs.tla
```

No run takes longer than about three minutes on two cores.  `PROJECT.json` lists
every run with its configuration, the mutants, the lines each definition models,
the hazards and the theorems.
