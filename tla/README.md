# Specifications of RIAScout

RIAScout is a recruiting CRM over one Postgres: an HTTP api, a worker that consumes events which Inngest
delivers, a dashboard, an assistant that calls the api's commands as tools, a loader and a Python pipeline
that build the shared `market` data. This directory holds TLA+ models of the parts where several actors write
the same rows, where a call is several statements that can be cut off between any two, or where work is
retried: the places a unit test does not reach.

The parts, each with the runs of the model checker that exercise it and with what is proved of it:

| Part | Modules | Runs | Proved |
| --- | --- | --- | --- |
| Saving CRDs to a list, in the api and in the worker | `BulkAdd`, `ListSave`, `WatchedSave` | `saves` | typing, all safety properties, the refinement of `ListSave` |
| Writing the cells of a record | `RecordCells`, `AtomicEdits` | `batches` | typing, four safety properties, the refinement of `AtomicEdits` |
| The columns of a grid: provisioning and arranging | `GridLayout` | `layout`, `drop` | typing and all safety properties |
| Filters, and the prospecting page around them | `Filters`, `Prospecting` | `rail`, `all_ticked` | that a search finds only what its filter describes and a link is honest |
| Inviting teammates, from the call to the mail | `Invitations` | `onboard` | that an invitation is mailed at most once |
| Collecting the individual index of the regulator | `Collection` | `collect` | typing and all safety properties |
| Publishing a collection, and what is derived from it | `Publication` | `publish` | typing and all safety invariants |
| Loading published collections into Postgres | `Loader` | `load`, `race`, `departure` | typing and all safety invariants of `load` |

Each part also has an `MC` module with the instances of its runs; its proofs are in the module ending in `Proofs`.

To repeat: `tlc -config <run's cfg> <module>` for a run, `tlapm <module>.tla` for the proofs; `PROJECT.json`
lists runs, properties, the lines each definition translates, the hazards and the theorems.

## 1. Inventory

Paths are relative to `src/`. "Hard" says what can go wrong in ways a test would hardly show.

### Lists and jobs
* **List saves** (`apps/api/src/modules/lists/commands/add-to-list.ts`, `libs/feature/lists/`,
  `apps/worker/src/modules/lists/`). State: `entity_record`, `list_member`. Up to `SYNC_ADD_MAX` picked CRDs are
  added inside the call; more of them, or a filter, become a `background_job` row and an event. Both ends run
  `performBulkAdd`: per chunk one transaction that upserts records and inserts memberships. Hard: a worker
  that dies between two chunks, a retry over committed chunks, two saves that meet in one upsert, CRDs that
  are spelled differently. Correct when a record never enters without its membership, when a save reported as
  completed is completely there, and when counts are not invented.
* **Background jobs** (`libs/feature/jobs/job-progress.ts`, `apps/api/src/modules/jobs/`). State: one row per
  job. `start` resets it, `advance` increments, `complete` and `fail` end it. Hard: attempts that overlap, a
  `fail` that is itself lost. Correct when it settles and never claims more than was done.
* **Event queue** (`libs/system/queues/`, `event-publisher/`, Inngest itself). One step per function, one
  retry. Hard: a send that fails after delivery, a step that Inngest gives up on while it still runs.
* **Job watch** (`dashboard/src/modules/lists/mutations/use-add-to-list.ts`): polls the row and toasts once.
  Hard: what it reads may be undone by a retry.
* **List creation and listing**: one insert, one read.

### Records and grids
* **Record cells** (`libs/feature/entities/cells/cell-writer.ts`, `update-record-values.ts`,
  `create-entity-record.ts`, the assistant's `update-record.tool.ts`). State: `entity_record_value` rows with
  a version and a source. Every write is an upsert whose WHERE clause holds the guards: an expected version,
  and machines yield to humans. Batches run in a transaction and roll back on the first clash. Hard: two
  batches in opposite orders, versions that go stale between a snapshot and the write, reasons read by a
  second statement. Correct when batches are atomic and a human's value is never lost to a machine.
* **Transactions** (`libs/system/database/transaction-runner.service.ts`): effects deferred to after the
  commit, which a crash drops; no caller defers one today.
* **Workspace provisioning** (`libs/feature/entities/data/provision-workspace.ts`, called by
  `libs/system/auth/auth.ts` and `prisma/seed/provision.ts`). State: entity, attributes, default view, its
  fields and their paths. No transaction. Hard: a run cut off anywhere and repeated, two runs that overlap, a
  release rolled out over grids that users have arranged.
* **Grid layout** (`move-view-field.ts`, `update-view-field.ts`, `update-view-sort.ts`, the view settings of the
  dashboard). State: LexoRank, visibility and pinning of each field. Hard: a rank computed from a list that
  has changed, from neighbours in different blocks, or between equal ranks.
* **Filters and sorts** (`libs/feature/entities/filter-sort`): compilers from a tree to SQL. No state. Hard: a
  condition that compiles to nothing, NOT over a value that is NULL. Correct when the SQL selects what the tree means.
* **Record and grid queries** (`libs/feature/entities/grid`): a hydrator of pages over those compilers.

### Reading the market
* **Prospecting search and facets** (`libs/feature/prospecting`, `dashboard/src/modules/prospecting`): a search per
  rail of facets, and a page that keeps the rail, the ticked rows and the url. Hard: the url is written by an effect whose
  navigation is under way while the rail changes, a link is read by other rules than it was compiled by, ticks outlive
  the rows they were made on. Correct when the rows are those the filter describes and the url is the rail's.
* **Advisors, firms and movement queries**: single reads of the `market` schema.
* **Assistant** (`libs/feature/assistant`): tools over the same queries and commands, an approval before each
  write, a filter language that it compiles and puts in links, conversation memory.

### Accounts
* **Onboarding and invitations** (`apps/api/src/modules/onboarding`): an invitation row, then the event that mails
  it, per address. Hard: a crash between the two, two calls at once, a timestamp that must not move.
* **Mail** (`libs/providers/mail`, `apps/worker/src/modules/mail`): classified errors, failover between
  transports, idempotency keys. Hard: a mail sent twice or never.
* **Sign-in and sessions** (`libs/system/auth`): on sign-up an organization, a member and the provisioning, one
  after the other without a transaction.
* **Object storage**, **request context, logging, errors**, **health endpoints**: no state of their own.

### Building the market data
* **Market loader** (`etl/load-market.ts`, `etl/lib/`): a lock file and staged loads. Hard: two loaders, a
  loader that died or was killed above a stage that runs on, a collection published or rebuilt between two stages, a
  stage run alone. Correct when a snapshot that counts as complete is the collection's and stays true.
* **Market derivation** (`etl/sql`, `libs/feature/movement/derive-movements.sql`): affiliations and movements
  derived from tenures by set-oriented SQL.
* **Market-data collection** (`market-data/src/riascout_adv_data`: `individual_plan`, `individual_download`,
  `storage`, `workflows`): an adaptive partition of a capped search API, resumable downloads, an immutable
  artifact store. Hard: a stop between a page and its manifest, a source that drifts from the plan.
* **Market-data publication** (`individual_canonicalize`, `individual_snapshots`, `workflows`, and `canonicalize`,
  `snapshots`, `monthly_reports` for firms): pages become rows and errors behind a status, rows become a table per year,
  both become a release, all in one DuckDB file. Hard: a publisher that dies on page 900, a newer parser over old
  rows, a rebuild beside an export. Correct when what is called published is all there, once, and of one version.
* **Dashboard**: the user interface over all this. Its optimistic cell edits never run: `column-defs.ts:43` switches
  editing off in the grid.

## 2. The modules and how they correspond to the code

### `BulkAdd`: saving to a list

One step is one statement or one transaction. A *save* is a call of `AddToListCommandHandler.execute`; it runs
`performBulkAdd` in *attempts*: attempt 0 is the api's own synchronous path, attempts 1 and up are started by
Inngest when it has the event.

| Variable | In the program |
| --- | --- |
| `entity_record`, `list_member`, `job` | the tables |
| `asked`, `reply` | the request, and what the call came to |
| `inngest`, `started` | the run of the event as Inngest sees it |
| `pc`, `plan`, `pos`, `result` | an attempt's control, its CRDs, its loop index, the counts of its last chunk |
| `brought`, `joined` | history: what the commits of a save inserted |

`Refuse`, `Queue`, `AddNow`, `SendEvent`, `LoseEvent` and `Answer` are the api; `StartAttempt`, `Report` and
`TimeOut` are Inngest (external: modelled by how the code uses it); `Resolve`, `StartJob`, `CommitChunk`, `AdvanceJob`,
`CompleteJob`, `Throw`, `FailJob` and `Crash` are the worker. `CommitChunk` is the whole transaction: the upsert of the
chunk's records (`Inserted`, `Returned`), the insert of memberships (`NewMembers`) and the counts. CRDs arrive as
decimal names, which the api compares as strings and Postgres casts to numbers (`CrdOf`), so `"3"` and `"03"` are two
picks of one record and their chunk cannot be upserted (`OneRowEach`).

`ListSave` is what saving promises: a record enters the CRM together with its membership, a save adds only what
it asked for, and success is reported only of what is there. `BulkAdd` implements it (`ImplementsListSave`).
`WatchedSave` composes `BulkAdd` with the dashboard's `watchJob`, `MCWatchedSave` instantiates. A worker may also die
with its attempt returned and its answer unheard (`TimeOut` of a returned attempt): the retry then resets a completed row.
`overtaken` names the saves that Inngest has retried while an attempt still ran: what the row promises of progress and of a
final success is claimed of the others only.

### `RecordCells`: the cells of one record

One step is one SQL statement under read-committed isolation. A row that a transaction has written, or has found
stale and so locked, belongs to it (`owner`, `draft`) until it ends, and a statement that needs the row waits.
Actors are calls: `Updates` (update-record-values), `Tools` (the assistant's update after approval: find, insert,
snapshot, then the api's update), `Creates` (create-entity-record, no transaction) and `Machines` (the machine
writer of cell-writer; nothing calls it yet, the code is written for it). `Written`, `VersionGuard` and
`MachineGuard` are the upsert's SET and WHERE; `Row` is what a transaction sees of a row; `Abort` is a
transaction ended from outside (Postgres' deadlock detector, Prisma's time limit).

`AtomicEdits` is what editing promises: a batch is judged against the cells of one moment and is then there as a
whole or not at all. `RecordCells` implements it (`ImplementsAtomicEdits`). `MCRecordCells` holds the batches.

### `GridLayout`: the columns of a grid

One step is one statement; nothing runs in a transaction. The tables are one entity's: `entity`, `attribute` (the
metadata of each row), `views` (how many default views), `fields` (the field rows in order of creation, with the
attribute of their path, `None` before the path is written). A *run* is a call of `provisionWorkspace`, by sign-up or
by the re-provisioning script: `FindEntity`, `CreateEntity`, `ReadAttributes`, `WriteAttribute`, `Continue` (an
attribute that needs nothing), `FindView`, `CreateView`, `ReadFields`, `ReadPaths`, `CreateField`, `CreatePath`,
`Finish`, and `Crash` anywhere. `Change` pins or hides a column; a move is `ReadForMove` (the ordered list, the slot,
the rank) and `WriteMove`. Ranks are integers with LexoRank's step of 8 between neighbours; `Between` halves a gap,
which the bounds let happen at most once or twice, and `RankAt` fails for equal ranks as `between` throws. A release
names no attribute twice, as the seeded definitions do. Positions of attributes, labels and widths are left out, and
so is the loop over an attribute's choices: no seeded attribute has any. `MCGridLayout` holds the releases of the
runs.

### `Filters` and `Prospecting`: the rail, its search and its url

`Filters` has no state. A condition is `[field, op, value]`, a value `[form, spelled, items]`: whether it is a scalar,
an array or an object, and whether its items are written as the column stores them. `OPERATORS`, `EXTRA_BY_KIND`,
`AgentOperatorsFor` and `REGISTRY` are the four operator tables; `Readable` and `NormaliseValue` are what the
assistant accepts and what it makes of it; `CompileAgentFilter` builds the tree; `CompileFilterTree` is what the
compiled SQL is true of, in SQL's three values and with conditions that compile to nothing dropped; `Found` is the
WHERE of a search. The compiler recurses; here it is written out for four levels, AND, NOT, OR and condition, which is
the deepest tree that the assistant's filter or the rail produces. `Meaning` is the reference: what a filter says of a
row, without tree or SQL; a row is excluded only if it matches an excluded condition. `Unjudged` are the rows with no
value for an excluded condition, which the search leaves out though they match nothing.

`Prospecting` is the page. `opened`, `url` and `nav` are the url it was opened with, the one it is rendered with and the
one a navigation is under way to; `hydrated`, `due` and `touched` are its ref and the state of its effects; `selection` is the
rail, `unmapped` the conditions of the link named above the rows, `answered` the last
search that succeeded (its rows stay while another is under way) and whether the newest failed, `ticked` the rows to save.
`Hydrate` is the effect that reads the link together with the run, in the same commit, of the effect that writes the
url: that one still has the empty rail. `SyncUrl` is any later run of it and `Land` the end of a navigation (external).
`SetFacet`, `UnsetFacet`, `Clear`, `Dismiss`, `Toggle`, `ToggleAll` and `Reload` are the user, `Answer` is the search.
`Controlled` is what the control of a facet can hand on. The links are those whose search the assistant has reported, so
filters that its tool accepted (`LinksAreAccepted`). The options and counts of a facet are left out, as are the text of a
search and the sort of its rows.

### `Invitations`: from the call to the mail

An invitation is named by its call and its place there. `Read` filters the addresses that are taken, then `Create` writes
a row and `SendEvent`, `SendEventUnheard` or `LoseEvent` follows for each; `DieInCall` is a crash. `Start` and `TimeOut` are
Inngest (external). A run of `send-mail` is at most `MaxAttempts` attempts: `Send` hands the message over, `NotReached` is
an error before anything left, `Hear` is the answer, `Throw` a time-out or a death that leaves the delivery open. The
provider (external) takes a message, once for a key, or declines it, whether or not the worker still waits (`Accept`,
`Decline`). The provider's keys are kept for 24 hours, and the model has them for ever: retries are over by then.

### `Collection`: the plan and the downloads

`planning`, `highest`, `broad`, `pending` and `shards` are the planner: it asks for the highest CRD and the broad total,
then `Probe` takes a range off its stack and accepts, splits or gives it up, and `FinishPlan` and `SignPlan` write
payload and manifest. A download takes the ranges in order: `SkipPage` takes a page it finds with its manifest,
`FetchPage` asks the source and validates, `StorePayload` and `StoreManifest` keep it, `Complete` and `Seal` close the
collection, `Unlink` is a manifest that could not be written and `Stop` an end anywhere. A file is its name: day,
range, number and (the digest of) its records. `NextDay`, `Gain` and `Lose` are the calendar and the source. `first`, `gained`
and `lost` are history. Requests that are retried inside the client are one request here.

### `Publication`: rows, snapshots and a release

One step is one connection to the DuckDB file or one transaction of a longer one; `open` is the call that has it open,
and a command that wants it then fails (`Busy`). A publisher goes `Register`, `ExistingResult`, `StartOrResume`
(`StartFresh`, `Resume` or `Incompatible`), `OpenPages`, `LoadPage` for each page, `ClosePages`, `Finish`; a builder
`OpenBuild`, `BuildYear`, `CloseBuild`; an exporter `Validate` (the gates of `workflows`), `Check`, `MakeStaging`,
`Copy`, `Promote`. `Crash` ends any of them, `Upgrade` installs a newer parser, whose rows have its version. Nothing
in the code keeps a rebuild from starting while another call is between two connections and acts on what an earlier
one found (`Holding`: a publisher on its run, an exporter on its gates), and nothing does here; `beside` is history,
and says that this has happened. What the properties still promise then is little, see below.

### `Loader`: the lock and the stages

`status`, `registrations`, `individuals` and `rebuilds` are the seed database as `Publication` leaves it: a page
commits its registrations, the last step the identities. `lock` is what the lock file says. A registration is an
adviser at a firm, and lets the adviser conduct business or not. `Look`, `Remove`, `Create` and `Fill` are the
acquisition, in steps that any other loader may come between; `release` and `Kill` are the ends, and `Fail` a stage
that throws. A loader that is killed removes its lock or does not, according to the signal, and the process of its
stage may run on (`GoOn`).

Of the stages, `Identity`, the dated observations (`MakeRuns`, `MakeRows`, `Read`, `Swap`) and `Movement` are modelled, and a
loader runs all of them or one alone (`--only`). `Identity` makes firms known (`firm`: those of the filings, `Filed`, and the
employers of all pages committed) and advisers; `Rows` takes only registrations whose adviser and firm are known, as
`044-current-affiliation.sql:95-96` does, so a stage run alone, or after a publication since the identities, leaves
registrations out of a run that says complete. `covered` is history, and says which firms were known to the loads that
completed a run. The staging tables are there or not (`made`), and belong to nobody: two loads drop and fill each other's.
`shared` is history, and says that two loads have had them at once; `late`, that a collection was published after a later
one had begun, or rebuilt under it. `Movement` records what each collection was compared with (`diffed`): the body of
`derive_movements` is not in the repository. The stage that resets the database is left out.

## 3. Runs

| Run | Bounds | Shows |
| --- | --- | --- |
| `saves` | a queued save of up to three picks, a filter or respelled ones, chunks of 2, two attempts, whose event may be lost and whose attempts throw, die and overlap, watched; a synchronous save of one of its CRDs beside it | `TypeOK`; no record without membership; completed means saved; progress adds up and success is final unless attempts overlapped; a synchronous answer counts exactly what it inserted; counters never overstate; a success toast is true; the tables implement `ListSave`; a queued save settles unless a process of it dies |
| `batches` | an update, a tool, a create, a machine; three cells, one of them the market's | `TypeOK`; no lock left; manual edits win; reasons are true; batches pinned to their snapshot and atomic; every call ends |
| `layout` | two runs of two releases over three attributes, one change, one move, crashes, overlap | `TypeOK`; a finished run leaves every attribute with a column; one of each unless runs overlap; a found grid is not rearranged; a move lands |
| `rail` | a facet of each kind, one over an array; four rows with NULL, empty and several values, pages of 3; about 115 links; two acts | a search finds only what its filter describes and misses only rows without a value to exclude by; a link shows the same rows or says so; the url ends as the rail's |
| `onboard` | two calls over one address, two attempts in each of two runs, the first call's runs may be given up on | mailed once and only with a row; a row is mailed unless its call or its job failed |
| `collect` | five possible records, cap 2, ranges of 2, pages of 1, two downloads, two days, two changes of the source | `TypeOK`; the plan is a partition; a completion reconciles; what drift can cost; a quiet source is never refused; the planner ends |
| `publish` | three publishers, one builder, two exporters, two pages, two versions, two years | a page's errors come and go with its rows; and until a rebuild starts under another call: published is complete; progress is committed; snapshots and releases are of one version |
| `load` | two loaders, in full or for one stage, two collections of two advisers at two firms, one of them not filed, one rebuild | complete snapshots are whole, of the firms known, unless two loads shared the staging tables; absences are true; movement compares neighbours, unless a collection came late |
| `drop` | one run, one change, one move | *violated*: a column dropped behind the pinned ones lands elsewhere |
| `race` | as `load`, with three collections | *violated*: two loaders run at once |
| `departure` | as `race` | *violated*: an adviser who is gone gets no row that says so |
| `all_ticked` | no link, four acts | *violated*: the box above the rows is ticked and the rows are not |

The bounds are small but let each case happen. A save of two or three chunks is the least with a first and a short
last one; two attempts are what `retries: 1` allows, for saves and for mail; two batches that lock two cells in both
orders are the least that deadlock; three attributes are the least for a move whose neighbours lie in different
blocks, and two releases for one backfill. Ranges and pages of 2 and 1 make the planner split and a range take two
pages; two changes are an exchange of two records behind an unchanged total. Three publishers are one that publishes,
one that dies in the rebuild and one that resumes it. Two collections are one with a predecessor; a third, with a
predecessor that has one itself, and a registration that only later lets the adviser conduct business, are in the two
violation runs. Two loaders are one that is in the other's way, or takes over from a dead one; the theorems are for
any number. Each link of `rail` has at most two conditions in a group: the compiler treats the conditions of a group
alike, and two are the least that repeat a field or share a branch. Symmetry is used in `publish` (publishers,
exporters) and `load`, `race` and `departure` (loaders), where they are interchangeable and no property is temporal.
Deadlock is not checked: every part comes to rest when its calls have been made.

Each property has been seen to fail for a plausible slip of the code: the definitions marked `slip:` in the modules, which
nothing else uses.

### Disagreements between the code and what is said of it
The violation runs are the four findings of `PROJECT.json`. Met on the way and without a run of their own:

* Saves and jobs. Overlapping attempts lose increments, against `job-progress.ts:6-7`. The failed toast says that
  nothing more was added (`use-add-to-list.ts:62`) when a retry may still add the rest. After a retry the row's
  `created` leaves out records of chunks already committed, while `get-job.tool.ts:19` calls it "records newly brought
  into the CRM by this job". `watchJob` ends silently after a refused poll or its ninetieth, against
  `use-add-to-list.ts:39`.
* Cells. A cell absent from the snapshot is written without a version, against `update-record.tool.ts:136`; a create drops the
  version of its values (`create-entity-record.ts:114`), against `schema.ts:191`; two creates for one CRD race and
  the second fails on the unique key, against `create-entity-record.ts:64`.
* Grids. The retry of a sign-up that crashed between view and columns leaves every column off, though `auth.ts:188` calls the
  retry safe; a move between two equal ranks fails, against `provision-workspace.ts:163`.
* Invitations. `invite-teammates.ts:106-110` says that a crash between row and event replays the send; nothing does, and a
  repeated call skips the address. Repeated addresses of one call are not compared with each other.
* Filters. Rows whose column is NULL are not found by a filter that excludes values of it (`filter-compiler.ts:47`),
  though they match nothing and `agent-filter.schema.ts:40` says that rows matching are excluded. `Meaning` reads it
  as the schema does, and `SearchMeansFilter` without its exception for `Unjudged` rows is violated by any filter
  whose `none` compares a column that is NULL in a row. A list facet that a link opened with `isNoneOf` becomes
  `isAnyOf` at the first tick (`multi-select-facet.tsx`). A range with only its minimum typed is searched as `[n, 0]`.
  An operator that a column does not have is dropped from a search without a word.
* Market. An empty lock file reads as held for good by process 0 (`lock.ts`). A killed loader leaves its lock to be
  removed by hand or by the next one, as `lock.ts:29` says, while the process of its stage may still be writing. With
  two loads at once `SnapshotsWhole` fails without its exception: one swaps in the runs that the other has staged
  before their rows are there. A run that a stage loaded alone is complete without the registrations at firms not yet
  in `market.firm`, and later loads do not complete it unless they know more firms and the seed still has it. A
  collection published late is not the predecessor of the one already processed (`048-movement.sql`), and
  `DiffedInOrder` fails then.
* A rebuild beside another call. A publisher that holds its progress then loads into a run of another version or
  publishes it, and a release is copied after its gates were passed on other rows (`workflows.py:186`):
  `PublishedIsComplete`, `SnapshotsFollowRows` and the progress part of `ProgressIsCommitted` fail without their
  exception for `beside`.

Exceptions of this kind (`overtaken`, `shared`, `late`, `beside`) are conditions on the history of a property, and not
assumptions on the behaviour of the model: the runs and the theorems are about all histories.

### Fairness
* `BulkAdd`: the api's call goes on once begun, Inngest delivers and reports what it has accepted, and a worker that has begun
  an attempt goes on; nobody has to call the api, and events may be lost before they are accepted. The watcher owes nothing.
* `RecordCells`: a call that has begun issues its next statement, and Postgres aborts a transaction of a cycle of waits, which
  its deadlock detector does.
* `Invitations`: a call goes on, Inngest starts what it has queued, a run goes on; the provider owes no answer, since the
  client's time-out ends a wait.
* `Collection`: the planner is one loop and goes on. Downloads owe nothing.
* `Prospecting`: React runs the effects of a render and the router ends a navigation. The user and the server owe nothing.
* `GridLayout`, `Publication` and `Loader` claim no liveness.

The event loops justify it: each statement is awaited and either answers or throws.

## 4. Proofs

All theorems are for every value of the constants that the modules' assumptions allow.

* `BulkAddProofs`: `TypeCorrect`, `NobodyStranded` (`NoStrandedRecord`) and `CompletedSaved` (`CompletedMeansSaved`).
  The last is not inductive: its strengthening (`SafeInv`) says of every attempt that what lies before its loop index
  is in the list, that a plan is what was asked unless it was a filter, and that a row or an answer says completed
  only after an attempt has been through its plan. `ProgressIsWhole` (`ProgressAddsUp`: never more processed than
  requested, and all of it once completed) and `SuccessStays` (`SuccessIsFinal`: when Inngest has ended a run whose
  last attempt returned) are about saves that were not `overtaken`: their attempts follow one another, also after one
  that died with its row completed, and the row's progress is the loop index of the last, less a chunk that is
  committed and not yet reported (`ProgressInv`). `RowsBackCounters` (`CountersNeverOverstate`) and
  `AnswerCountsExact` (`SyncCountsExact`), overlap or not: the counters and what the attempts have still to report are
  backed by disjoint sets of rows that the save's own commits inserted (`CountsInv`). `SuccessToastHolds` is a theorem
  of `WatchedSave`. `Implements`: `BulkAdd` implements `ListSave`; a step that reports success must map to `Finish`,
  which is where `SafeInv` is needed again.
* `RecordCellsProofs`: `TypeCorrect`, `NoLockStays`, `ManualEditKept`, `SnapshotPinned`, `ReasonIsTrue`. The invariant
  says that a locked row belongs to a running transaction that has passed a write of it, that its draft is the
  committed row or a newer one and a human's if that was, and that a tool's cells are those of its snapshot or of a
  higher version: without the last two a commit could lower a version or turn a human's cell. `Implements`
  (`ImplementsAtomicEdits`): a transaction has locked the rows of the writes it has passed, its drafts are what these
  writes make of the committed cells, and it has noticed whether one of them clashes (`BatchInv`). Nobody else commits
  to rows that it holds, so at its commit or its conflict this is the whole batch, judged at that moment; a batch
  without a clash is `Save`, one with a clash `Conflict`, and a timeout or a victim `Fail`.
* `GridLayoutProofs`: `TypeCorrect`, and `ColumnsComplete` (`EveryAttributeHasColumn`), for any number of runs of any
  releases, crashed, overlapping, beside any moves and changes. No statement of anybody removes a row or a field, or
  moves a path (`RowsPersist`, `FieldsPersist`); so what a run knows to be there stays there, and the invariant
  (`RunInv`) says that every attribute before the loop's index, or not to be done, has its row or its column. A path
  is written to the field with the id the run has kept, which must be nobody else's and still without one
  (`OwnFields`, `OwnField`). `NothingTwice` (`OneOfEach`), while no two runs have overlapped: one run is at work, what
  it has read of the view is still so, and no attribute its loop has ahead has a column (`Quiet`); it is here that a
  release must not name an attribute twice. `FoundGridStays` (`FoundGridKept`): a run adds fields only behind the ones
  of a view it found, and hidden. `MovesLand` (`MoveLands`): the list a move has read holds every column once, the
  pinned ones first (`ListingSorted`, `LockedFirst`), and so does what is left of it without the moved column
  (`OthersListed`); the new rank is between those of the slot's neighbours (`RankBetween`), so that the column comes
  strictly behind as many columns as its slot says and strictly before the others (`WriteLands`), and is in that slot
  of every sorted list (`Placed`). The ranks of the model are integers where LexoRank's are fractions: the hypothesis
  that the slot's neighbours ascend also says that there is an integer between them (`Room`), which of LexoRank's
  ranks is always so.
* `ProspectingProofs`: `SearchesMeanFilters` (`SearchMeansFilter`) and `LinksAreHonest` (`LinkIsHonest`), for any
  fields, rows, accepted links and acts. A condition whose field takes its operator compiles (`OperatorsCompile`), to
  a value of SQL's logic that is is true when the row fits and false when it has a value and does not fit (`Stands`,
  `Misses`); AND, OR and NOT of such values stand for the conjunction, disjunction and exclusion of the filter, and a
  row that fits no excluded condition misses them all or is `Unjudged` (`SelectedIsJudged`). The page adds that every
  url it can be at, and its rail, have such conditions only, that an unread page is at the url it was opened with, and
  that the rail is the link's until somebody touches it (`PageInv`). If then nothing is named, the rail has every
  condition of the link, each in the form its control would have made, and these say the same of every row.
* `InvitationsProofs`: `InvitationMailedOnce` (`MailedOnce`). What the provider has sent out is what it has served the
  key of, and nobody knows of an invitation before its row is there: the job, the worker and the provider each only
  have what was handed to them.
* `CollectionProofs`: `TypeCorrect`, and `PlanPartitions` (`ShardsPartition`), for any index, cap and page size and
  any drift while planning. The invariant (`PlanInv`) is about the ranges accepted and those on the stack together:
  they are disjoint, cover the CRD numbers up to the highest, and the accepted ones are countable. Accepting moves a
  range from one to the other and splitting replaces one by its halves, which meet at the midpoint (`SplitPartition`).
  `CompletionsReconcile` (`CompletionReconciles`): a page is taken only while its range has the planned total, so the
  number of a page says how many records it holds and how many come before it, whichever download fetched it
  (`FilesInv`). `DriftIsBounded` (`DriftCosts`): whenever a page of a range was taken, the range had its count, and
  held all the records that never left (`DriftInv`). The records that were seen and were not there at one of these
  moments came in or left since, so of one range no more can be missing than came or left; the ranges are disjoint,
  which adds the bounds up. `QuietIsServed` (`QuietSourceDownloads`): while the source is as it was planned, every
  page file is the page of the plan's index that its number says, and a download has taken the pages of a range by
  number (`QuietInv`); so a retained page is as valid as a fetched one, and no two files have one number. That the
  records of complete ranges add up to the plan's total holds of any source (`AllRetrieved`): the sum over the ranges
  is the only function that takes them one by one (`SumIsUnique`), and counting records is one.
* `PublicationProofs`: `TypeCorrect`, `PublishedComplete`, `ProgressCommitted`, `SnapshotsFollow`, for any pages,
  versions, years and calls, unconditionally: each property says itself what it claims once a rebuild has started
  beside a call. The invariant (`SafeInv`) has a part for every history (`BaseInv`: the types, and that a page has the
  errors of its rows, once), and one for as long as there was no such rebuild (`IInv`). The latter is one invariant,
  since its conjuncts lean on each other: `RunInv` says what the tables hold of a run, published or not; `LoadInv`
  what a publisher knows between two connections, that the run is still its own, its count is that of the pages before
  it and no count is ahead of the run; `SnapInv` and `ReleaseInv` that a build, and the copy after the gates, still
  see the rows they saw. The rebuild under a call that is `Holding` is the one step that breaks them, and sets
  `beside`.
* `LoaderProofs`: `TypeCorrect`; `SnapshotsAreWhole` (`SnapshotsWhole`), `AbsencesStayTrue` (`AbsencesAreTrue`) and
  `MovementInOrder` (`DiffedInOrder`), with any loaders at once, killed or not, and any order of collections. What is
  staged was read from a seed in which a published collection is whole, with the firms of that moment, and one swap
  replaces both tables; while no two loads share the staging tables, the rows in them are those of the runs in them
  (`WholeInv`). An absence needs no such condition: it was true of every collection at the moment it was read, and
  whoever swaps it in files it under the newest one of that moment. While no collection came `late`, no run is
  complete, and no collection compared, before those of the collections before it (`OrderInv`). That one loader runs
  is no theorem: the run `race` refutes it.
* Only model-checked: liveness (`QueuedSaveSettles`, `EditsEnd`, `PlanEnds`, `InvitationsSettle`, `RailStaysShared`),
  which the prover cannot express.

## 5. What is not modelled, and the plan

Left out of the modelled parts: the tenancy checks (every query is scoped to the workspace, and one workspace is
modelled), the coercion and validation of values (a cell's value is a member of a set), row locks inside a chunk's
upsert, the text of messages. The components marked `not_modelled` or `partly` in `PROJECT.json` say what is left out and why:
most of it is single reads, rendering, set-oriented SQL that replaces a table as a whole, and configuration of libraries.

What would come next, in this order:

1. `SignUp`: user, organization, member and `GridLayout`'s provisioning, with the session hooks that resolve a
   workspace afterwards (`auth.ts:119`, a hazard that no property covers).
2. The rest of the filter compilers: paths over relationships, the sort compiler and the paging that relies on its order.
3. The firm side of the pipeline, composed with `Publication`'s one connection.
