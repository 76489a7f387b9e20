# A TLA+ model of roxt

roxt records telemetry of ROS 2 robots: a command reads a recording (MCAP or
rosbag2), validates its events and writes them into a SQLite database in
batches; other commands query, replay and compare what was recorded.  What is
recorded is meant to be evidence after an incident, so the questions worth
asking are about what may be lost, repeated, reordered or misreported on the way
from the file to the table, when threads, processes and failures get in each
other's way.  This directory answers them with TLA+ specifications, TLC runs and
TLAPS proofs.

Paths below are relative to `src/crates/`.

## 1. The system

| Component | State | Operations | Hard part |
|---|---|---|---|
| MCAP source, `roxt-ingest/src/mcap_source.rs` | the receiver end of a bounded channel, a thread handle; on the thread: the mapped file and the position in it | `new`, `next_event`, `shut_down`, `drop`; `run_reader` and `convert` on the thread | two threads, a blocking channel, a consumer that goes away, a thread that dies |
| rosbag2 source, `roxt-ingest/src/ros2bag.rs` | SQLite connection, `last_rowid`, `buffer`, `exhausted` | `new` with its checks, `refill`, `next_event` | errors in the middle of a page, a caller that polls on |
| source contract, `roxt-core/src/source.rs` | - | `next_event` | what "exhausted" and an error may mean |
| event schema, errors, `roxt-core/src/event.rs`, `error.rs` | - | `validate` | which layer owns which invariant |
| store, write path, `roxt-store/src/lib.rs` | one connection per process; the `events` table | `insert_events`, `insert_batch`, `try_insert_batch` | several writers, one write lock, failures and crashes between rows and batches |
| migrations, `roxt-store/src/migrations.rs`, `SqliteStore::open` | the schema, the table `schema_migrations` | `open`, `apply_pending`, `apply_one` | a version read outside the transactions that rest on it, several builds |
| row encoding, `roxt-store/src/row.rs` | - | `insert_params`, `decode_row` | round trip |
| `roxt rec`, `roxt-cli/src/commands/rec.rs` | `batch`, `total` | the loop of `run` | batch boundaries, what is lost and what is reported when something fails |
| query engine, `roxt-query/src/lib.rs` | - | `query_events` | window bounds, order, snapshots beside writers |
| `roxt diff`, `replay`, `query`, `roxt-cli/src/commands/`, `main.rs` | two lists of events; the previous stamp | `first_divergence`, `scaled_gap`, `parse_timestamp` | two snapshots at two moments, numeric edges, exit codes |
| Zenoh source, `roxt-ingest/src/zenoh.rs` | none, a stub | - | - |

**Interactions.**  `rec` calls `next_event` of one source and `insert_events` of
one store.  The MCAP source and its thread share a channel of 2048 items; nothing
else in the program is concurrent inside a process.  Processes meet in the
database file: any number of recorders, of any builds, may open and write it at
the same time, and SQLite's single write lock, its transactions and its
primary keys are all that orders them.

**What makes each component correct.**

- *Sources*: every item once, in file order; an error is not followed by what it
  poisons; the end is reported only when nothing is missing; memory is bounded;
  every call and every drop returns.
- *Store*: a batch lands whole or not at all; the result of a call says exactly
  what is in the table; a call ends whoever holds the lock.
- *Migrations*: the recorded version and the schema never disagree; a build never
  ends up with a database newer than itself; history is never rewritten.
- *rec*: the rows of a run are a prefix of its source; the loss is bounded by a
  batch; what the operator is told is true.
- *rec on a recording, end to end*: "recorded N" means that the table is the file;
  memory does not grow with the file; the process ends with its reader thread.
- *Query, diff, replay*: adjacent windows partition, the order is total, a result
  is one moment of the database; a diff that finds nothing is sound; a replay
  keeps the recorded pace.

## 2. The modules

| Module | Models | Relation |
|---|---|---|
| `TelemetryStream` | the contract of `next_event`, without threads | abstract |
| `McapSource` | `mcap_source.rs`: reader thread, channel, consumer | implements `TelemetryStream` (checked and proved) |
| `Ros2BagSource` | `ros2bag.rs`: opening, paging row by row, errors | - |
| `StoreContract` | a log that calls append to, batch by batch | abstract |
| `EventStore` | `insert_events` and its transactions: operations only | - |
| `StoreClients` | `EventStore` closed with arbitrary callers | implements `StoreContract` (checked and proved) |
| `RecordLoop` | the loop of `roxt rec`, without its source: operations only | extends `EventStore` |
| `Recorder` | `RecordLoop` closed with any source that keeps its contract | any number of processes |
| `McapRecording` | `RecordLoop` closed with `McapSource`: one process end to end | implements `Recorder` (checked and proved) |
| `SchemaHistory` | a version that goes up one by one | abstract |
| `SchemaMigrations` | `SqliteStore::open` by several builds | implements `SchemaHistory` (checked and proved) |
| `Timeline` | `query_events` with `roxt query`, `replay` and `diff`, beside recorders | recorders as `Recorder` and `SchemaMigrations` show them |
| `McapSourceProofs`, `Ros2BagSourceProofs`, `StoreClientsProofs`, `RecorderProofs`, `McapRecordingProofs`, `SchemaMigrationsProofs`, `TimelineProofs` | theorems about the module of that name | extend it and `TLAPS` |
| `Counting` | lemmas about numbers and finite sets | used by `McapRecordingProofs` and `TimelineProofs` |
| `MC...` | the instances TLC checks | extend the module of that name |

Definitions that say "Variant" in their comment are plausible mistakes in the code
at that place.  No action uses them; they are there to see which property notices
when one takes the place of the definition it is next to.

### McapSource

The reader is a program counter `rpc` with one action per blocking or visible
step of `run_reader`: `OpenStream` (`MessageStream::new`), `ReadRecord` (the next
turn of the loop, with `convert`), `SendItem`/`SendFails` (`sender.send` with a
live or a dropped receiver), `ReachEnd`.  `ReaderPanics` is the mcap crate
panicking on that thread, which drops the sender and nothing else.  The consumer
is a program counter `cpc`: `CallNext` starts a `next_event` that blocks in
`recv`, `RecvItem` and `RecvDisconnected` are its two outcomes, and `shut_down`
is two steps, `DropReceiver` and `Join`, because the order of the two is what
keeps it from hanging.  `DropSource` is `Drop` between two calls (`&mut self`
rules out more).  `chan` is the `sync_channel`; `receiver` and `reader` are the
two `Option` fields.  `delivered` and `ended` are history variables.

A record keeps what `convert` decides on: readable or not, a `log_time` that fits
an `i64` or not, an empty topic or not.  `MaxStamp` stands for `i64::MAX`.

### Ros2BagSource

`OpenBag` is `new()` with its checks in their order.  A `next_event` either pops
the buffer (`PopEvent`), says `None` again (`PopNone`), or runs `refill`, which is
a page (`StartPage`) and one step per row the statement yields: `BufferRow`,
`RejectRow` (an invalid event, reported after `last_rowid` has moved onto its row),
`MistypedRow` (a column of another type, reported before it has), `ReadError` (the
statement fails, at any row), and `EndPage`.  `last_rowid`, `buffer` and
`exhausted` are the fields of the struct; `fetched` counts the rows of the page
against the `LIMIT`.  `delivered` and `rejected` are history variables.

### EventStore, StoreClients

`slice`, `written` and `spc` are the argument, the counter and the position of
each connection's `insert_events`; `tx` is the open transaction, `lock` the write
lock of the database, `events` the committed rows in the order of their ids.
`BEGIN` is deferred, so `InsertRow` takes the lock.  `FailBatch` may happen at any
statement, including the busy timeout, and fills `failure` with the two stamps of
`insert_batch`: `first_stamp` is the `event_stamp_ns` of `WriteFailure`, both are
the logged range.  `CrashWriter` is the death of the process: SQLite drops the
open transaction.  `StoreClients` calls `insert_events` with any slice of a given
set, one call after the other.

### RecordLoop, Recorder, McapRecording

`RecordLoop` is `run()` of `rec.rs`: `OpenSource`, `Refuse`, `OpenStore` and
`OpenStoreFails` before the loop; `OnEvent`, `OnError` and `OnEnd`, the three
answers of `next_event`; `FlushDone`, `FinalDone` and `WriteFails`, the results of
`insert_events` in its two places; `Die`, the end of the process anywhere.  `report`
is the line the operator reads, with its number.

`Recorder` adds a source that yields any sequence of events that may end with an
error, which is the shape `TelemetryStream` grants (and `pos`, what it has yielded),
and an operator who repeats a command that did not succeed: `RunAgain` starts at
the first event, as `run` does.  `streams` has what the source yields run by run:
an error may be gone when the command is repeated, or be a new one, and the
recording may have grown or been replaced.

`McapRecording` puts the reader thread and the channel of `McapSource` in place of
that source.  The reader works from the moment the source is open, so also while
the database is being opened and while a batch is being written, and run()
returns only after the drop of the source has joined it.  `Begin`, `Call`,
`Receive`, `Disconnect`, `EndOfStream`, `Store`, `Drop` and `JoinInDrop` are the
main thread, `Read` is the reader.  Panics of the mcap crate are left to
`McapSource`, which shows what they do.

### SchemaMigrations

Each process walks through `SqliteStore::open`: `OpenFile`, `SetWal`,
`CreateBookkeeping`, `ReadVersion` (the one look at the version, the check
against the future and the filter of the migrations), then per migration
`BeginMigration`, `ExecuteSql`, `RecordVersion`, `CommitMigration`; every
statement may fail (`OpenFails`, `PrepareFails`, `MigrationFails`).  `Supported`
gives each process the number of migrations of its build: today there is one
migration, and the module says what the scheme does when there are more.
`objects` are the migrations whose tables the file has, `audit` the rows of
`schema_migrations`.  DDL that meets tables which are already there fails, which
is what happens to the loser of a race.

### Timeline

`query_events` is `ValidFilter`, `Matches` and `SelectIds` (the WHERE and ORDER BY
of `build_sql`), and `Decodes` (`decode_row` and `into_stored`).  `SelectIds` puts each
matching row at the place that the number of matching rows not behind it gives, so
that its meaning does not hang on how a sort is programmed.  One SELECT sees one
moment of a database, so a query is one step.  A command is `Start` with its
checks (`Refused`: bounds that do not parse, a speed that is not positive, a file
that is not there), `Load` once per database, each at its own moment, or
`LoadFails`, and then `PrintRows` (`roxt query`), `Show` per event and `EndReplay`
(`roxt replay`, with `ScaledGap` for `scaled_gap`), or `Compare` (`roxt diff`, with
`FirstDivergence` for `first_divergence`).  `ExitCode` is that of `main.rs`.

Meanwhile `CreateFile`, `Migrate`, `StartRun`, `RecordBatch` and `EndRun` are the
recorders, one step per committed batch: that batches land whole and in order is
what `EventStore` and `Recorder` establish, and is taken from there.  Several runs
of one robot may go on at once in one database (`active`), and each writes the same
session.  A row keeps whose event it is, which one, in which run it was written (the
only thing `same_observation` ignores), its stamp and topic, and whether it decodes.

`ScaledGap` is `(gap_ns as f64 / speed) as u64`: a saturating subtraction, a
conversion to `f64`, a division in `f64`, and a cast that truncates and saturates.
Both the conversion and the division round to nearest, up or down.  Floats are
outside of the source, so they are constants: `F64` is the conversion, `Quotient`
the whole part of the rounded quotient, and all that is assumed of them
(`FloatAssumption`) is what IEEE 754 grants, an error of at most one part in
`PRECISION` each (2^53).  The speed is an `f64` to begin with, so it is exactly some
fraction.  `MaxStamp` stands for `i64::MAX` and `MaxNanos` for `u64::MAX`.

## 3. The runs

| Run | Checks | Instance |
|---|---|---|
| `mcap` | `TypeOK`, `InOrderNoGap`, `NothingAfterError`, `EndMeansComplete`, `ReadAheadBounded`, `CallReturns`, `DropReturns`, `ImplementsContract` | all files of at most 5 records of 4 kinds and a file that does not open; a channel of 2; panics allowed |
| `mcap_panic` | finds `PanicIsSurfaced` violated | files of at most 2 records |
| `bag` | `TypeOK`, `PagesLoseNothing`, `NoneMeansAllRows`, `SkippingGetsThrough` | all files of at most 5 rows of 4 kinds, pages of 2; every kind of metadata |
| `bag_skip` | finds `SkippingAlwaysEnds` violated | files of at most 3 rows |
| `bag_dropped` | finds `NothingDroppedSilently` violated | two files of at most 3 rows; one file of at most 3, with and without a topic |
| `store` | `TypeOK`, `WrittenIsCommitted`, `FailureNamesFirstLost`, `InsertReturns`, `ImplementsContract` | 2 connections, batches of 2, slices of 0 and 5 events, 2 calls each |
| `store_lost_range` | finds `LostRangeIsCovered` violated | one call each, batches of at most 3 |
| `recorder` | `TypeOK`, `RowsArePrefix`, `LossIsBounded`, `ReportIsTrue`, `RunEnds` | 2 recorders, batches of 2, 4 streams; one of them may run twice, on the same stream or on another |
| `mcap_recording` | `RecordingIsTheFile`, `MemoryIsBounded`, `ProcessEnds`, `ImplementsRecorder` | one process; batches of 3, a channel of 2; files of at most 7 good records with 3 kinds of tail, and one that does not open |
| `migrations` | `TypeOK`, `SchemaIsRecorded`, `OpenedIsMigrated`, `NoOpenOfTheFuture`, `AuditIsFinal`, `OpenReturns`, `ImplementsHistory` | 2 processes of a build with 2 migrations, 1 of a build with 1; the file starts at any version up to 3 |
| `migrations_race` | finds `FailureLeavesPrevious` violated | 2 processes, 1 migration |
| `timeline` | `TypeOK`, `NoDivergenceIsSound`, `SameSessionNoDivergence`, `PaceIsKept`, `WindowsPartition`, `AnswersOnlyGrow` | a robot's database and a fleet database, two robots, sessions of 3 and 1 events, batches of 2, two runs of one session that may overlap, a file with rows of another tool; stamps up to 7 and floats of two bits; three diffs, four queries, four replays |

What they show, beyond the module they are about:

- `mcap_recording` is the end-to-end statement: between a record in the file and a
  row in the table are a thread, a channel, a batch and a transaction, and still
  "recorded" means that the table is the file, a bad record leaves exactly the
  whole batches before it, and what is in memory is bounded by a batch, a channel
  and one record.  `ProcessEnds` is about the reader that is blocked on a full
  channel when the database does not open or a write fails.  `ImplementsRecorder`
  says that such a process is one of those of `Recorder`, so that what is proved
  of `Recorder` is about it.
- `recorder` is about what several recorders and repeated runs do to each other:
  nothing, apart from waiting.  A run that is repeated adds a prefix of its own and
  disturbs nothing of the run before.
- `timeline` says what a diff with exit code 0 is worth, how far a replay drifts, that
  a query can be repeated and that its window can be cut, at whatever moment of the
  recorders it was asked.

**Why the bounds are enough.**  What the code compares with a bound it compares
for being below, at or above it.  With a channel of 2 and files of 5 records the
reader blocks on a full channel, is drained, blocks again and still has a record
to read; the rest of a file after an error is long enough to be seen if it
leaked.  With batches of 2, a slice of 5 has a full first batch, a full middle
one and a partial last one; two connections are enough for every conflict about
one lock, since the lock's holder and one other are all a step ever looks at.
Streams of 0, 2 and 3 events end before, on and behind a batch boundary.  Two runs
of a recorder are one that fails and one that repeats it, with every pair of
streams; the other recorder runs once beside both.  In `mcap_recording` 7
records are two whole batches and a partial one, 6 end on the boundary, and the
channel and the hand hold exactly one batch more while one is being written; one
process is enough there, since `recorder` has the others.  Three openers give a
race between equals and an older build beside it, and versions up to 3 a file from
the future of both builds.  Five rows with pages of 2 are two full pages and a
partial one, with errors at every place of each.  In `timeline` the stamps of a
session (2, -6, 2) tie with each other and with those of the other robot, go back,
and lie further apart (8) than the largest stamp (7): both keys of the ORDER BY
decide, and the subtraction saturates.  A float has a significand of two bits, so
that every kind of rounding happens: the saturated gap of 7 becomes 8, which is
longer than it, as `i64::MAX` becomes 2^63; at the speeds 3/4 and 3/2 the quotients
are no floats either, and at 1/4 the cast saturates.  The diffs are of two files with
and without a robot, and of a file with itself while it is written.  Windows are cut at
every stamp there is, ties included.  Recorders stop once the command has read its last
row, and the model ends with the command.  `MaxRuns`, `MaxGood`, `MaxRecords`,
`MaxRows`, `MaxCalls` and `MaxAttempts` bound TLC only.  No run uses symmetry, since
most check liveness.

**Fairness.**  `McapSource`: weak fairness of the reader's steps and of a call
that is in progress: the operating system runs threads that can run.  Nothing
obliges the caller to call again or to drop, and nothing obliges the reader to
panic.  `StoreClients`, `Recorder`, `SchemaMigrations`: weak fairness of each
process's next step: SQLite answers every statement, if only with `SQLITE_BUSY`
after the busy timeout that rusqlite sets (5 s), which the models include as a
failure that is always possible.  `McapRecording`: weak fairness of both threads.
Crashes, repetitions and new calls are never fair.  `Ros2BagSource` is about a caller
that polls until it gets `None`: weak fairness of opening and of its calls, and
strong fairness of the rows that can be read, since a read may fail at any time but
does not fail at one row for ever.  `Timeline` assumes none and checks no
liveness.

**Deadlock** is checked in every run.  Where the system may stop for good, an
explicit `Finished` or `Refused` stutter says when: anything else that stops is
reported.

### Where code and documentation disagree

Each violation run states a sentence of the repository as a property.

- `PanicIsSurfaced` (`mcap_source.rs:93`): a panic on the reader thread is said to
  have surfaced as a channel error.  It surfaces as `Ok(None)`, and `roxt rec`
  reports a complete recording.
- `LostRangeIsCovered` (`roxt-store/src/lib.rs:5`): the logged range is that of
  the first and last event in order of insertion; with stamps out of order an
  event of the lost batch lies outside of it.  `WriteFailure` itself is right
  (`FailureNamesFirstLost`): it names the first event that is missing.
- `FailureLeavesPrevious` (`migrations.rs:49`): the loser of a race for a migration
  reports that it failed, on a database that has it.  Opening again succeeds
  (`OpenedIsMigrated` and `SchemaIsRecorded` hold throughout).
- `SkippingAlwaysEnds` (`roxt-core/src/source.rs:24`): a mistyped row is fetched
  again for ever, so a caller cannot skip it.  It can skip an invalid event
  (`SkippingGetsThrough`).
- `NothingDroppedSilently` (`README.md:44`), in two ways: only the first `.db3` file
  of a split bag is read, and a message whose topic is not in the `topics` table is
  passed over by the inner JOIN of `refill`.  Both end in `None`, without an error;
  `bag_dropped` has bags of both kinds.

Others that a reading of the code shows, without a run:

- `roxt-query/src/lib.rs:47` says that a stored row which violates the schema is
  reported as `CorruptRow`.  Columns and annotations are checked; `validate` is never
  called (`row.rs:83-96`), so a row of another tool with an empty topic is returned
  as an event.
- `diff.rs:4-6` promises 0 for identical and 1 for divergent timelines.  Every error
  is 1 as well (`main.rs:58`), so a script cannot tell a database it could not read
  from one that differs; that 0 means identical is `NoDivergenceIsSound`.
- The `offset` of `CorruptPayload` is documented as a byte offset (`error.rs:52`) and
  is a message ordinal (`mcap_source.rs:174`).
- `README.md` says that only the current batch is in memory, but up to 2048 events
  wait in the channel: `MemoryIsBounded` has the bound that holds.
- `SourceExhausted` (`error.rs:67`) is returned by no source.

## 4. The proofs

Seven modules prove what their component promises for every value of its
constants; `Counting` has what two of them need to know of numbers and finite sets.
All follow one argument: an inductive invariant `IInv` that says where everything
is, one lemma per action or per conjunct, and the properties as its consequences.
The assumptions are the named `ASSUME`s of the modules, which TLC evaluates in the
runs: sizes are positive, sources are sequences of items with nothing behind an
error, files and bags have the shape described above, and commands take the
arguments that `diff.rs`, `replay.rs` and `query.rs` let them take.  Of floats the
assumption is `FloatAssumption`, the error bound of IEEE 754; TLC evaluates it on the
two-bit floats of the instances.

Every invariant and every action property that a run checks is a theorem, and so is
every refinement of a safety specification.

| Module | Theorem | States |
|---|---|---|
| `McapSourceProofs` | `TypeCorrect`, `Invariance` | `Spec => []TypeOK`, `Spec => []IInv` |
| | `DeliveryInOrder`, `ErrorIsLast`, `EndIsComplete`, `BackpressureHolds` | `[]InOrderNoGap`, `[]NothingAfterError`, `[]EndMeansComplete`, `[]ReadAheadBounded` |
| | `McapImplementsContract` | `ImplementsContract`, the refinement of `TelemetryStream` |
| `Ros2BagSourceProofs` | `TypeCorrect`, `Invariance` | `[]TypeOK`, `[]IInv` |
| | `NothingLost`, `NoneIsComplete` | `[]PagesLoseNothing`, `[]NoneMeansAllRows` |
| `StoreClientsProofs` | `TypeCorrect` | `[]TypeOK` |
| | `WrittenCommitted`, `FailureNamed` | `[]WrittenIsCommitted`, `[]FailureNamesFirstLost` |
| | `StoreImplementsContract` | `ImplementsContract`, the refinement of `StoreContract` |
| `RecorderProofs` | `TypeCorrect`, `Invariance` | `[]TypeOK`, `[]IInv` |
| | `RowsPrefix`, `LossBounded`, `ReportTrue` | `[]RowsArePrefix`, `[]LossIsBounded`, `[]ReportIsTrue` |
| `McapRecordingProofs` | `Invariance` | `[]IInv` |
| | `RecordingFile`, `MemoryBounded` | `[]RecordingIsTheFile`, `[]MemoryIsBounded` |
| | `McapImplementsRecorder` | `ImplementsRecorder`, the refinement of `Recorder` |
| `SchemaMigrationsProofs` | `TypeCorrect` | `[]TypeOK` |
| | `SchemaRecorded`, `OpenedMigrated` | `[]SchemaIsRecorded`, `[]OpenedIsMigrated` |
| | `FutureRefused`, `AuditFinal` | `NoOpenOfTheFuture`, `AuditIsFinal`, action properties |
| | `OpenersImplementHistory` | `ImplementsHistory`, the refinement of `SchemaHistory` |
| `TimelineProofs` | `TypeCorrect`, `Invariance` | `[]TypeOK`, `[]IInv` |
| | `NoDivergenceSound`, `SameSession` | `[]NoDivergenceIsSound`, `[]SameSessionNoDivergence` |
| | `WindowsJoin`, `PaceKept` | `[]WindowsPartition`, `[]PaceIsKept` |
| | `AnswersGrow` | `AnswersOnlyGrow`, an action property |

**McapSource.**  None of the safety properties is inductive: they speak of
`delivered`, which only repeats what the channel held, which repeats what the reader
held.  `IInv` adds what ties the stages together: a reader about to send holds the
last item produced (`TypeInv`, `ReaderInv`); `delivered`, then the channel, then the
hand are the first items of the file with nothing between (`PipelineInv`); only the
last item produced can be an error (`PoisonInv`); a reader that returned while the
receiver lived had nothing left (`ExhaustInv`); the receiver goes before the handle,
the handle before the end is reported (`ShutDownInv`); the reader is ahead by a full
channel, and by one more item only when it holds one (`AheadInv`).
`DrainedIsComplete` is the step from an empty channel and a finished reader to a
complete delivery.  The refinement then needs no further invariant: `RecvItem` is
`Yield`, the `Join` inside `next_event` and `CallAfterEnd` are `Exhaust`,
`ReaderPanics` is `Break`, and every other step is a stutter.

**Ros2BagSource.**  `last_rowid` cuts the rows in two.  `PagesLoseNothing` is nearly
inductive; what it lacks is that before the bag is open nothing was read
(`OpenInv`), that within a page the buffer is what the page has yielded, and that
the source is exhausted only behind the last visible row (`PageInv`).

**StoreClients.**  `WrittenIsCommitted` counts rows of a call; `IInv` says where they
come from: a slice is made of the events of its call (`SliceInv`), an open transaction
is the beginning of the chunk (`TxInv`), the position of a call decides how much it
has written (`PhaseInv`), and the rows of the current call are the first `written`
events of the slice (`RowsInv`, `LandedInv`) in its order (`OrderInv`).  In the
refinement, `CommitBatch` is the append of a batch and all that happens inside of a
transaction is a stutter.

**Recorder.**  A run counts its rows twice, in memory and in the table.  `IInv` says of
every recorder that the batch is what was polled and not counted and that the count
is whole batches (`BatchOK`), that a batch is a single chunk, so that a call writes
all of it or nothing (`CallOK`), and that the rows of a run that goes on are its
count, plus the batch whose call has just returned (`KeptOK`).  `RowsInv` says of
every row that it is an event of its writer's source, of a run there has been, which
is why a repeated run starts with nothing of its own in the table.  Most steps leave
the table alone and share one lemma, `QuietStep`; `CommitStep` and `RunAgainStep`
are the two that do not.

**SchemaMigrations.**  The version a process has read may be out of date at every
later statement.  `IInv` says that the database is at one version, tables and
bookkeeping alike (`DbInv`), that behind its first DDL statement a process has the
lock, and only then (`LockInv`), and that the migration in hand leaves no gap and,
inside of the transaction, is the next one (`HandInv`).

**McapRecording.**  The composition is reasoned about with what is proved of its
parts: `McapRecordingProofs` instantiates `McapSourceProofs` for the two threads of
the source and `RecorderProofs` for the recorder they feed, with a stream that is the
file's good records, and an error behind them if the file has one.  Its `IInv` is the
invariant of both parts and the link between them: the one run has neither panicked
nor been repeated, a process that goes on has had no error from its source
(`NoErrorYet`), and a run the source made fail has committed every whole batch in
front of the bad record (`IngestOK`).  The refinement mapping makes the position of
the recorder's stream what `next_event` delivered.  A step is a step of the source
(a stutter of `Recorder`), of the loop, or of both at once, and what is left to prove
is that the item the channel hands over is the next one of the stream.  `MemoryIsBounded` adds up three bounds: the channel and the hand
(`S!AheadInv`), the batch, and the rows of the table, which count up from 1.

**Timeline.**  What an answer is rests on `Lists(t, S, f)`: f lists the rows S of the
table t in the order of stamps and ids.  `Selected` shows that `SelectIds` makes such
a list: the place of a row among finitely many in a strict total order is a
bijection (`Ranking`).  `OneList` shows that there is only one.  So the answers to
two adjacent windows, one behind the other, are the answer to their union, since
they list the same rows in order (`ListsJoin`); an answer of more rows keeps its order
(`AnswerOfMore`); an observation is in an answer as often as in the table
(`AnswerCounts`), so that equal answers count alike; and two tables that hold a
session once and in full both list the session's own events by stamp and number
(`SessionInOrder`), whatever lies between them.  Of the state, `IInv` says that what
was loaded is what the first `length[k]` rows of the table answer, which more rows
do not change (`LoadedInv`), and how long a replay has slept so far (`PaceInv`).  One
gap is rounded twice and cut to whole nanoseconds: `Roundings` and `RoundedUp` bound
from above what comes out, by the gap times (1 + 1/PRECISION)^2 over the speed, and
`RoundedDown` from below, by the gap times (1 - 1/PRECISION)^2 over the speed and
less than a nanosecond; `GapBounds` adds the two saturations, and `KeptOn` adds up
the gaps.  The factors stay what they are however many gaps there are, only the
nanoseconds add up.  The lower bound needs that the span itself fits in an `i64` and
the slept time in a `u64`; the upper bound needs nothing.

Two of these arguments are inductions over data, which the provers cannot make with
the library's induction theorems.  They are put as an argument about the least
exception (`LeastExists`): if a place exists at which two lists differ, or at which a
table does not count up, there is a first such place, and the place before it
refutes it.

**Only model-checked**: all liveness (`CallReturns`, `DropReturns`, `InsertReturns`,
`RunEnds`, `ProcessEnds`, `OpenReturns`, `SkippingGetsThrough`), which is out of the
prover's reach.

## 5. What is not modelled

- Time and texts: `ingested_at_ns`, log lines, error messages, the layouts of the
  table, JSON and CSV output (`query/format.rs`), the syntax of timestamps beyond
  that they parse or not.
- The parsing of arguments, which is clap's; of `main.rs` the exit code and which
  command runs.
- SQLite itself: the models take its transactions, its deferred `BEGIN`, its one
  write lock, its busy timeout and its recovery as given, and
  `EventStore`/`SchemaMigrations` name them.  A disk that loses committed data is
  outside.
- The mcap and memmap2 crates; the mapped file does not change while it is read.
- Annotations: no source makes one, so the bounds `validate` puts on them are never
  reached; a stored annotation that does not decode is in `Timeline`.  The
  field-by-field copy of a valid row to its columns and back is taken for exact.
- Floats beyond their error bound: which of two neighbours a value is rounded to does
  not matter to any property.
- The Zenoh source is a stub that `roxt rec` refuses, and there is no daemon yet.
- What a future migration would do to a process that has the database open, or to a
  query of an older build: there is one migration, so the source does not say.

## 6. Plan

The components of section 1 that have control are modelled.  What is left, in the
order of its use:

1. The recorders of `Timeline` are an abstraction of `Recorder` and
   `SchemaMigrations` that is argued for and not yet proved: show that
   the table of `Recorder` grows by whole batches as `RecordBatch` lets it.
2. `Timeline` with several robots' sessions interleaved in more than one batch each,
   once its instance can be made smaller elsewhere.
3. The Zenoh source and the daemon, when they exist.
