# Verification of the movefaults monorepo

TLA+ models of the parts of this repository whose correctness depends on
interleavings, failures and retries, the TLC configurations that check them, and
TLAPS proofs of their main invariants for every value of the constants. Every
definition is translated from the source; `PROJECT.json` maps each one to the
lines it stands for.

1. [The system](#1-the-system)
2. [Modules](#2-modules)
3. [What the runs show](#3-what-the-runs-show)
4. [What is proved](#4-what-is-proved)
5. [Divergences between the code and what is said of it](#5-divergences)
6. [Plan](#6-plan)
7. [Not modelled](#7-not-modelled)

## 1. The system

The repository collects and processes GNSS data of a network of continuous and
campaign stations. It is a set of programs that meet in one PostgreSQL /
TimescaleDB database and in directories of files.

| Component | State it keeps | Operations | Talks to |
|---|---|---|---|
| **TimescaleDB output adapter** (`services/vadase-rt-monitor/src/adapters/outputs/timescaledb.py`) | two row buffers, two flushing guards, two drop counters, the connection pool, the periodic task | `write_velocity`, `write_displacement`, `write_event_detection`, the two flushes, `_periodic_flush`, `close` | called by every station's core; writes hypertables |
| **Ingestion core** (`src/domain/processor.py`) | receiver mode, three streaks, freeze flag; open event; last sample; integrated displacement | `handle_velocity`, `handle_displacement`, `check_event_threshold`, `_update_mode` | reads a queue, calls the output port |
| **NTRIP client, directory reader** (`src/adapters/inputs/`) and **composition roots** (`scripts/run_ingestor.py`, `scripts/replay_events.py`) | connection, receive buffer, backoff; bounded queue per station; stop events | `start`, handshake, reconnect, `consume`, shutdown | caster, core, adapter |
| **Ingestion pipeline** (`services/ingestion-pipeline`) | `ingestion_logs`, `rinex_files`; Celery queue | `FileScanner.scan`; tasks `standardize_format`, `validate_rinex`, `load_to_postgres` | file system, broker, database |
| **Dispatch callback** (`tools/drive-archaeologist/.../ingestion_dispatch.py`) | none of its own | `_dispatch` for each classified file | the pipeline's log table and broker |
| **Drive scanner** (`tools/drive-archaeologist`): `scanner.py`, `utils/checkpoint.py` | catalogue file, checkpoint log, pending batch | `scan`, `mark_scanned`, `save_checkpoint`, resume | file system, dispatch callback |
| **Scan jobs** (`scanjobs.py`) and the terminal interface | registry file, detached processes, console logs | spawn, pause, cancel, resume, prune | drive scanner processes |
| **Recycle-bin recovery** (`recovery.py`) | manifest, destination tree | pair, copy | file system |
| **Field-ops server** (`services/field-ops/src`) | log sheets, equipment, photos, users | batch upsert, photo upload, inventory, tokens | the browser application |
| **Field-ops browser application** (`frontend/src`) | IndexedDB queue, token | `addToQueue`, `flushQueue`, submit | the server |
| **Velocity reviewer** (`tools/velocity-reviewer`) | selections in memory, plot files and their backups | select, accept, export | MATLAB step downstream |
| **Bernese driver** (`services/bernese-workflow`), **IGS downloader** (`packages/pogf-geodetic-suite`) | campaign directories | prepare, check headers, run, two-pass run, collect; download | Bernese, mirrors |
| **Panel provisioning** (`bernese-workflow/.../panel_sanitizer.py`) | `$U/OPT` | plan, gate, commit | Bernese |
| **Database schema** (`migrations`, `services/field-ops/migrations`) | tables, keys, functions; one version table per chain | upgrade, downgrade | every program with a table |

Behaviour that is hard, and what makes each component correct:

* **Adapter.** All coroutines share one event loop; between two awaits the code is
  atomic, but a flush pops its batch, awaits the pool and the database, and puts
  the batch back if either fails, while writers refill the buffer, other flushes
  of the same buffer start, and `close()` cancels the periodic task at whatever
  await it has reached. Correct means: a row is at one place, it leaves memory
  only when stored or when the buffer is over its limit, losses are counted,
  buffers are bounded, no guard sticks, rows do not stay for ever, `close()` ends.
* **Core.** Three counters and a flag with resets on different branches; an event
  INSERT that raises in the middle of a handler; samples lost or replayed by the
  caster. Correct means: the mode follows the evidence, the row label is honest,
  every strong sample is in a reported event, events do not overlap, no second of
  motion is integrated twice.
* **Pipeline.** Feeders and workers are separate processes that read a row, decide,
  and write later; only two keys of the tables are unique. Correct means: no
  success without its catalogue row, one catalogue row per content, one chain per
  content, a status that follows the documented life cycle and reaches an end.
* **Stations.** Reads cut a stream anywhere, reconnects begin in the middle of a
  line, handshakes of two protocols end differently, a bounded queue separates two
  coroutines of which either may end first, and recorded lines carry a time of day
  without a date. Correct means: every sound line of a connection that holds is
  written once and in order, "complete" is said only when it is, the caster is not
  hammered, a replay keeps the pace of the recording.
* **Drive scanner.** Catalogue and checkpoint are two files with no common commit,
  and a crash or an interrupt falls between them or into a line; the checkpoint belongs
  to the folder and the catalogue, unless it is named, to the run. Correct means: what
  a later run skips is recorded somewhere, a complete scan is complete over the
  catalogues of its runs, repetitions are bounded by mishaps, and no verdict lets a
  drive be wiped unless what was not looked at is disclosed.
* **Scan jobs.** A registry without a lock that a save empties before it writes,
  interfaces that die between starting a scan and registering it, processes that outlive
  their interface, process ids that are used again. Correct means: a running scan is
  found again unless one of these happened while it ran, and one called complete has
  ended.
* **Offline queue.** Requests and answers are lost or late, flushes overlap, one bad
  record travels with good ones, tokens expire. Correct means: no accepted sheet is
  lost or stored twice, "synced" means stored, a queue of valid sheets drains.
* **Bernese driver and downloads.** Files whose existence or name is taken for their
  content; a driver that a timeout leaves behind; one `OUT/` for all sessions.
  Correct means: results and a priori values are those of the session, the pre-flight
  check means something when it passes, a preparation that returns left files that
  fit together.
* **Reviewer, recovery, panels.** Several files are rewritten one after the other and
  any write may be the last. Correct means: originals survive, repeating is harmless,
  a refusal touches nothing.
* **Schema.** Two chains of migrations over one database, each tested upwards only.
  Correct means: the schema is a function of the two revisions, and a refusal has a
  reason.

`PROJECT.json` lists under "hazards" the sharpest of these at the line where they bite, with
the properties that watch it.

## 2. Modules

| Module | Role |
|---|---|
| `RowLedger` | abstract: what a write-behind sink promises about each row |
| `TimescaleAdapter` | the output adapter; `Ledger == INSTANCE RowLedger` is its refinement mapping |
| `MCTimescaleAdapter` | bounds and symmetry for TLC |
| `TimescaleProofs` | theorems about the adapter, its refinement of `RowLedger` among them |
| `SignalMode` | the receiver-mode machine `_update_mode`, on its own |
| `SignalHistory` | `SignalMode` with the history of its inputs, to say what the counters mean |
| `IngestionCore` | one station's core: `SignalMode` composed with the event detector and the integrator |
| `CoreProofs` | theorems about the mode machine with its history and about the core |
| `IngestLifecycle` | abstract: the documented life cycle of an ingestion log row |
| `IngestionPipeline` | scanners, dispatch callbacks, Celery chains, two tables |
| `MCIngestionPipeline` | file sets and symmetry for TLC |
| `PipelineProofs` | theorems about the pipeline, its refinement of `IngestLifecycle` among them |
| `StationService`, `StationProofs` | one station from its source (caster, socket or files) to its writers, and theorems about it |
| `DriveScan`, `DriveProofs` | the drive scanner with its catalogue and checkpoint files, and theorems about it |
| `BerneseCampaign`, `BerneseProofs` | one campaign directory, the driver and the BPE processes, and theorems about them |
| `OfflineQueue`, `OfflineProofs` | field-ops form, queue, network and batch endpoint, and theorems about them |
| `OutlierExport` | the velocity reviewer's export |
| `ScanJobs` | detached scans and the registry that terminal interfaces share |
| `RecoveryCopy` | recycle-bin pairing and the manifest copy |
| `PanelProvision` | two-pass provisioning of Bernese panels |
| `SchemaMigrations` | both migration chains as statements over schema objects |
| `MCStationService`, `MCDriveScan`, `MCBerneseCampaign`, `MCOfflineQueue` | inputs for TLC |
| `DeskTools` | the five desk tools side by side, one at work at a time |
| `DeskProofs` | theorems about the reviewer's export, the scan jobs, the panels and the recovery |
| `MCDeskTools` | values for `DeskTools` |

Definitions marked "Mutation" are never used by a specification. Each is a form the
definition after it could have taken by a plausible slip of the programmer, and
`PROJECT.json` records which property is violated when it takes its place.

### TimescaleAdapter

A row is the ordinal of the write that accepted it. `flush[f]` is the activation of
`_flush_velocity` / `_flush_displacement` of a flusher: the periodic task, the
final drain in `close()`, or one of the tasks that writes spawn. Its phases are the
code's awaits: "acquiring" (`pool.acquire`), "executing" (`executemany`), and
"committed" for the time in which the database has the rows and the coroutine has
not resumed. Between phases a step does everything the code does without awaiting:
`EndFlush` is the restore, the `finally` clause, the swallowing of the exception
in `_flush_all` and the pop of the next buffer in one step. The two asyncio locks
guard code without awaits and are never contended, so they are not modelled.

Faults are of two kinds, as in the code's two except clauses: a refused connection
(`TooManyConnectionsError`, restored without a cap) and every other error (restored
with a cap), which may come after the INSERT took effect. A fault is possible while
fewer than `MaxFaults` have occurred; the number of each kind is part of the state,
so that a property can speak of what holds until a fault of one kind occurs.
Cancellation is delivered at the periodic task's next resumption and precedes any
other result (`Resumable`).

`RowLedger` is what callers rely on: accept, store, release what is stored, give up
rows only above the capacity, abandon rows only while closing. In the mapping `held`
is the union of the buffer and all batches under way.

### SignalMode, SignalHistory, IngestionCore

`UpdateMode(signal)` has one disjunct per branch of `_update_mode`, and the
thresholds are constants. `SignalHistory` adds the sequence of all signals.
`IngestionCore` abstracts a velocity to its horizontal magnitude in units that make
the threshold distinguishable (below, at, above) and the integrated displacement to
how often each second of motion was added, which is what distinguishes correct
from double integration. Decay and floating point are left out. A timestamp is a
second; the caster sends increasing timestamps, may skip some, and `Reconnect`
moves it back, as an NTRIP caster that replays a window does. `EventWriteRaises`
is an event INSERT that raises, with or without the row stored; the exception
leaves the handler before `event_active` and `last_velocity_time` change.

### IngestionPipeline

A feeder goes through "decided" (row read, not skipped), "committed" (row written)
and back to "idle" (chain sent, or not). A chain goes through the three tasks;
within `load_to_postgres` the catalogue query, the read of the log row, the commit
and the except clause (rollback, read again, commit) are steps of their own, since
other processes may write in between under READ COMMITTED. `Updated` is the ORM's
UPDATE: only columns whose value differs from the one read are written, which is why
the row read (`seen`) is part of the state. `FileScanner` skips "success" only, the
callback skips "pending" too (`Skipped`). A catalogue entry is the chain that
inserted it, because each chain works on a fresh temporary path and the path is the
only unique column. A feeder hashes one file at a time; the file is chosen freely, so
every directory order, repeated scan and concurrent scan is covered.

`IngestLifecycle` is the documented life cycle with one addition: a success whose
commit was not acknowledged may be reported as a failure once. The mapping takes a
success with a chain in the except clause as such a "doubtful" one.

### StationService

The parts are tasks of one event loop and the peer: the caster, `TCPAdapter.start`
with its handshake (or `DirectoryAdapter.start` with `RealTimeStrategy`), the bounded
queue, `IngestionCore.consume` and the `CompositeOutputPort`. A sentence goes over the
wire in two halves, so that a read, a reconnect or an endless line can fall between
them; what a line is worth (`KindOf`) follows from the halves it is made of. Header
lines, the blank line and a caster that answers `ICY` with or without headers are
part of the socket's contents, which is what decides whether draining eats data.
What the caster has made is a number (`clock`), and `FragmentAt` says what each half is,
so that a connection always carries a stretch of one known sequence. `Read` is one
`read(4096)`, with the check of the buffer's length; `PutLine` takes the first line out of
the buffer and puts it, or waits for room; the next `Read` comes when no line is left, as
in the code's inner loop. `IsLine` says which places of a sequence are one line, which is
all the model has of splitting at line ends.
`clock`, `owed`, `since`, `failures` and `fatal` are history variables: they say what
the caster sent and refused, and the code never reads them (the file reader does: there
`clock` counts the lines read). `owed` is the set of sentences that the caster sent whole
over one connection, less those whose end was not read when the connection broke, or was
read with an endless line; the lines read before that are in the queue, and stay owed. A
replay has the same queue and consumer, a sentinel at its end, and a recorded true
time whose date the strategy has to reconstruct.

Stations of one process share only the output adapter, so one is enough here; what
they share is in `TimescaleAdapter`. The interrupt cancels both tasks where they wait.

### DriveScan

The walk is a stack of directories with the entries that are left, visited in any
order, as `iterdir` gives no order. A record is in the output's buffer or in the
file; a path is in `known` (the set in memory), in the pending batch, and in the log
file, where the last line may be torn.

Which file a record goes to follows `scanner.py:102-105`: a run with `-o` writes to the
file it names (`catalogue`, with multiplicities), a run without writes to a new file with
the time in its name (`dated` is the union of these, `latest` the one of the latest run).
All of them share the checkpoint of the folder. Two flags keep the history apart:
`orphaned`, a run without `--resume` wrote the named file beside a checkpoint in use, and
`strayed`, a run with `--resume` and without `-o` went on with the checkpoint. One name
for `-o` and one folder are modelled (another folder has a checkpoint of its own), and no
two runs start within one second, which is the resolution of the name.

`Save` is one append. `SaveFails` is an append that raises with any prefix of it in the
file (`CutAppend`: cut inside a line or before its line break), after which the process
goes on with its batch; `KillInAppend` is the same with the process gone, and
`MigrationCut` is the same in `_migrate_legacy`, which then leaves the old checkpoint in
place. `Appended` continues a torn line as the next append does. `Interrupt` leaves past
the final save, as Ctrl-C does. `StartScan` decides between resume, refusal and
truncation from what the checkpoint loaded.

`Survey` is the same walk without output, with `Verdict`, `Warnings` and `Summary` over
its counters. Entries that are neither link, file nor directory are passed over without
a record, mark or counter (`PassOver`); of two entries with one inode the second counts
as a hardlink and, if it is an archive, stays closed, and the temporary files of two
archives may have one inode, since the first is deleted before the second is extracted.
The drive is a constant: `Entry` gives each entry its attributes (the commands whose
`--exclude` patterns match it among them), `TreeAssumption` says that entries form a tree
below the directory that is scanned, and `LegacyAssumption` what an old checkpoint names.
An inode number of zero is that of a file system without inode numbers and is never taken
for a link, as in the code. A survey touches no file, so that what it finds does not
depend on the scans before it; `SurveyLater` = FALSE bounds surveys to before the first
scan, and the theorems hold for both values.

### BerneseCampaign

A call is its list of steps (`prepare_campaign`: session table, products, generated
tables, antenna file, loading table; `run`: check, launch, wait, collect), done one
at a time. A generated file is known by the configuration it came from and by whether
its write ended. The BPE is external: it writes the outputs of its session one by one
and goes on when a timeout has killed only its driver. Nothing in the code ties its last
log line to its files, so `BpeEnds` may say "BPE finished" with outputs missing, and
`collect_outputs` then meets a session without coordinates or without SINEX; the history
variable `bare` says that this has happened. The session of a data file is
compared as the code does, by day of year alone for short names.

### OfflineQueue

The form, the flushes (one per mount or "online" event, any number at a time up to
`Slots`) and the server exchange requests in `wire`. A request may be served after its
sender has given up ("nobody"), its answer may be lost, the page may close at any
point. The server's validation is the conjunction `Valid`: a station field must be
there (empty will do), a datetime field must hold a date, and a text must fit its column,
where the form asks for none of these; its upsert keeps one row
per `client_uuid`. No page of the frontend calls `login()` of `api.ts`: `Login` stands
for whatever gives the user a token, at any time. Of the frontend's services, IndexedDB is its table of statuses.

### The desk tools

`OutlierExport`: a PLOT file is the set of its epochs, times are compared after the
rounding of `OUTLIERS.txt` (`Rounded`).

`ScanJobs`: every registry operation is a load, a truncation and a write, each a step of
its own with other interfaces in between, since `write_text` empties the file when it opens it.
`registry` is what a load returns: nothing for an empty file or one that does not parse, as
in `_load_jobs`, and two writers whose texts lie over each other leave either. Starting a
scan and registering it are separate steps too, and `KillApp` ends an interface between
any two of them, with the registry as it is at that moment. `exposed` is the
history of this: the scans that ran while a save undid or overwrote another or its interface died in
the middle of it, that were started and never registered, or that got the pid of a job
still known. `Kept` is the list comprehension that filters the registry.

`RecoveryCopy`: a path is the sequence of its names, and a destination is the item's
original path followed by the path below it, joined as in the code, so that a file may be
deleted from where a directory was: then `mkdir` raises (`Blocked`), or the copy finds a
directory at its destination, whose size may pass for the file's (`DirSize`), or `copy2`
writes into it (`Within`). A `$I` file names a place, is invalid, which makes an orphan,
or has a time or length on which `parse_dollar_i` raises something else, which ends the
pairing without a manifest (`Chokes`, `paired`). The rows come in the order of the
catalogue, the copy goes row by row.

`PanelProvision`: pass 1 plans, `Gate` refuses, pass 2 writes; a panel is the set of what
the sanitizer sees in its lines. `MaxparOf` sizes a panel only where a line sets MAXPAR
(`HasCeiling`); without one it ships `Unsized`, since the result of
`set_addneq2_maxpar` is discarded. `SchemaMigrations`: a revision is a sequence of
statements; `Possible` says which the database accepts, `Effect` what it changes, and a
command runs its statements in one transaction.

The five share no state. `DeskTools` chooses the tool in the initial state and leaves
the others' variables alone, so their state spaces add and do not multiply; every
behaviour of `DeskSpec` is one of each tool's own specification, which is how a theorem
about one tool becomes one about `DeskSpec`. The assumptions of the tools are there too:
`TreeAssumption` (a panel's kind, what it may contain, every panel is visited),
`SizingAssumption`, and `BinAssumption`: sizes are numbers, the members of a deleted
directory do not climb out of it, a `$I` path names something, and no drive is called
`_orphaned`. The destination is empty before the first copy.

## 3. What the runs show

All runs are exhaustive within their bounds. An invariant whose name ends in
"Invariant" is the conjunction of the properties in brackets, each of them a
definition of its own with its comment in the module; a few runs also check the type
invariant that way.

| Run | Checks | Bounds and why they are enough |
|---|---|---|
| `adapter` | `NoRowTwice`, `GuardNeverStuck`, `BufferBounded`, `LossIsCounted`, `ImplementsLedger`, `RowsSettle`, `CloseEnds` | three velocity rows and one displacement row, batch size 1, `BufferMax` 2, two spawned tasks, two connections, one fault: overflow, two flushes of one buffer at once, a restore onto a refilled buffer, both buffers in one `_flush_all`, and `close()` at every point |
| `signal_mode` | `ModeConsistent`, `StreaksAreRuns`, `ModeChangesOnEvidence`, `RowInvariant` (`FrozenOnScintillation`, `NoBadRunTrusted`, `LabelIsHonest`, types) | thresholds 3, 4 and 2, nine signals: enough for two mode changes and any interruption of a streak in between |
| `core` | `StrongMotionReported`, `IntegratedAtMostOnce`, `OpenEventEndsInRow`, `EventInvariant` (`EventsDisjoint`, `OpenEventIsReal`, types) | four seconds, speeds below, at and above the threshold, one replayed window, one failing INSERT; gaps up to `MaxGap` and beyond |
| `pipeline` | `SuccessIsCatalogued`, `PendingResolves` | a scanner and a callback over two files, three chains, two faults in `load_to_postgres` |
| `pipeline_dispatcher` | `ImplementsLifecycle`, `ContentInvariant` (`OneChainPerHash`, `CatalogueUnique`, `CleanSuccess`) | one callback, two copies of a content and another file, four chains, three faults of any kind |
| `station` | `CasterIsSpared`, `Reconnects`, `DeliveryInvariant` (`StreamDelivered`, `ReplayComplete`, `PlotBehindDatabase`, `PaceIsReal`, types) | four sentences (sound, without its line's end, bad checksum, sound), a queue of one, reads of two fragments, two faults; recorded gaps backwards, zero, short, at the limit and long, around a day of eight units |
| `drive_scan` | `CheckpointHonest`, `CompleteCatalogue`, `WipeIsDisclosed`, `RecordInvariant` (`DuplicatesNeedMishaps`, `BatchAtRisk`, types) | an archive with a member; a hidden directory with a link that a legacy checkpoint names; a directory that scans exclude, with a pipe and an archive in which another archive holds the only GNSS file; two temporary files with one inode; batches of two, two mishaps in all: a run, a second that resumes, and a third after both, each with and without `-o`, and surveys with and without `--extract`. 2.2 million states |
| `bernese` | `SessionInvariant` (`SuccessIsOwn`, `SeedNotOlder`), `CheckInvariant` (`CheckedStationsSurvive`, `NeverVacuous`), `PreparationInvariant` (`PreparedIsConsistent`, `ProductsWhole`, types) | two sessions, two configurations, files of both naming schemes, three calls, one fault: a run after a timeout, a second configuration over the files of a first, a BPE that finishes with or without its outputs. 3.5 million states |
| `field_ops` | `ListsAreAtomic`, `EventuallyStored`, `SheetInvariant` (`NothingLost`, `StoredOnce`, `SyncedIsStored`, types) | two sheets, each valid or of a kind the server refuses, two flushes at once, two faults |
| `desk` | `NothingLost`, `ExportIsExact`, `ListAgrees` (reviewer); `JobInvariant` (`RunningIsRegistered`, `CompleteMeansEnded`); `RecoveryInvariant` (`ClashesExplained`, `RecoveredOrReported`, `NothingRefused`), `ReinvokedCopiesNothing`; `PanelInvariant` (`RefusalTouchesNothing`, `ShippedIsClean`, `CeilingCovers`); `SchemaInvariant` (`SchemaIsOfRevision`, `ChainsConsistent`, `RefusalsHaveReason`, `ModelsAtHead`) | two sites with three epochs and one kill; two interfaces that may die, two process ids, two scans; five bin records, whose three `$I` files are each of five kinds (the directory's place, the place of a member, one that climbs, invalid, one that raises), three copy runs and one fault; three panels, ADDNEQ2 with and without a MAXPAR line, two runs, one failing write; every revision of both chains. 0.7 million states |
| `pipeline_stuck_pending`, `field_ops_direct_submit` | one property each, violated | see section 5 |

Conditions inside properties say how far the code keeps a promise:

* `BufferBounded` holds until a connection is refused, `LossIsCounted` until some
  other error occurs or the periodic task is cancelled. Both conditions are on what
  has happened, so one run covers behaviours on both sides of them.
* `StrongMotionReported` and `IntegratedAtMostOnce` hold until the caster replays,
  `EventsDisjoint` moreover until an INSERT that raises was stored all the same.
* The parts of `ContentInvariant`, and `ImplementsLifecycle`, hold for one callback as
  the only feeder. With two feeders they do not (section 5); what survives any
  number of feeders is `SuccessIsCatalogued`.
* `CheckpointHonest`, and what `CompleteCatalogue` says of runs with `--resume`, hold until
  a run without `--resume` has written the named file beside a checkpoint (`orphaned`),
  and what they say of links until a process is killed. They speak of a record in *some*
  output file: a resumed run without `-o` has only what it added itself in its own
  (section 5). A run without `--resume` has everything in its own, without condition.
  `DuplicatesNeedMishaps` counts records in the named file, as long as every run with
  `--resume` names it (`strayed`) and every run that names it resumes.
* `WipeIsDisclosed` has the condition that no warning but the one about links is printed, and that
  the summary above the verdict shows no excluded entries and no hardlinks: the code puts
  these two among the counts and not among the warnings.
* `CheckedStationsSurvive` speaks of the files that were in the data pool at the
  check and have equipment in their header: the check sees no others. Of several
  files of one station the check keeps one, so the property promises one that agrees
  and not that all do.
* `CheckpointHonest` speaks of the members of archives that every scan opens
  (`AlwaysOpened`: sound, not nested, no link to another entry) and of the members
  that a scan records one by one (`Members`); it makes no promise about those once
  reading or writing has failed, or about an archive that an old checkpoint names.
* `SuccessIsOwn` and `SeedNotOlder` hold until a BPE has said "finished" without all its
  outputs (`bare`), which is the only thing the code has to go by.
* `RunningIsRegistered` speaks of each scan that is not `exposed`: a mishap of the registry
  costs its promise for the scans that ran through it, and not for later ones.
* `NothingRefused` allows a row to fail that clashes with another: one destination is the
  other or lies below it. `ClashesExplained` says when that is. `ReinvokedCopiesNothing`
  holds as long as no two rows share a destination.
* `CeilingCovers` speaks of the ADDNEQ2 panels that have a MAXPAR line.
* The export properties hold for sites whose backup was not cut short
  and is not older than the PLOT file (`spoiled`).

Deadlock is not checked: every model may stop because its bounds on rows, samples,
chains, calls and faults are used up, and the programs may stop too.

**Fairness.** Adapter: weak fairness of the steps the event loop takes when a
coroutine is ready (`RunTask`, `FlushSucceeds`, `PeriodicCancelled`, `CloseDrain`,
`ClosePool`, `AcquireAfterClose`), of the timer (`PeriodicWake`) and of a database
that answers when it does not fail (`Acquire`, `Commit`). asyncio runs its ready
queue in order, timers fire, and `acquire` has a timeout, so each of these really
happens if it stays possible. Writes, faults and `close()` are not fair. Pipeline: a
feeder that has read a row goes on, and workers take messages and finish their tasks.
Nothing obliges anyone to start a scan, and no fault is fair. `PendingResolves` is
checked for failures of `load_to_postgres` alone, because the other failures do
leave a row pending (section 5). Station: the event loop runs the adapter and the
consumer when they can go on, and the receiver goes on measuring; a caster that
refuses or resets is bounded by `MaxFaults`, which is the assumption that outages
end. Offline queue: the browser runs what is due and requests are answered; the user
keeps leaving coverage and coming back with the form open. The last is strong fairness
of starting a flush, because nothing but mounting the form and the "online" event
starts one, and it is an assumption about the user and not about the code.
`EventuallyStored` moreover supposes that the user gets a token (`Login`; no page of the
frontend calls the function) and that it stays valid from some time on.
The scanner, the Bernese driver and the desk tools are commands that a person starts:
no progress is claimed for them.

## 4. What is proved

TLAPS checks the following for all constants that meet the named assumptions: any
sizes, thresholds, numbers of tasks, rows, faults, feeders, files, chains, sheets,
sessions, drives, panels, sites and epochs.

| Theorem | Statement | Argument |
|---|---|---|
| `TimescaleProofs!TypeInvariant` | `Spec => []TypeOK` | lemmas on sequences (a prefix, a tail, a concatenation of rows are rows) and on `FlushAll` / `EndFlush`, then one step per action |
| `TimescaleProofs!BufferStaysBounded` | `Spec => []BufferBounded` | inductive with the types while no refused connection has been counted; `FaultsGrow` says that the count never goes down, so its being 0 after a step means it was 0 before |
| `TimescaleProofs!GuardsNeverStick` | `Spec => []GuardNeverStuck` | needs `CloserWaits` (the drain's flusher is idle until `close()` drains): otherwise a guard could be backed by an activation that `CloseDrain` overwrites |
| `TimescaleProofs!RowsAtOnePlace` | `Spec => []NoRowTwice` | strengthened to `RowsPlaced`: no row held is newer than the rows written, so that the row a write appends is new; popping moves a buffer into a batch, restoring moves it back, and batches of other flushes stay apart from both |
| `TimescaleProofs!AdapterIsALedger` | `Spec => ImplementsLedger` | step by step, see below |
| `TimescaleProofs!EveryLossIsCounted` | `Spec => []LossIsCounted` | while connections are only refused, a step takes a row out of memory only if it is stored or counted |
| `CoreProofs!ModeStaysConsistent`, `StreaksStayRuns`, `ModeNeedsEvidence` | `ModeConsistent`, `StreaksAreRuns`, `ModeChangesOnEvidence` | the flags with the types; a run that ends a sequence extends by the signal appended; a mode changes when a streak, which is a run, reaches its threshold |
| `CoreProofs!RowsTellTheTruth` | `Spec => []RowInvariant` | needs the converse of `StreaksAreRuns`, `RunsAreWhole`: while the receiver is trusted, a run that ends the signals has been counted whole, so a run that is long enough to be distrusted has changed the mode |
| `CoreProofs!EventsAreReal`, `NoStrongMotionLost`, `NothingIntegratedTwice`, `EventsEndInRows` | `EventInvariant`, `StrongMotionReported`, `IntegratedAtMostOnce`, `OpenEventEndsInRow` | `CoreInv`: until the caster replays, all that is known lies before the clock, no second after `last_velocity_time` has been integrated (`InOrder`), and the stored events ended by then (`EventsEnded`); so a new sample meets neither an old event nor a second that was counted |
| `PipelineProofs!TypeInvariant` | `Spec => []TypeOK` | one step per action |
| `PipelineProofs!SuccessStaysCatalogued` | `Spec => []SuccessIsCatalogued` | strengthened with what feeders and chains remember: a success they read, and a catalogue hit, refer to a content that has a row by now; the catalogue only grows |
| `PipelineProofs!OneDispatcherOneRow` | `SoleDispatcher` implies `Spec => []ContentInvariant` | `SoleInv`, see below |
| `PipelineProofs!LogFollowsLifecycle` | `SoleDispatcher` implies `Spec => ImplementsLifecycle` | `SoleInv`, and one lemma per kind of step: a step changes one content's row as the life cycle allows, or nothing it sees |
| `StationProofs!TheCasterIsSpared` | `Spec => []CasterIsSpared` | inductive with the types: a pause doubles what was `Doubled` so far, and the cap is kept by doubling |
| `StationProofs!EverySentenceIsDelivered` | `Spec => []DeliveryInvariant` | `LiveInv`, `ReplayInv`, `PlotInv` and `PaceInv`, see below |
| `OfflineProofs!AcceptedSheetsSurvive`, `ListsStayAtomic` | `SheetInvariant`, `ListsAreAtomic` | `OfflineInv`: ids are given out before they are used, whoever has sent a request waits for that one only, and what was answered "created", or is about to be marked, is on the server (`CreatedIsStored`), whose rows are never deleted |
| `BerneseProofs!SessionsStayApart`, `CheckMeansSomething`, `PreparationFits`, `NoFileLeftOut` | `SessionInvariant`, `CheckInvariant`, `PreparationInvariant`; `OneFileEach` implies that every file of the session agrees | `CampaignInv`, see below |
| `DriveProofs!DriveIsInvariant`, `CheckpointIsHonest`, `CatalogueIsCompleted`, `WipeIsSafe`, `RecordsAreSafe` | `DriveInv`, `CheckpointHonest`, `CompleteCatalogue`, `WipeIsDisclosed`, `RecordInvariant` | `DriveInv` and `RepeatInv`, see below |
| `DeskProofs!TypeInvariant` | `Spec => []TypeOK` of `OutlierExport` | the site whose turn it is (a CHOOSE in the model) is one of those left |
| `DeskProofs!OriginalsSurvive` | `Spec => []NothingLost` | strengthened with `StripsBackedUp`: a PLOT file is about to be stripped only when its site has a backup |
| `DeskProofs!ExportStaysExact` | `Spec => []ExportIsExact` | strengthened with `ExactSoFar`: the sites that have had their turn are exact already; that the backup is the original comes from the previous theorem |
| `DeskProofs!ListStaysInAgreement` | `Spec => []ListAgrees` | with `ListIsCurrent`: from the time it is written, the list holds what the export set out with |
| `DeskProofs!RunningScansAreFound` | `DeskSpec => []JobInvariant` | `JobInv`, see below |
| `DeskProofs!RefusalOrCleanPanels` | `DeskSpec => []PanelInvariant` | `PanelInv`: what is planned is clean and sized (`PlanIsClean`), the second pass has a plan for every file (`PlanIsCurrent`), the first has written nothing and the second has shipped what it has visited (`ShippedSoFar`); a planned panel with a MAXPAR line has the ceiling of this run's network |
| `DeskProofs!EveryFileRecoveredOrReported`, `ASecondRunCopiesNothing` | `RecoveryInvariant`, `ReinvokedCopiesNothing` | `RecoveryInv`, see below |

**The adapter and its ledger.** The mapping takes `held` to be the buffer and every
batch under way. A write is Accept, and Overflow too when the buffer was full; `Commit`
is Store; a flush that returns (`FlushSucceeds`) is Release, since what it lets go of is
stored (`CommittedIsStored`); one that fails puts its batch back, which the ledger does
not see, or cuts the buffer, which is Overflow; a cancelled flush (`PeriodicCancelled`)
and a pool that is gone are Abandon, which is allowed while closing only; `CloseBegin`
is BeginClosing; everything else is a stutter. What the proof must know is which rows a
step takes out of `held`, and that is the disjointness in `RowsPlaced`: a row of a
batch that goes is in no other batch and not in the buffer. The inductive invariant is
`LedgerInv`, the types with `CloserWaits`, `RowsPlaced` and `CommittedIsStored`.

**One dispatcher.** With one callback as the only feeder nobody else writes the rows of
a content while a chain of it is under way. That is `SoleInv`: at each stage a chain's
row is what the chain has read or left (`ChainRow`), what the callback has decided on
still holds when it commits and when it sends (`FeederRow`), and a content has at most
one catalogue row (`OneRow`). A second feeder breaks `FeederRow`: it may send a chain
between the first one's read and its commit. `SoleDispatcher` is the assumption of
both theorems, and `pipeline_dispatcher` has it in its constants; section 5 shows what
happens without.

**The station.** The four parts of `DeliveryInvariant` have an inductive invariant each.
`LiveInv` is about a connection: there are clocks b and e such that what was read and not
put, followed by what is on the wire, is a stretch of header and then exactly the halves
that the caster made between b and e (`Carried`); b is where the connection began or
follows a line's end, so that no line of the stretch has lost its beginning unless the
connection began within it. What is written, handed over or queued is older than b, and
with the whole sentences between b and e it is what is owed (`Delivered`). The
existential is there because the code keeps neither clock. `CasterSends` moves e, `PutLine`
moves b over one line, a read moves nothing, and a connection that is over leaves b = e.
What makes it work is that a line between two line ends is sound exactly if it is both
halves of one sound sentence (`KindOf`), and that a header is drained to its blank
line or to a closed connection. `ReplayInv` is the same for files: the lines read so far
are ahead or pending (`LinesKept`) and the sentinel is behind all of them
(`EndIsLast`). `PlotInv`: a sentence that the plotter is about to get is in the database.
`PaceInv`: the strategy's stamp is whole days away from the true time, and its date is
that of the stamp; so of two lines less than a day apart the difference of the stamps
is the true one, or one that is not paused for, which is where `PaceAssumption` is used.

**The registry.** `JobInv` says what an interface may believe. A job in the registry, on a
screen, in a snapshot or in a pending operation is of a scan that was started, and what
runs under its pid is that scan unless it is exposed. A list of jobs names a
pid once. `JobsAreSane` follows a snapshot from its load to its write: it has every
job of the registry as it was loaded that still runs and was not told to stop, less the one to be
removed and with the one to be added, so that a save over an unchanged
registry loses none; while the file is empty, what it is to hold is in the snapshot of
the one that emptied it. An interface removes a job only after it has told the
scan to stop (`TodoIsSane`). Every step that can break this (a save over a registry that has
changed, a write over a file that is not blank, a kill in a save or before one) puts the
scans concerned into `exposed`. The lemmas about `Ascending` and
`Kept` (a filtered list has the elements that are kept, each once, in their order)
are proved from the cardinality of finite sets.

**The recovery.** `PlacedByRows`: what lies at a place comes from a row that goes there, or
below whose destination it is the leaf. `DealtWith`: of the rows the run has passed, each
is whole, reported, or shares its destination (`Shared`). `Undisturbed`: while no source has
changed and the root is the one given to `pair`, only rows that clash have failed. The facts about
paths are that comparable paths have comparable beginnings (`TopsCompare`), which gives `ClashesExplained`,
and that a file or directory in the way of a row comes from a row that clashes with it
(`InTheWayClashes`). That a climbing path never fails is the orphan's: `BinAssumption` keeps
the orphans' directory apart from all drives. `ASecondRunCopiesNothing` is proved from
what has been passed and not failed being present (`PassedIsPresent`), which every step of
a later run leaves so.

**The campaign.** `CallShape` says which steps are left in a call of each kind,
`ChildShape` that the BPE a call waits for belongs to that call's session and that its
outputs are in `OUT/` (those of an earlier driver's children are other processes),
`OutputsOfSession` that a run which finished leaves its outputs, and coordinates that
are not older than its session for the second pass, unless some BPE was `bare`, and `PreparedSoFar` that each file
of the configuration is written or still to be written. That the latest coordinates
exist needs `Sessions` to be finite. `NoFileLeftOut` says what the check is worth when
the data pool has one file for each station and day of the year, as one of daily files
has: then every file of the session agrees, not only one of each station.

**The scanner.** `DriveInv` has seven parts. `Honest`: what memory, batch, log or old
checkpoint take for scanned is recorded in one of the output files, and so is every
archive that is open.
`WholeArchives`: the members of an open archive are recorded or still to come, so that
the archive is marked after them. `AtRisk`: what a torn line swallows is at most two
paths, and only after an append that stopped half-way. `Coverage` is about the whole walk: there
are a set V of entries it has come to and a set D of directories it has listed, such
that no entry is come to twice, and each entry of what was listed is in V or still to
come (`Frames`); a scan without errors has entered the directories of V and has recorded
its files and links, in its own output without `--resume` and in some output with it
(`ScanCovers`), a survey with nothing to disclose has entered every
directory and archive and counted every GNSS file (`SurveyCovers`). When the walk is
over nothing is still to come, and by the tree assumption, of the entries that are not
in V one would be in a directory that is: so V is everything. The existential is there
because neither the code nor the model keeps these sets.

`RepeatInv` bounds the records of one entry by a budget: `Allowed` counts the mishaps so
far, and one more for each torn line that has been appended to. In a run an
entry may have one record more than allowed if the walk has come to it or if it will not be
recorded again (the set P, anchored in the paths the run loaded); a torn tail that is
appended to raises the budget at the moment at which it swallows a path, after which
the run must give back the one it had in hand (s). When a run ends, the
entries with the extra record are those the log anchors, or a mishap has paid for them.

`WipeIsSafe` needs no assumption on linked archives: one that was not opened because of
its inode is counted in `dups`, which the summary shows.

**Assumptions.** The assumptions on constants (`SizeAssumption`, `FlusherAssumption`,
`ThresholdAssumption`, `CoreAssumption`, `HashAssumption`, `OfflineAssumption`,
`SessionAssumption`, `EntryAssumption`, `TreeAssumption`, `LegacyAssumption`,
`EpochsAssumption`, `BinAssumption`, `SourceAssumption`, `LimitAssumption`,
`PaceAssumption`, ...) are in the modules that declare the constants,
and TLC evaluates them in the runs. They say what the constants are (numbers that are
numbers, sets that are apart), that a campaign has finitely many sessions, that a
drive is a tree, and that two neighbouring lines of a recording are less than a day apart
with none so far out of place that it looks like the next day's (a time of day without a
date says no more). The type invariants of the adapter, the pipeline, the outlier export,
the panels and the recovery are checked by proof only; the others are parts of the runs'
invariants.

**Only model-checked.** `SchemaInvariant`: `SchemaMigrations` has no constants and
finitely many states, so the run covers every one of them and a proof would add
nothing. The two divergence runs. And all liveness (`RowsSettle`, `CloseEnds`,
`PendingResolves`, `Reconnects`, `EventuallyStored`), which is out of the provers' reach
together with ENABLED.

## 5. Divergences

Violations that a run shows, each of a statement the repository makes:

* `pipeline_stuck_pending`: a file that `validate_rinex` rejects stays "pending", and
  the callback then skips it for good (`migrations/versions/006_create_ingestion_logs.py:14`).
* `field_ops_direct_submit`: an online submission posts one object where the server
  takes a list, is refused, and goes to the queue as if the network had failed; the
  upload of the photo, which follows a direct submission only, is never reached.

Statements of the repository that the same models violate; each named definition
is in its module, and no run lists it:

* `NeverSilentDrop` (`timescaledb.py:13`, DL-009): `close()` cancels the periodic task
  in the middle of a flush. `CancelledError` is no `Exception`, so neither except
  clause restores the batch, and the rows are gone without being counted.
* `OverflowDropsOldest` (`timescaledb.py:17`, DL-016): a failed flush keeps its own rows
  and cuts those written since. `BufferWithinMax`: a refused connection leaves a
  buffer above its maximum. `OneFlushPerBuffer` (DL-014): two flushes of one buffer run
  at once although the guards are said to prevent it.
* `OneRowPerEvent` (`plans/vadase-output-port.md:24`, re-ingestion is safe): a replayed
  window stores its event a second time, and is integrated again.
  `LastTimeFollowsSamples`: an event INSERT that raises leaves `last_velocity_time`
  behind although it is said to update unconditionally.
* `CatalogueUnique` with a scanner as feeder (`src/db/models.py:99`: the hash "prevents
  re-ingestion"): two copies of a content in one scan are both catalogued.
  `ImplementsLifecycle` with two feeders: a success is overwritten by a failure or by
  "pending".
* `SeedIsPassOne` (`backends.py`, `run_continuous`): the second pass takes the final
  coordinates whose name sorts last in `OUT/`, which may be those of a later session.
* `ResumedScanComplete` (`checkpoint.py`, durability model): the record of a symbolic link
  is not flushed, so a kill after its path was saved loses it for good.
  `OwnCatalogueComplete` (the tool's README, `drive-archaeologist scan C:\OldDrive --resume`):
  without `-o` the resumed run writes to a new file and skips what the checkpoint names,
  so "Scan Complete!" stands over a file without the records of the runs before.
  `WarningsDisclose` (`cli.survey`, "explicit disclosure of anything the walk did not
  cover"): devices, pipes and sockets are passed over without a count, and excluded
  entries are counted without a warning.
* `SuccessIsOwnAlways` (`backends.py`, `collect_outputs`): after a BPE that says it
  finished without writing its outputs, a SINEX file that another session left in `OUT/`
  passes for its own.
* `EveryScanIsFound` (`scanjobs.py`, "any later TUI instance can re-discover, watch, pause,
  or resume it"): two saves that overlap, a load of a file that is being written, or an
  interface that dies before it has registered its scan.
* `PlotReflectsSelection` (`reader.py:111`): a site whose selection was cleared keeps the
  rows that an earlier export stripped.
* `Idempotent` (`recovery.py:218`): rows that share a destination but differ in size
  overwrite each other in every run. `UnparseableIsOrphaned` (`pair_recycle_bin`, "missing
  or unparseable is still recovered"): a `$I` file whose time or length raises
  `OverflowError` or `struct.error` ends the pairing, and nothing is recovered.
* `CompleteMeansFinished` and `SignalsOwnScan` (`scanjobs.py`, `is_complete` and the module
  comment): a resumed scan that crashes is complete if an earlier one into the same
  log was, and a process id that another scan got is taken for the first one's.
* `NeverHalfUpdated` (`panel_sanitizer.py`): a byte above 127 raises in pass 2, when
  earlier panels are written and this one is truncated. `CeilingAlwaysSet` (`provision_opt_dir`): a panel without a
  MAXPAR line that the pattern matches ships unsized and unreported
  (`panel_sanitizer.py:257`).
* `RollbackTruncates` (migration 009's comment): a stored SHA-256 makes the rollback fail.

Noted while translating, in the models as the code has it: the first revision of
field-ops can never be downgraded (it drops the schema that holds its own version table);
012 cannot be downgraded while a chunk is compressed; `scan --force` without `--resume`
truncates the catalogue and keeps the old checkpoint; Ctrl-C skips the final save and
the command says "Progress saved" (`cli.py:92`); a station whose configuration is
refused leaves its consumer polling (`tcp.py:99`); the first pause after a failure is
exactly the base, without jitter (`tcp.py:105`); a caster that closes within its
headers counts as connected and resets the backoff (`tcp.py:167`); an endless line
takes the complete lines of the same read with it; a timeout kills the perl driver and not what it
started; an antenna file of an old name is never staged anew; a log sheet whose
station was never picked (the field is then missing), with a time of day in a datetime
field, or with a text longer than its column, is accepted by the form and refused by the
server, and then blocks every sheet behind it; no page calls `login()`, so without a token
from elsewhere every flush is refused; a late 401 to an old
request clears a fresh token; nothing but mounting the form and the "online" event
starts a flush; `_standardize_format` tests for a Hatanaka suffix of length three, so
a `.20d` file is never decompressed (`tasks.py:162`).

## 6. Plan

All modules planned at the start exist, in the order: adapter, core, pipeline,
station, scanner and jobs, offline queue, reviewer and recovery, Bernese, and then
panels and schema. The refinements of `RowLedger` and `IngestLifecycle` are proved, and
so is every invariant that a run checks except `SchemaInvariant`. What could come next:

1. The photo upload and its retries, if the direct submission is repaired.
2. The file-name tables of the pipeline (`_is_rinex_file` against what
   `_standardize_format` decompresses).
3. An abstract specification of one station, a source whose sound sentences come out once
   and in order, with `StationService` as its refinement: `LiveInv` has what the mapping
   would need.

## 7. Not modelled

* The file classifier and its profiles: patterns over names, whose verdict is an
  attribute of each entry in `DriveScan`. Field conversions of the NMEA parser: what
  becomes of a sentence is modelled, what its numbers are is not.
* Bernese quality reports, templates and the orchestrator, which delegates to the
  backend: text read or rendered in one call.
* The terminal interface beyond its scan screen, the reviewer's page layout, the
  field-ops pages: presentation. Field-ops lookups and inventory: one query or update
  in one transaction. The photo upload (see the plan).
* Velocity regression, the time-series package, decay and thresholds in floating
  point: numerical, without state between calls.
* The legacy analysis scripts (MATLAB, Python 2), dashboards, seed scripts and shell
  scripts around version control hold no state the others depend on.
* Within the modelled parts: a cut in the copy that promotes the first pass's coordinates,
  and the check that is skipped when its directory does not exist
  (`backends.py:296`); data files whose names the check does not recognise; a second instance
  of the log-sheet form in the same page, and an `addToQueue` that rejects; the rows of
  the adapter as a multiset (`stored` is a set, so that a statement without its ON CONFLICT
  clause would not show in it); directories given to the scanner
  other than one, and the time of day in an output's name.
