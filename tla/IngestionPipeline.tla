--------------------------- MODULE IngestionPipeline ---------------------------
(***************************************************************************)
(* The RINEX ingestion pipeline (services/ingestion-pipeline) and the two  *)
(* programs that feed it: FileScanner and the dispatch callback of the     *)
(* drive scanner (tools/drive-archaeologist, ingestion_dispatch.py).       *)
(*                                                                         *)
(* Feeders and Celery workers are separate processes that share two tables *)
(* of a PostgreSQL database: ingestion_logs, one row per content hash, and *)
(* rinex_files, the catalogue, where only the file path is unique and each *)
(* chain works on a fresh temporary path.  A session reads, decides in     *)
(* memory and writes at commit, under READ COMMITTED; the ORM writes only  *)
(* the columns whose value differs from the one it read.                   *)
(***************************************************************************)
EXTENDS Naturals, FiniteSets

CONSTANTS
  Scanners,     \* processes running FileScanner.scan
  Dispatchers,  \* processes running the dispatch callback
  Files,        \* paths
  Hashes,       \* file contents
  HashOf,       \* the content of each file
  Chains,       \* bound: Celery chains that may be dispatched
  Faults,       \* faults that may occur, a subset of FaultKinds
  MaxFaults     \* bound: number of faults

Feeders == Scanners \cup Dispatchers
FaultKinds == {"trigger", "standardize", "validate", "load", "outcomeUnknown", "workerLost"}

ASSUME FeederAssumption == Scanners \cap Dispatchers = {}
ASSUME HashAssumption == HashOf \in [Files -> Hashes] /\ Files # {} /\ Hashes # {}
ASSUME FaultAssumption == Faults \subseteq FaultKinds /\ MaxFaults \in Nat

VARIABLES
  log,        \* ingestion_logs: status ("none": no row) and whether error_message is set
  catalogue,  \* rinex_files: the chains that inserted a row for each hash
  feeder,     \* what each feeder is doing
  chain,      \* the Celery chains
  faults      \* number of faults so far

vars == <<log, catalogue, feeder, chain, faults>>

Statuses == {"none", "pending", "success", "failed"}
LogRow == [status : Statuses, error : BOOLEAN]
NoRow == [status |-> "none", error |-> FALSE]

\* "decided": the log row was read and the file is not skipped; "committed":
\* the log row is written and the chain not yet sent to the broker.
FeederSteps == {"idle", "decided", "committed"}

\* The task a chain waits for or runs; within load_to_postgres: "checked" the
\* catalogue, "found" the log row, "failing" after the rollback, "reporting"
\* with the log row read again.
ActiveStages == {"standardize", "validate", "load", "checked", "found", "failing", "reporting"}
Stages == ActiveStages \cup {"unused", "ended"}

Init ==
  /\ log = [h \in Hashes |-> NoRow]
  /\ catalogue = [h \in Hashes |-> {}]
  /\ feeder = [p \in Feeders |-> [step |-> "idle", file |-> CHOOSE f \in Files : TRUE, seen |-> NoRow]]
  /\ chain = [c \in Chains |-> [stage |-> "unused", hash |-> CHOOSE h \in Hashes : TRUE,
                                known |-> FALSE, seen |-> NoRow]]
  /\ faults = 0

Fault(kind) ==
  /\ kind \in Faults
  /\ faults < MaxFaults
  /\ faults' = faults + 1

-----------------------------------------------------------------------------
(* Feeders.                                                                *)

\* Mutation: the callback skips what is in flight only.
SkippedInFlight(p) == IF p \in Scanners THEN {"success"} ELSE {"pending"}
\* FileScanner skips what succeeded, the dispatch callback what is in flight
\* as well.
Skipped(p) == IF p \in Scanners THEN {"success"} ELSE {"success", "pending"}

\* Bound: every feeder at work can still dispatch a chain.
ChainsLeft ==
  Cardinality({c \in Chains : chain[c].stage = "unused"})
    > Cardinality({p \in Feeders : feeder[p].step # "idle"})

\* Hash the next file and read its log row; a skipped file changes nothing.
Decide(p, f) ==
  /\ ChainsLeft
  /\ feeder[p].step = "idle"
  /\ log[HashOf[f]].status \notin Skipped(p)
  /\ feeder' = [feeder EXCEPT ![p] = [step |-> "decided", file |-> f, seen |-> log[HashOf[f]]]]
  /\ UNCHANGED <<log, catalogue, chain, faults>>

\* UPDATE of a row read as seen to the values of new: a column is written only
\* if new differs from what was read.
Updated(row, seen, new) ==
  [status |-> IF new.status # seen.status THEN new.status ELSE row.status,
   error |-> IF new.error # seen.error THEN new.error ELSE row.error]

Pending == [status |-> "pending", error |-> FALSE]

\* A row read as seen, queued again.
Requeued(seen) == Pending

\* Commit the log row.  An INSERT that finds the row there raises, which ends
\* the scan or the callback.
CommitLog(p) ==
  LET h == HashOf[feeder[p].file]
      seen == feeder[p].seen
  IN  /\ feeder[p].step = "decided"
      /\ \/ /\ seen.status = "none" /\ log[h].status = "none"
            /\ log' = [log EXCEPT ![h] = Pending]
            /\ feeder' = [feeder EXCEPT ![p].step = "committed"]
         \/ /\ seen.status = "none" /\ log[h].status # "none"
            /\ feeder' = [feeder EXCEPT ![p].step = "idle"]
            /\ UNCHANGED log
         \/ /\ seen.status # "none"
            /\ log' = [log EXCEPT ![h] = Updated(@, seen, Requeued(seen))]
            /\ feeder' = [feeder EXCEPT ![p].step = "committed"]
      /\ UNCHANGED <<catalogue, chain, faults>>

\* trigger_ingest: chain(...).apply_async().
Trigger(p) ==
  /\ feeder[p].step = "committed"
  /\ \E c \in Chains :
       /\ chain[c].stage = "unused"
       /\ chain' = [chain EXCEPT ![c].stage = "standardize", ![c].hash = HashOf[feeder[p].file]]
  /\ feeder' = [feeder EXCEPT ![p].step = "idle"]
  /\ UNCHANGED <<log, catalogue, faults>>

\* The broker cannot be reached, or the process dies before it sends.
TriggerFails(p) ==
  /\ feeder[p].step = "committed"
  /\ Fault("trigger")
  /\ feeder' = [feeder EXCEPT ![p].step = "idle"]
  /\ UNCHANGED <<log, catalogue, chain>>

-----------------------------------------------------------------------------
(* Tasks of a chain.                                                       *)

Advance(c, from, to) ==
  /\ chain[c].stage = from
  /\ chain' = [chain EXCEPT ![c].stage = to]

\* A task that raises ends the chain and touches no table.
Standardize(c) ==
  /\ \/ Advance(c, "standardize", "validate") /\ UNCHANGED faults
     \/ Advance(c, "standardize", "ended") /\ Fault("standardize")
  /\ UNCHANGED <<log, catalogue, feeder>>

Validate(c) ==
  /\ \/ Advance(c, "validate", "load") /\ UNCHANGED faults
     \/ Advance(c, "validate", "ended") /\ Fault("validate")
  /\ UNCHANGED <<log, catalogue, feeder>>

\* Mutation: the ingestion log is taken for the catalogue.
CheckCatalogueInLog(c) ==
  /\ chain[c].stage = "load"
  /\ chain' = [chain EXCEPT ![c].stage = "checked",
                            ![c].known = log[chain[c].hash].status # "none"]
  /\ UNCHANGED <<log, catalogue, feeder, faults>>

\* Mutation: the catalogue is not consulted.
CheckNothing(c) ==
  /\ chain[c].stage = "load"
  /\ chain' = [chain EXCEPT ![c].stage = "checked", ![c].known = FALSE]
  /\ UNCHANGED <<log, catalogue, feeder, faults>>

\* _load_to_postgres: is the hash in the catalogue?
CheckCatalogue(c) ==
  /\ chain[c].stage = "load"
  /\ chain' = [chain EXCEPT ![c].stage = "checked", ![c].known = catalogue[chain[c].hash] # {}]
  /\ UNCHANGED <<log, catalogue, feeder, faults>>

\* _load_to_postgres: session.get(IngestionLog, file_hash)
FindLog(c) ==
  /\ chain[c].stage = "checked"
  /\ chain' = [chain EXCEPT ![c].stage = "found", ![c].seen = log[chain[c].hash]]
  /\ UNCHANGED <<log, catalogue, feeder, faults>>

\* What the transaction of _load_to_postgres writes: the catalogue row, unless
\* the hash was there, and the status.  error_message is left as it is.
Loaded(c) ==
  LET h == chain[c].hash
      seen == chain[c].seen
  IN  /\ catalogue' = [catalogue EXCEPT ![h] = IF chain[c].known THEN @ ELSE @ \cup {c}]
      /\ log' = [log EXCEPT ![h] =
                   IF seen.status = "none" THEN @
                   ELSE Updated(@, seen, [seen EXCEPT !.status = "success"])]

CommitLoad(c) ==
  /\ Advance(c, "found", "ended")
  /\ Loaded(c)
  /\ UNCHANGED <<feeder, faults>>

\* The station is unknown, or a statement or the commit raises: rollback.  A
\* commit that raises may have taken effect.
LoadFails(c) ==
  /\ \/ /\ \E stage \in {"load", "checked", "found"} : Advance(c, stage, "failing")
        /\ Fault("load")
        /\ UNCHANGED <<log, catalogue>>
     \/ /\ Advance(c, "found", "failing")
        /\ Fault("outcomeUnknown")
        /\ Loaded(c)
  /\ UNCHANGED feeder

\* Mutation: the except clause rolls back and raises, nothing more.
RollbackOnly(c) ==
  /\ Advance(c, "failing", "ended")
  /\ UNCHANGED <<log, catalogue, feeder, faults>>

\* The except clause reads the row again ...
FindLogAgain(c) ==
  /\ chain[c].stage = "failing"
  /\ chain' = [chain EXCEPT ![c].stage = "reporting", ![c].seen = log[chain[c].hash]]
  /\ UNCHANGED <<log, catalogue, feeder, faults>>

\* ... and records the failure.  A message equal to the one read is not written.
RecordFailure(c) ==
  LET h == chain[c].hash
      seen == chain[c].seen
      failed == [status |-> "failed", error |-> TRUE]
  IN  /\ Advance(c, "reporting", "ended")
      /\ \E same \in {FALSE, seen.error} :
           log' = [log EXCEPT ![h] =
                     IF seen.status = "none" THEN @
                     ELSE Updated(@, [seen EXCEPT !.error = same], failed)]
      /\ UNCHANGED <<catalogue, feeder, faults>>

\* The worker dies during a task, or the except clause raises itself.  Celery
\* acknowledged the message when the task began, so nobody runs it again.
WorkerDies(c) ==
  /\ chain[c].stage \in ActiveStages
  /\ Fault("workerLost")
  /\ chain' = [chain EXCEPT ![c].stage = "ended"]
  /\ UNCHANGED <<log, catalogue, feeder>>

Next ==
  \/ \E p \in Feeders : \/ \E f \in Files : Decide(p, f)
                        \/ CommitLog(p)
                        \/ Trigger(p)
                        \/ TriggerFails(p)
  \/ \E c \in Chains : \/ Standardize(c)
                       \/ Validate(c)
                       \/ CheckCatalogue(c)
                       \/ FindLog(c)
                       \/ CommitLoad(c)
                       \/ LoadFails(c)
                       \/ FindLogAgain(c)
                       \/ RecordFailure(c)
                       \/ WorkerDies(c)

\* Workers take the messages of the queue and finish their tasks; a feeder that
\* has read a row goes on.  Nobody has to start a scan.
Fairness ==
  /\ \A p \in Feeders : WF_vars(CommitLog(p)) /\ WF_vars(Trigger(p))
  /\ \A c \in Chains : /\ WF_vars(Standardize(c))
                       /\ WF_vars(Validate(c))
                       /\ WF_vars(CheckCatalogue(c))
                       /\ WF_vars(FindLog(c))
                       /\ WF_vars(CommitLoad(c))
                       /\ WF_vars(FindLogAgain(c))
                       /\ WF_vars(RecordFailure(c))

Spec == Init /\ [][Next]_vars /\ Fairness

-----------------------------------------------------------------------------
(* Correctness.                                                            *)

Active(c) == chain[c].stage \in ActiveStages

TypeOK ==
  /\ log \in [Hashes -> LogRow]
  /\ catalogue \in [Hashes -> SUBSET Chains]
  /\ feeder \in [Feeders -> [step : FeederSteps, file : Files, seen : LogRow]]
  /\ chain \in [Chains -> [stage : Stages, hash : Hashes, known : BOOLEAN, seen : LogRow]]
  /\ faults \in Nat

\* The log never claims a success the catalogue does not have: a file is only
\* ever skipped for good when its row is there (_load_to_postgres writes both in
\* one transaction; FileScanner and the callback write over each other's rows).
SuccessIsCatalogued ==
  \A h \in Hashes : log[h].status = "success" => catalogue[h] # {}

\* A content is never ingested by two chains at a time.
OneChainPerHash ==
  \A c, d \in Chains : (Active(c) /\ Active(d) /\ chain[c].hash = chain[d].hash) => c = d

\* One catalogue row per content: what rinex_files.hash_sha256 is for.
CatalogueUnique == \A h \in Hashes : Cardinality(catalogue[h]) <= 1

\* A file that was ingested carries no error message of an earlier attempt: the
\* success path does not clear it, so the feeder must have.
CleanSuccess == \A h \in Hashes : log[h].status = "success" => ~log[h].error

\* The life cycle of models.py: pending, then success or failed; success leaves
\* one catalogue row and is final once its commit is acknowledged.  A success
\* with a chain still in the except clause of _load_to_postgres is one whose
\* commit was not.
Lifecycle == INSTANCE IngestLifecycle WITH
  status <- [h \in Hashes |-> log[h].status],
  catalogued <- [h \in Hashes |-> Cardinality(catalogue[h])],
  doubtful <- {h \in Hashes :
                 /\ log[h].status = "success"
                 /\ \E c \in Chains : /\ chain[c].hash = h
                                      /\ chain[c].stage \in {"failing", "reporting"}}
ImplementsLifecycle == Lifecycle!Spec

\* "The Celery task updates it on completion or failure": a pending row does not
\* stay pending while the database and the workers work.
PendingResolves ==
  \A h \in Hashes : (log[h].status = "pending") ~> (log[h].status # "pending")

\* A content is worked on by one chain, catalogued by one row, and its success
\* carries no old message.
ContentInvariant == OneChainPerHash /\ CatalogueUnique /\ CleanSuccess
=============================================================================
