------------------------------ MODULE DriveScan ------------------------------
(***************************************************************************)
(* The drive scanner (DeepScanner) with its checkpoint log and its two     *)
(* commands: `scan`, which appends one record per file to a catalogue and  *)
(* can be resumed after an interrupt or a crash, and `survey`, which       *)
(* writes nothing and ends in a wipe-or-keep verdict.                      *)
(*                                                                         *)
(* A run writes its records to the file named with -o, which is the same   *)
(* in all such runs, or to a new file with the time in its name.  All of   *)
(* them share the one checkpoint log of the folder; a record and its mark  *)
(* have no common commit.  A path is an element of Entries; what the       *)
(* scanner finds out about it is the record Entry[e].  A member of an      *)
(* archive has a new temporary path each time its archive is extracted, so *)
(* that its lines in the checkpoint never match again (Scanned).           *)
(***************************************************************************)
EXTENDS Integers, Sequences, FiniteSets

CONSTANTS
    Entries,     \* the entries of the drive, members of archives included
    Root,        \* the directory that is scanned
    Entry,       \* what stat, readlink and the name of each entry tell
    Capacity,    \* size of the file system (shutil.disk_usage)
    BatchSize,   \* _BATCH_SIZE of the checkpoint
    SaveEvery,   \* files between two explicit saves (1000 in the code)
    MaxDepth,    \* max_archive_depth
    LegacyPaths, \* paths of a checkpoint in the old JSON format
    MaxStops,    \* bound on interrupts, kills and input/output errors
    SurveyLater  \* FALSE bounds surveys, which touch no file, to before the first scan

\* "excluded" are the commands whose --exclude patterns match the entry, "inode" is
\* the pair of device and inode, 0 for none; temporary files of different archives
\* may have the same one.
Attributes ==
    [parent: Entries \cup {Root}, type: {"file", "dir", "link", "other"}, hidden: BOOLEAN,
     excluded: SUBSET {"scan", "survey"}, suspect: BOOLEAN, size: Nat, gnss: BOOLEAN,
     archive: {"no", "good", "bad"}, inode: Nat]

ASSUME EntryAssumption == /\ Root \notin Entries /\ IsFiniteSet(Entries)
                          /\ {"none", "torn"} \cap Entries = {}
                          /\ Entry \in [Entries -> Attributes]
ASSUME BoundAssumption == /\ BatchSize \in Nat \ {0} /\ SaveEvery \in Nat \ {0}
                          /\ {Capacity, MaxDepth, MaxStops} \subseteq Nat
                          /\ SurveyLater \in BOOLEAN

VARIABLES
    run,       \* the process: its command and options, or idle
    walk,      \* stack of directories being listed, with the entries left in each
    known,     \* CheckpointManager.scanned_paths
    pending,   \* CheckpointManager._pending
    saving,    \* save_checkpoint has been called and has not returned
    stats,     \* ScanStats, file_count, error_count and skipped_count
    inodes,    \* _seen_inodes
    buffer,    \* records written but not flushed
    outcome,   \* how the latest command ended
    catalogue, \* how many records of each entry the file named with -o holds
    output,    \* does that file exist
    dated,     \* entries recorded in any file with a time in its name
    latest,    \* those of them that the latest scan recorded
    log,       \* paths that loading the checkpoint log returns
    tail,      \* the log ends in the middle of a line: "torn", or the path on it
    legacy,    \* paths in the old checkpoint file
    stops,     \* how many times each kind of mishap has occurred
    orphaned,  \* a run without --resume wrote the -o file beside a log in use
    strayed    \* a run with --resume and without -o went on with the log

memory == <<run, walk, known, pending, saving, stats, inodes, buffer, outcome>>
files == <<catalogue, output, dated, latest>>
disk == <<files, log, tail, legacy>>
history == <<orphaned, strayed>>
vars == <<memory, disk, stops, history>>

NoStats == [files |-> 0, errors |-> 0, skipped |-> 0, excluded |-> 0, links |-> 0,
            gnss |-> 0, corrupt |-> 0, claimed |-> 0, seen |-> 0, extracted |-> 0,
            dups |-> 0]
Commands == {"idle", "scan", "survey"}
Mishaps == {"interrupt", "kill", "cut", "io"}
Total == stops["interrupt"] + stops["kill"] + stops["cut"] + stops["io"]

Children(d) == {e \in Entries : Entry[e].parent = d}
IsArchive(e) == Entry[e].type = "file" /\ Entry[e].archive # "no"

InArchive[e \in Entries] == LET p == Entry[e].parent
                            IN p # Root /\ (IsArchive(p) \/ InArchive[p])

\* Entries form a tree: each is in the directory that is scanned, in another
\* directory or in an archive, and none is below itself.  Only regular files are
\* classified; "other" is neither file, directory nor link: a device, a pipe, a
\* socket, or a name that stat does not find.
ASSUME TreeAssumption ==
    /\ \A e \in Entries : LET p == Entry[e].parent
                          IN p = Root \/ IsArchive(p) \/ Entry[p].type = "dir"
    /\ \A S \in SUBSET Entries : S # {} => \E e \in S : Entry[e].parent \notin S
    /\ \A e \in Entries : Entry[e].gnss => Entry[e].type = "file"

\* An old checkpoint names files and links, like mark_scanned; what it says of the
\* members of archives, whose temporary paths are gone, matches nothing any more.
ASSUME LegacyAssumption ==
    /\ LegacyPaths \subseteq Entries
    /\ \A e \in LegacyPaths : Entry[e].type # "dir" /\ ~InArchive[e]

Init ==
    /\ run = [command |-> "idle", named |-> FALSE, resume |-> FALSE, hidden |-> FALSE,
              depth |-> 0]
    /\ walk = <<>> /\ known = {} /\ pending = <<>> /\ saving = FALSE
    /\ stats = NoStats /\ inodes = {} /\ buffer = {} /\ outcome = "none"
    /\ legacy \in SUBSET LegacyPaths
    /\ catalogue = [e \in Entries |-> IF e \in legacy THEN 1 ELSE 0]
    /\ output = (legacy # {}) /\ dated = {} /\ latest = {}
    /\ log = {} /\ tail = "none"
    /\ stops = [m \in Mishaps |-> 0] /\ orphaned = FALSE /\ strayed = FALSE

Mishap(m) == /\ Total < MaxStops
             /\ stops' = [stops EXCEPT ![m] = @ + 1]

\* ---- the checkpoint log

Elements(s) == {s[i] : i \in DOMAIN s}

\* Lines appended behind a torn tail begin on the line of that tail: the first
\* path and the path before it become one line that does not parse.
Appended(paths) ==
    IF tail = "none" \/ paths = <<>> THEN log \cup Elements(paths)
    ELSE (log \ {tail}) \cup Elements(Tail(paths))

\* mark_scanned at the end of an entry: a full batch, and for regular files every
\* SaveEvery-th file, calls save_checkpoint.
MarkScanned(e, count) ==
    IF ~run.resume THEN UNCHANGED <<known, pending, saving>>
    ELSE /\ known' = known \cup {e}
         /\ pending' = Append(pending, e)
         /\ saving' = \/ Len(pending') >= BatchSize
                      \/ Entry[e].type = "file" /\ count % SaveEvery = 0

\* The batch is forgotten once it is written.
Save ==
    /\ saving
    /\ log' = Appended(pending) /\ tail' = "none"
    /\ pending' = <<>> /\ saving' = FALSE
    /\ UNCHANGED <<run, walk, known, stats, inodes, buffer, outcome, files, legacy, stops,
                   history>>

\* An append that stops half-way: the first k lines are in the file, and it may
\* end in a piece of the next one, or in line k without its line break (which
\* matters only if no line before it names that path).
CutAppend(paths) ==
    \E k \in 0 .. Len(paths) :
      LET lines == Appended(SubSeq(paths, 1, k))
      IN \/ /\ log' = lines
            /\ tail' = IF k = 0 THEN tail ELSE "none"
         \/ /\ k < Len(paths)
            /\ log' = IF k = 0 THEN log \ {tail} ELSE lines
            /\ tail' = "torn"
         \/ /\ k > 0 /\ paths[k] \in lines \ Appended(SubSeq(paths, 1, k - 1))
            /\ log' = lines
            /\ tail' = paths[k]

\* The process is gone, and with it everything in memory.
Ended(how) ==
    /\ run' = [run EXCEPT !.command = "idle"] /\ outcome' = how
    /\ known' = {} /\ pending' = <<>> /\ buffer' = {}
    /\ stats' = NoStats /\ inodes' = {}

\* The append raises, before or after it wrote something: an error of the entry
\* whose mark caused it, which keeps the batch, or the end of the command when it
\* is the final save.
SaveFails ==
    /\ saving
    /\ \/ Mishap("io") /\ UNCHANGED <<log, tail>>
       \/ Mishap("cut") /\ CutAppend(pending)
    /\ saving' = FALSE
    /\ IF walk # <<>>
         THEN /\ stats' = [stats EXCEPT !.errors = @ + 1]
              /\ UNCHANGED <<run, outcome, known, pending, inodes, buffer>>
         ELSE Ended("error")
    /\ UNCHANGED <<walk, files, legacy, history>>

\* ---- what is decided about one entry

\* Mutation: the checkpoint is written and never looked at.
ScannedNever(e) == FALSE
Scanned(e) == run.resume /\ e \in known /\ ~InArchive[e]
IsExcluded(e) == run.command \in Entry[e].excluded
ShouldSkipPath(e) == Entry[e].hidden /\ ~run.hidden
IsCorrupt(e) == Entry[e].suspect \/ Entry[e].size > Capacity
IsHardlinkDup(e) == ~IsCorrupt(e) /\ Entry[e].inode \in inodes \ {0}
IsGnss(e) == Entry[e].gnss /\ ~IsCorrupt(e)
Depth == Cardinality({i \in DOMAIN walk : walk[i].dir # Root /\ IsArchive(walk[i].dir)})

Top == walk[Len(walk)]
Without(e) == [walk EXCEPT ![Len(walk)].left = @ \ {e}]

Entering(w, d) == Append(w, [dir |-> d, left |-> Children(d)])
Busy == run.command # "idle" /\ walk # <<>> /\ ~saving

\* ---- the two commands

\* What the checkpoint manager finds when it is created.
Loaded(resume) == IF resume THEN log \cup legacy ELSE {}
Orders(S) == {paths \in [1 .. Cardinality(S) -> S] : Elements(paths) = S}

\* It appends the paths of an old checkpoint to the log, once, and removes it.
Migrated(resume) ==
    /\ legacy' = IF resume THEN {} ELSE legacy
    /\ IF resume /\ ~(legacy \subseteq log)
         THEN /\ tail' = "none"
              /\ \E paths \in Orders(legacy \ log) : log' = Appended(paths)
         ELSE UNCHANGED <<log, tail>>

\* The process is killed in that append, or the append raises: no scan begins.
MigrationCut ==
    /\ run.command = "idle" /\ ~(legacy \subseteq log) /\ Mishap("cut")
    /\ \E paths \in Orders(legacy \ log) : CutAppend(paths)
    /\ outcome' = "killed"
    /\ UNCHANGED <<run, walk, known, pending, saving, stats, inodes, buffer, files, legacy,
                   history>>

\* A run resumes when its checkpoint loaded something.  Otherwise it refuses to
\* replace the file that -o names, unless forced, and then truncates it; without
\* -o the file is a new one.
StartScan(named, resume, force, hidden) ==
    LET resuming == Loaded(resume) # {}
        refused == named /\ output /\ ~resuming /\ ~force
    IN
    /\ run.command = "idle"
    /\ known' = Loaded(resume) /\ pending' = <<>> /\ saving' = FALSE /\ buffer' = {}
    /\ Migrated(resume)
    /\ stats' = NoStats /\ inodes' = {}
    /\ outcome' = IF refused THEN "refused" ELSE "running"
    /\ run' = IF refused THEN run
              ELSE [command |-> "scan", named |-> named, resume |-> resume,
                    hidden |-> hidden, depth |-> MaxDepth]
    /\ walk' = IF refused THEN <<>> ELSE Entering(<<>>, Root)
    /\ output' = (output \/ named)
    /\ catalogue' = IF refused \/ resuming \/ ~named THEN catalogue ELSE [e \in Entries |-> 0]
    /\ latest' = {}
    /\ orphaned' = (orphaned \/ (named /\ ~refused /\ ~resume /\ log \cup legacy # {}))
    /\ strayed' = (strayed \/ (~named /\ resume))
    /\ UNCHANGED <<dated, stops>>

StartSurvey(hidden, extract) ==
    /\ run.command = "idle" /\ (SurveyLater \/ outcome \in {"none", "surveyed"})
    /\ run' = [command |-> "survey", named |-> FALSE, resume |-> FALSE, hidden |-> hidden,
              depth |-> IF extract THEN 1 ELSE 0]
    /\ walk' = Entering(<<>>, Root)
    /\ known' = {} /\ pending' = <<>> /\ saving' = FALSE /\ buffer' = {}
    /\ stats' = NoStats /\ inodes' = {} /\ outcome' = "running"
    /\ UNCHANGED <<disk, stops, history>>

\* ---- one entry of the directory on top of the stack

SkipScanned(e) ==
    /\ Scanned(e)
    /\ walk' = Without(e)
    /\ UNCHANGED <<run, known, pending, saving, stats, inodes, buffer, outcome, disk, stops, history>>

SkipEntry(e) ==
    /\ ~Scanned(e)
    /\ IsExcluded(e) \/ ShouldSkipPath(e)
    /\ stats' = IF IsExcluded(e) THEN [stats EXCEPT !.excluded = @ + 1]
                ELSE [stats EXCEPT !.skipped = @ + 1]
    /\ walk' = Without(e)
    /\ UNCHANGED <<run, known, pending, saving, inodes, buffer, outcome, disk, stops, history>>

Admitted(e) == ~Scanned(e) /\ ~IsExcluded(e) /\ ~ShouldSkipPath(e)

\* The record of a symbolic link is written without a flush.
RecordSymlink(e) ==
    /\ Admitted(e) /\ Entry[e].type = "link"
    /\ walk' = Without(e)
    /\ buffer' = IF run.command = "scan" THEN buffer \cup {e} ELSE buffer
    /\ stats' = [stats EXCEPT !.links = @ + 1]
    /\ MarkScanned(e, stats.files)
    /\ UNCHANGED <<run, inodes, outcome, disk, stops, history>>

\* Mutation: a directory is marked in the checkpoint like a file.
EnterDirectoryMarks(e) ==
    /\ Admitted(e) /\ Entry[e].type = "dir"
    /\ walk' = Entering(Without(e), e)
    /\ MarkScanned(e, stats.files)
    /\ UNCHANGED <<run, stats, inodes, buffer, outcome, disk, stops, history>>

EnterDirectory(e) ==
    /\ Admitted(e) /\ Entry[e].type = "dir"
    /\ walk' = Entering(Without(e), e)
    /\ UNCHANGED <<run, known, pending, saving, stats, inodes, buffer, outcome, disk, stops,
                   history>>

\* An entry that is_file and is_dir both deny is passed over: no record, no mark,
\* no counter.
PassOver(e) ==
    /\ Admitted(e) /\ Entry[e].type = "other"
    /\ walk' = Without(e)
    /\ UNCHANGED <<run, known, pending, saving, stats, inodes, buffer, outcome, disk, stops,
                   history>>

\* Asking what the entry is, or listing it, raises an OSError.
AccessFails(e) ==
    /\ Admitted(e) /\ Mishap("io")
    /\ walk' = Without(e)
    /\ stats' = [stats EXCEPT !.errors = @ + 1]
    /\ UNCHANGED <<run, known, pending, saving, inodes, buffer, outcome, disk, history>>

\* Records reach the output file of the run.
WriteOut(S) ==
    IF run.named
    THEN /\ catalogue' = [x \in Entries |-> catalogue[x] + IF x \in S THEN 1 ELSE 0]
         /\ UNCHANGED <<dated, latest>>
    ELSE /\ dated' = dated \cup S /\ latest' = latest \cup S
         /\ UNCHANGED catalogue

\* Writing the record flushes whatever was written before it.
Flushed(e) == IF run.command = "scan"
                THEN WriteOut(buffer \cup {e}) /\ buffer' = {}
                ELSE UNCHANGED <<catalogue, dated, latest, buffer>>

Counted(e) ==
    [stats EXCEPT !.files = @ + 1, !.claimed = @ + Entry[e].size,
                  !.corrupt = @ + IF IsCorrupt(e) THEN 1 ELSE 0,
                  !.gnss = @ + IF IsGnss(e) THEN 1 ELSE 0,
                  !.dups = @ + IF IsHardlinkDup(e) THEN 1 ELSE 0]

CountedFailure(e) ==
    [stats EXCEPT !.errors = @ + 1, !.dups = @ + IF IsHardlinkDup(e) THEN 1 ELSE 0]

Opens(e) == IsArchive(e) /\ ~IsCorrupt(e) /\ ~IsHardlinkDup(e)
Extracted(e) == Depth < run.depth /\ Entry[e].archive = "good"

\* Mutation: a file is marked in the checkpoint before its record is written.
ProcessFileMarksFirst(e) ==
    /\ Admitted(e) /\ Entry[e].type = "file"
    /\ walk' = Without(e) /\ buffer' = buffer \cup {e}
    /\ stats' = Counted(e)
    /\ MarkScanned(e, stats.files + 1)
    /\ UNCHANGED <<run, inodes, outcome, disk, stops, history>>

ProcessFile(e) ==
    /\ Admitted(e) /\ Entry[e].type = "file"
    /\ Flushed(e)
    /\ inodes' = IF IsCorrupt(e) THEN inodes ELSE inodes \cup {Entry[e].inode}
    /\ IF Opens(e) /\ Extracted(e)
         THEN /\ walk' = Entering(Without(e), e)
              /\ stats' = [Counted(e) EXCEPT !.seen = @ + 1, !.extracted = @ + 1]
              /\ UNCHANGED <<known, pending, saving>>
         ELSE /\ walk' = Without(e)
              /\ stats' = IF Opens(e) THEN [Counted(e) EXCEPT !.seen = @ + 1] ELSE Counted(e)
              /\ MarkScanned(e, stats.files + 1)
    /\ UNCHANGED <<run, outcome, output, log, tail, legacy, stops, history>>

\* Writing the record fails: the entry is neither recorded nor marked.
ProcessFileFails(e) ==
    /\ Admitted(e) /\ Entry[e].type = "file" /\ run.command = "scan"
    /\ Mishap("io")
    /\ walk' = Without(e)
    /\ inodes' = IF IsCorrupt(e) THEN inodes ELSE inodes \cup {Entry[e].inode}
    /\ stats' = CountedFailure(e)
    /\ UNCHANGED <<run, known, pending, saving, buffer, outcome, disk, history>>

\* The end of a directory; an archive is marked when its members are done.
LeaveDirectory ==
    /\ Busy /\ Top.left = {}
    /\ walk' = SubSeq(walk, 1, Len(walk) - 1)
    /\ IF Top.dir # Root /\ IsArchive(Top.dir) /\ run.command = "scan"
         THEN MarkScanned(Top.dir, stats.files)
         ELSE UNCHANGED <<known, pending, saving>>
    /\ UNCHANGED <<run, stats, inodes, buffer, outcome, disk, stops, history>>

\* ---- how a command ends

\* Closing the output flushes it.
FinalSave ==
    /\ run.command # "idle" /\ walk = <<>> /\ ~saving /\ pending # <<>>
    /\ WriteOut(buffer) /\ buffer' = {} /\ saving' = TRUE
    /\ UNCHANGED <<run, walk, known, pending, stats, inodes, outcome, output, log, tail,
                   legacy, stops, history>>

Finish ==
    /\ run.command # "idle" /\ walk = <<>> /\ ~saving /\ pending = <<>>
    /\ WriteOut(buffer) /\ buffer' = {}
    /\ run' = [run EXCEPT !.command = "idle"]
    /\ outcome' = IF run.command = "survey" THEN "surveyed" ELSE "complete"
    /\ known' = {} /\ inodes' = {}
    /\ UNCHANGED <<walk, pending, saving, stats, output, log, tail, legacy, stops, history>>

\* KeyboardInterrupt leaves scan() through the finally clause, which closes the
\* output, and past the final save_checkpoint.
Interrupt ==
    /\ run.command # "idle" /\ Mishap("interrupt")
    /\ WriteOut(buffer)
    /\ walk' = <<>> /\ saving' = FALSE /\ Ended("interrupted")
    /\ UNCHANGED <<output, log, tail, legacy, history>>

\* SIGTERM, SIGKILL or a crash: nothing that is only in memory survives.
Kill ==
    /\ run.command # "idle" /\ Mishap("kill")
    /\ walk' = <<>> /\ saving' = FALSE /\ Ended("killed")
    /\ UNCHANGED <<disk, history>>

\* The same in the middle of an append.
KillInAppend ==
    /\ saving /\ Mishap("cut") /\ CutAppend(pending)
    /\ walk' = <<>> /\ saving' = FALSE /\ Ended("killed")
    /\ UNCHANGED <<files, legacy, history>>

\* ---- survey_verdict, printed when a survey ends

Verdict == IF stats.gnss > 0 THEN "keep"
           ELSE IF stats.claimed > Capacity THEN "unreliable" ELSE "wipe"

\* Mutation: unopened archives are those that failed to extract.
WarningsWithoutArchives ==
    {w \in {"corrupt", "skipped", "links", "errors"} :
        \/ w = "corrupt" /\ (stats.claimed > Capacity \/ stats.corrupt > 0)
        \/ w = "skipped" /\ stats.skipped > 0 /\ ~run.hidden
        \/ w = "links" /\ stats.links > 0
        \/ w = "errors" /\ stats.errors > 0}

Warnings ==
    {w \in {"corrupt", "skipped", "links", "unopened", "errors"} :
        \/ w = "corrupt" /\ (stats.claimed > Capacity \/ stats.corrupt > 0)
        \/ w = "skipped" /\ stats.skipped > 0 /\ ~run.hidden
        \/ w = "links" /\ stats.links > 0
        \/ w = "unopened" /\ stats.seen - stats.extracted > 0
        \/ w = "errors" /\ stats.errors > 0}

\* What the summary above the verdict says besides.
Summary ==
    {w \in {"excluded", "dups"} :
        \/ w = "excluded" /\ stats.excluded > 0
        \/ w = "dups" /\ stats.dups > 0}

Visit(e) == \/ SkipScanned(e) \/ SkipEntry(e) \/ RecordSymlink(e)
            \/ EnterDirectory(e) \/ PassOver(e) \/ AccessFails(e)
            \/ ProcessFile(e) \/ ProcessFileFails(e)

Next ==
    \/ \E named, resume, force, hidden \in BOOLEAN : StartScan(named, resume, force, hidden)
    \/ MigrationCut
    \/ \E hidden, extract \in BOOLEAN : StartSurvey(hidden, extract)
    \/ Busy /\ \E e \in Top.left : Visit(e)
    \/ LeaveDirectory
    \/ Save
    \/ SaveFails
    \/ FinalSave
    \/ Finish
    \/ Interrupt
    \/ Kill
    \/ KillInAppend

Spec == Init /\ [][Next]_vars

-----------------------------------------------------------------------------
\* ---- properties

\* Everything in memory and on disk has the declared type.
TypeOK ==
    /\ run \in [command : Commands, named : BOOLEAN, resume : BOOLEAN, hidden : BOOLEAN,
               depth : Nat]
    /\ known \subseteq Entries /\ Elements(pending) \subseteq Entries /\ saving \in BOOLEAN
    /\ \A i \in DOMAIN walk : walk[i].left \subseteq Children(walk[i].dir)
    /\ DOMAIN stats = DOMAIN NoStats /\ \A f \in DOMAIN stats : stats[f] \in Nat
    /\ buffer \subseteq Entries /\ inodes \subseteq Nat
    /\ catalogue \in [Entries -> Nat] /\ output \in BOOLEAN
    /\ latest \subseteq dated /\ dated \subseteq Entries
    /\ orphaned \in BOOLEAN /\ strayed \in BOOLEAN
    /\ log \subseteq Entries /\ legacy \subseteq Entries
    /\ tail \in {"none", "torn"} \cup Entries
    /\ stops \in [Mishaps -> 0 .. MaxStops]

\* Nothing was recorded without a flush and then lost, and no run without
\* --resume has written the -o file beside a checkpoint log.
Untouched == stops["kill"] + stops["cut"] = 0 /\ ~orphaned

\* An entry has a record in one of the output files, or in that of the latest run.
Written(e) == catalogue[e] >= 1 \/ e \in dated
InOwn(e) == IF run.named THEN catalogue[e] >= 1 ELSE e \in latest

\* The members of an archive that any scan looks at, and the archives any scan
\* opens: outside other archives, readable, and taken for a link to no other file.
Members(a) == {m \in Children(a) : Entry[m].type = "file" /\ ~Entry[m].hidden
                                    /\ "scan" \notin Entry[m].excluded}
AlwaysOpened(a) ==
    /\ IsArchive(a) /\ Entry[a].archive = "good" /\ ~IsCorrupt(a)
    /\ ~InArchive[a] /\ MaxDepth > 0
    /\ \A e \in Entries \ {a} : Entry[e].inode = Entry[a].inode => Entry[a].inode = 0

\* A path a later run would skip has its record in an output file: for a
\* regular file always, for a symbolic link (whose record is not flushed) as
\* long as no process was killed.  An archive is in the log only when all its
\* plain members are recorded, unless reading or writing has failed.
CheckpointHonest ==
    ~orphaned =>
    \A e \in log \cup legacy :
        /\ Entry[e].type = "file" => Written(e)
        /\ Entry[e].type = "link" /\ Untouched => Written(e) \/ e \in buffer
        /\ AlwaysOpened(e) /\ stops["io"] = 0 /\ e \notin LegacyPaths
           => \A m \in Members(e) : Written(m)

\* What a complete scan with these options is to record outside archives.
Reachable[e \in Entries] ==
    /\ "scan" \notin Entry[e].excluded /\ ~ShouldSkipPath(e)
    /\ Entry[e].parent = Root \/ (Entry[Entry[e].parent].type = "dir"
                                  /\ Reachable[Entry[e].parent])

\* A scan without --resume that prints its summary without errors has every
\* reachable file and link in its own output file.  With --resume every one of
\* them is in one of the output files of the runs before it, however many these
\* were (links if no process was killed), as long as none of these files was
\* replaced.
CompleteCatalogue ==
    outcome = "complete" /\ stats.errors = 0 =>
    \A e \in Entries : Reachable[e] =>
        /\ Entry[e].type \in {"file", "link"} /\ ~run.resume => InOwn(e)
        /\ Entry[e].type = "file" /\ run.resume /\ ~orphaned => Written(e)
        /\ Entry[e].type = "link" /\ run.resume /\ Untouched => Written(e)

\* Not so: the output file of a resumed scan that is complete has every reachable
\* file (README.md of the tool, "Resume interrupted scan: drive-archaeologist scan
\* C:\OldDrive --resume", which names no file).
OwnCatalogueComplete ==
    outcome = "complete" /\ stats.errors = 0 /\ ~orphaned =>
    \A e \in Entries : Reachable[e] /\ Entry[e].type = "file" => InOwn(e)

\* Not so either: a run with --resume re-walks what a crash lost, links too
\* (checkpoint.py, "Durability model: ... a crash loses at most one unflushed
\* batch, which a resumed scan simply re-walks").
ResumedScanComplete ==
    outcome = "complete" /\ run.resume /\ stats.errors + stops["io"] = 0 /\ ~orphaned =>
    \A e \in Entries : Reachable[e] /\ Entry[e].type \in {"file", "link"} => Written(e)

\* A file is recorded twice in the -o file only if something interrupted a run
\* after its record was written: once for each mishap, and once more for an append
\* that stopped half-way, whose torn line swallows a path appended later; as long
\* as every run with --resume names the file and every run that names it resumes.
DuplicatesNeedMishaps ==
    ~orphaned /\ ~strayed => \A e \in Entries : catalogue[e] <= 1 + Total + stops["cut"]

\* What memory takes for scanned is in the log or waits in the batch, except
\* for what a torn line swallowed: one path for each append that stopped half-way,
\* and the path before it.  A crash loses no more than one batch.
BatchAtRisk ==
    run.command = "scan" /\ run.resume =>
    Cardinality({e \in known : e \notin log /\ e \notin Elements(pending)}) <= 2 * stops["cut"]

\* A verdict that lets a drive be wiped means that there is no GNSS file on it, in
\* hidden directories and archives neither, if no warning but the one about links
\* comes with it and the summary above it counts no excluded entries and no
\* hardlinks (cli.survey: "explicit disclosure of anything the walk did not cover").
WipeIsDisclosed ==
    outcome = "surveyed" /\ Verdict = "wipe" /\ Warnings \cup Summary \subseteq {"links"} =>
    ~ \E e \in Entries : Entry[e].gnss

\* Not so: the warnings alone tell of every entry that was passed over.
WarningsDisclose ==
    outcome = "surveyed" /\ Warnings \subseteq {"links"} =>
    \A e \in Entries : Entry[e].type # "other" /\ "survey" \notin Entry[e].excluded

\* What mishaps may cost: at most so many records twice, at most so many paths
\* that are walked again.
RecordInvariant == TypeOK /\ DuplicatesNeedMishaps /\ BatchAtRisk
=============================================================================
