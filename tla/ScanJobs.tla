------------------------------ MODULE ScanJobs ------------------------------
(***************************************************************************)
(* Detached scans: the scan screens of several TUI instances over the job  *)
(* registry they share (scanjobs.py).  The registry is a file that every   *)
(* operation loads, changes and saves without a lock: a save empties the   *)
(* file and then writes it, and a file that does not parse loads as an     *)
(* empty list.  A TUI may be killed between any two of these steps.  A job *)
(* is known by its pid; which scan a job or a process is (a serial number) *)
(* the program does not know.  A pid becomes free when its process ends.   *)
(***************************************************************************)
EXTENDS Integers, Sequences, FiniteSets

CONSTANTS
    Apps,      \* TUI instances
    Catalogs,  \* output files
    Pids,
    MaxScans   \* bound on scans that are started

NoJob == [pid |-> 0, output |-> "", scan |-> 0]
NoProcess == [output |-> "", scan |-> 0, signal |-> "none"]
NewView == [job |-> NoJob, paused |-> FALSE, says |-> "attaching", todo |-> <<>>,
            step |-> "idle", jobs |-> <<>>, base |-> <<>>]

VARIABLES
    process,  \* the scan process of each pid
    banner,   \* the scans whose "Scan Complete!" is in the console log of an output
    exists,   \* the outputs that exist
    registry, \* what loading active_scans.json returns
    blank,    \* that file has nothing in it, or is not there
    view,     \* the scan screen of each TUI: its job and what is left to do
    scans,    \* scans started so far
    exposed   \* the scans that ran when something happened to the registry
vars == <<process, banner, exists, registry, blank, view, scans, exposed>>

Init ==
    /\ process = [p \in Pids |-> NoProcess]
    /\ banner = [o \in Catalogs |-> {}] /\ exists = {}
    /\ registry = <<>> /\ blank = TRUE /\ view = [a \in Apps |-> NewView]
    /\ scans = 0 /\ exposed = {}

Running == {p \in Pids : process[p] # NoProcess}
ScansNow == {process[p].scan : p \in Running}

\* The pid lives and its command line is that of a scan.
IsAlive(job) == job.pid \in Pids /\ process[job.pid] # NoProcess
\* The banner of some scan is in the console log, to which every scan appends.
IsComplete(job) == banner[job.output] # {}

\* ---- operations on the registry: load and change, truncate, write

\* How many members of S are not above i, and its members, the smallest first.
Rank(S, i) == Cardinality({j \in S : j <= i})
Ascending(S) == [k \in 1..Cardinality(S) |-> CHOOSE i \in S : Rank(S, i) = k]
\* The jobs of a list at the places in I, in their order.
Kept(jobs, I) == LET places == Ascending(I) IN [k \in DOMAIN places |-> jobs[places[k]]]
Without(jobs, pid) == Kept(jobs, {i \in DOMAIN jobs : jobs[i].pid # pid})
Survivors(jobs) == Kept(jobs, {i \in DOMAIN jobs : IsAlive(jobs[i])})

\* Pruning looks at the processes while it loads.
Changed(jobs, op) ==
    CASE op.kind = "add" -> Append(Without(jobs, op.job.pid), op.job)
      [] op.kind = "remove" -> Without(jobs, op.job.pid)
      [] op.kind = "prune" -> Survivors(jobs)

LoadJobs(a) ==
    /\ view[a].todo # <<>> /\ view[a].step = "idle"
    /\ view' = [view EXCEPT ![a].step = "loaded", ![a].base = registry,
                            ![a].jobs = Changed(registry, Head(view[a].todo))]
    /\ UNCHANGED <<process, banner, exists, registry, blank, scans, exposed>>

\* write_text opens the file, which truncates it; from then on a load finds no job.
\* It exposes what runs if the file no longer says what was loaded.
TruncateJobs(a) ==
    /\ view[a].step = "loaded"
    /\ registry' = <<>> /\ blank' = TRUE
    /\ exposed' = IF registry = view[a].base THEN exposed ELSE exposed \cup ScansNow
    /\ view' = [view EXCEPT ![a].step = "truncated", ![a].base = <<>>]
    /\ UNCHANGED <<process, banner, exists, scans>>

\* The text is written at the start of the file.  What another TUI has written
\* there meanwhile is replaced, and where it was longer its end makes the file
\* unreadable.  A TUI that starts attaches to the last survivor.
WriteJobs(a) ==
    LET jobs == view[a].jobs
    IN
    /\ view[a].step = "truncated"
    /\ registry' \in IF blank THEN {jobs} ELSE {jobs, <<>>}
    /\ blank' = FALSE
    /\ exposed' = IF blank THEN exposed ELSE exposed \cup ScansNow
    /\ view' = [view EXCEPT ![a].todo = Tail(@), ![a].step = "idle", ![a].jobs = <<>>,
                            ![a].job = IF Head(view[a].todo).attach /\ jobs # <<>>
                                         THEN jobs[Len(jobs)] ELSE @]
    /\ UNCHANGED <<process, banner, exists, scans>>

Op(kind, job, attach) == [kind |-> kind, job |-> job, attach |-> attach]

\* ---- spawn_scan and resume_job

\* A registry, a screen or a pending operation still names the pid.
Known(pid) ==
    \/ \E i \in DOMAIN registry : registry[i].pid = pid
    \/ \E a \in Apps : \/ view[a].job.pid = pid
                       \/ \E i \in DOMAIN view[a].todo : view[a].todo[i].job.pid = pid
                       \/ \E i \in DOMAIN view[a].jobs : view[a].jobs[i].pid = pid

Popen(pid, output) ==
    /\ scans < MaxScans /\ process[pid] = NoProcess
    /\ process' = [process EXCEPT ![pid] = [output |-> output, scan |-> scans + 1, signal |-> "none"]]
    /\ scans' = scans + 1
    /\ exists' = exists \cup {output}
    /\ exposed' = IF Known(pid) THEN exposed \cup {scans + 1} ELSE exposed

NewJob(pid, output) == [pid |-> pid, output |-> output, scan |-> scans + 1]
Ready(a) == view[a].todo = <<>>

\* For an output that exists the clobber dialog offers to resume or to overwrite;
\* both spawn, and nothing asks whether a scan into this output is running.
SpawnScan(a, pid, output) ==
    /\ Ready(a) /\ view[a].job = NoJob
    /\ Popen(pid, output)
    /\ view' = [view EXCEPT ![a] = [NewView EXCEPT !.job = NewJob(pid, output),
                              !.todo = <<Op("add", NewJob(pid, output), FALSE)>>]]
    /\ UNCHANGED <<banner, registry, blank>>

\* Mutation: the new job is not registered.
ResumeJobUnregistered(a, pid) ==
    /\ view[a].paused
    /\ Popen(pid, view[a].job.output)
    /\ view' = [view EXCEPT ![a] = [NewView EXCEPT !.job = NewJob(pid, view[a].job.output),
                              !.todo = <<Op("remove", view[a].job, FALSE)>>]]
    /\ UNCHANGED <<banner, registry, blank>>

ResumeJob(a, pid) ==
    /\ view[a].paused
    /\ Popen(pid, view[a].job.output)
    /\ view' = [view EXCEPT ![a] = [NewView EXCEPT !.job = NewJob(pid, view[a].job.output),
                              !.todo = <<Op("remove", view[a].job, FALSE),
                                         Op("add", NewJob(pid, view[a].job.output), FALSE)>>]]
    /\ UNCHANGED <<banner, registry, blank>>

\* ---- the scan screen

Send(a, signal) ==
    /\ IsAlive(view[a].job)
    /\ process' = [process EXCEPT ![view[a].job.pid].signal = signal]
    /\ view' = [view EXCEPT ![a].paused = TRUE]
    /\ UNCHANGED <<banner, exists, registry, blank, scans, exposed>>

Attached(a) == Ready(a) /\ view[a].job # NoJob /\ view[a].says # "complete"

Pause(a) == ~view[a].paused /\ Send(a, "INT")
CancelScan(a) == Send(a, "TERM")

Poll(a) ==
    IF IsAlive(view[a].job) THEN view' = [view EXCEPT ![a].says = "scanning"]
    ELSE IF view[a].paused THEN view' = [view EXCEPT ![a].says = "paused"]
    ELSE IF IsComplete(view[a].job)
    THEN view' = [view EXCEPT ![a].says = "complete", ![a].todo = <<Op("prune", NoJob, FALSE)>>]
    ELSE view' = [view EXCEPT ![a].says = "stopped", ![a].paused = TRUE]

Watch(a) == Poll(a) /\ UNCHANGED <<process, banner, exists, registry, blank, scans, exposed>>

\* Leaving the screen leaves the scan running; a TUI that starts prunes and attaches.
Back(a) ==
    /\ Ready(a) /\ view[a].job # NoJob
    /\ view' = [view EXCEPT ![a] = NewView]
    /\ UNCHANGED <<process, banner, exists, registry, blank, scans, exposed>>

Reattach(a) ==
    /\ Ready(a) /\ view[a].job = NoJob
    /\ view' = [view EXCEPT ![a] = [NewView EXCEPT !.todo = <<Op("prune", NoJob, TRUE)>>]]
    /\ UNCHANGED <<process, banner, exists, registry, blank, scans, exposed>>

\* The TUI is killed, crashes or fails to write: its scans run on, and whatever it
\* had still to do with the registry is not done.
KillApp(a) ==
    /\ view[a] # NewView
    /\ exposed' = exposed
         \cup {view[a].todo[i].job.scan : i \in {k \in DOMAIN view[a].todo : view[a].todo[k].kind = "add"}}
         \cup (IF view[a].step = "truncated" THEN ScansNow ELSE {})
    /\ view' = [view EXCEPT ![a] = NewView]
    /\ UNCHANGED <<process, banner, exists, registry, blank, scans>>

\* ---- the scan processes: the end of the walk, or a signal or crash

Ends(pid) ==
    /\ process[pid] # NoProcess
    /\ process' = [process EXCEPT ![pid] = NoProcess]
    /\ \/ banner' = [banner EXCEPT ![process[pid].output] = @ \cup {process[pid].scan}]
       \/ UNCHANGED banner
    /\ UNCHANGED <<exists, registry, blank, view, scans, exposed>>

Next ==
    \/ \E a \in Apps : LoadJobs(a)
    \/ \E a \in Apps : TruncateJobs(a)
    \/ \E a \in Apps : WriteJobs(a)
    \/ \E a \in Apps, p \in Pids, o \in Catalogs : SpawnScan(a, p, o)
    \/ \E a \in Apps, p \in Pids : Attached(a) /\ ResumeJob(a, p)
    \/ \E a \in Apps : Attached(a) /\ Pause(a)
    \/ \E a \in Apps : Attached(a) /\ CancelScan(a)
    \/ \E a \in Apps : Attached(a) /\ Watch(a)
    \/ \E a \in Apps : Back(a)
    \/ \E a \in Apps : Reattach(a)
    \/ \E a \in Apps : KillApp(a)
    \/ \E p \in Pids : Ends(p)

Spec == Init /\ [][Next]_vars

-----------------------------------------------------------------------------
\* ---- properties

AboutToRegister(p) == \E a \in Apps : \E i \in DOMAIN view[a].todo :
                        view[a].todo[i].kind = "add" /\ view[a].todo[i].job.pid = p

\* The job of the scan that runs under a pid is in a list, and no other of that pid.
Lists(jobs, p) ==
    \E i \in DOMAIN jobs : /\ jobs[i].pid = p /\ jobs[i].scan = process[p].scan
                           /\ \A j \in DOMAIN jobs : jobs[j].pid = p => j = i

\* A running scan that nobody has told to stop can be found again by a TUI that
\* starts later: it is in the registry, once, or in what a save that has truncated
\* the file is about to write; unless, while it ran, one save has undone or
\* overwritten another, or a TUI died in the middle of a save or before it had
\* registered this scan, or its pid is that of an earlier job.  Scans that start
\* after such a mishap are found again.
RunningIsRegistered ==
    \A p \in Running :
        process[p].scan \notin exposed /\ ~AboutToRegister(p) /\ process[p].signal = "none" =>
            \/ Lists(registry, p)
            \/ \E a \in Apps : view[a].step = "truncated" /\ Lists(view[a].jobs, p)

\* Not so without "unless" (scanjobs.py: "any later TUI instance can re-discover,
\* watch, pause, or resume it").
EveryScanIsFound ==
    \A p \in Running : ~AboutToRegister(p) /\ process[p].signal = "none" =>
        \/ Lists(registry, p)
        \/ \E a \in Apps : view[a].step = "truncated"

\* A screen that says a scan is complete has seen its process gone, and some
\* scan into this output has ended cleanly.
CompleteMeansEnded ==
    \A a \in Apps : view[a].says = "complete" =>
        /\ banner[view[a].job.output] # {}
        /\ \A p \in Pids : process[p].scan # view[a].job.scan

\* The same without "some" (scanjobs.py, is_complete: "Did the scan finish
\* cleanly (vs crash/kill)?").
CompleteMeansFinished ==
    \A a \in Apps : view[a].says = "complete" => view[a].job.scan \in banner[view[a].job.output]

\* A screen signals the process of its own scan only (scanjobs.py: "so a recycled
\* pid is never mistaken for the scan").
SignalsOwnScan ==
    [][\A p \in Pids : process'[p].signal # process[p].signal /\ process'[p] # NoProcess =>
         \E a \in Apps : view[a].job.pid = p /\ view[a].job.scan = process[p].scan]_vars

\* What a screen can find and what it says of a scan are true.
JobInvariant == RunningIsRegistered /\ CompleteMeansEnded
=============================================================================
