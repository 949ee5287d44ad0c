----------------------------- MODULE DeskTools -----------------------------
(***************************************************************************)
(* Five tools of the desk that share no state, side by side: the velocity  *)
(* reviewer's export, the detached scans of the terminal interface, the    *)
(* recovery from recycle bins, the provisioning of Bernese panels and the  *)
(* schema migrations.  tool says which one is at work; the variables of    *)
(* the others stay where they are.                                         *)
(***************************************************************************)
EXTENDS OutlierExport, Sequences

CONSTANTS
    Apps, Catalogs, Pids, MaxScans,                      \* ScanJobs
    Panels, Kind, Versions, Order, Networks, PerStation, Margin, Floor, MaxRuns, MaxCuts,   \* PanelProvision
    BinCatalogs, BinInfos, DirSize, MaxCopies, MaxFaults          \* RecoveryCopy

VARIABLES
    tool,
    process, banner, exists, registry, blank, view, scans, exposed,
    tree, opt, plan, provision, outcome, runs, cuts,
    objects, revision, held, refused,
    catalog, infos, paired, rows, source, dest, dirs, copy, cleanly, copies, faults

jobsVars == <<process, banner, exists, registry, blank, view, scans, exposed>>
panelVars == <<tree, opt, plan, provision, outcome, runs, cuts>>
schemaVars == <<objects, revision, held, refused>>
recoveryVars == <<catalog, infos, paired, rows, source, dest, dirs, copy, cleanly, copies, faults>>
deskVars == <<tool, vars, jobsVars, panelVars, schemaVars, recoveryVars>>

Jobs == INSTANCE ScanJobs
Panel == INSTANCE PanelProvision
Schema == INSTANCE SchemaMigrations
Recovery == INSTANCE RecoveryCopy WITH
    Catalogs <- BinCatalogs, Infos <- BinInfos, MaxRuns <- MaxCopies, runs <- copies

\* No process has the pid 0.
ASSUME PidsAssumption == 0 \notin Pids
\* The panel tree is visited file by file; what a panel may contain are sets of lines.
ASSUME TreeAssumption ==
    /\ Kind \in [Panels -> {"panel", "addneq2", "script"}]
    /\ Versions \in [Panels -> SUBSET SUBSET Panel!Line]
    /\ Order \in Seq(Panels) /\ \A p \in Panels : \E i \in DOMAIN Order : Order[i] = p
ASSUME SizingAssumption ==
    Networks \subseteq Nat /\ PerStation \in Nat /\ Margin \in Nat /\ Floor \in Nat
\* A catalogue holds sizes and paths that do not climb; what a $I file says is where an
\* item was, and no drive is called like the directory of the orphans.
ASSUME BinAssumption ==
    /\ DirSize \in Nat
    /\ \A c \in BinCatalogs :
        /\ c \in Seq({c[i] : i \in DOMAIN c})
        /\ \A i \in DOMAIN c :
             /\ c[i].size \in Nat /\ c[i].name \in STRING /\ c[i].name # ".."
             /\ c[i].sub \in Seq(STRING) /\ ~Recovery!Climbs(c[i].sub)
        /\ \A info \in BinInfos : \A i \in DOMAIN c : Recovery!Payload(c[i]) =>
             /\ info[<<c[i].sid, c[i].name>>] \in Recovery!Info
             /\ info[<<c[i].sid, c[i].name>>].at # <<>>
             /\ info[<<c[i].sid, c[i].name>>].at[1] # "_orphaned"

Tools == {"export", "jobs", "panels", "schema", "recovery"}

\* A tool that is not at work needs no choice of its input.
DeskInit ==
    /\ tool \in Tools /\ Init /\ Jobs!Init /\ Panel!Init /\ Schema!Init /\ Recovery!Init
    /\ tool # "export" => page.site = CHOOSE s \in Sites : TRUE
    /\ tool # "panels" => tree = [p \in Panels |-> CHOOSE v \in Versions[p] : TRUE]
    /\ tool # "recovery" => infos = CHOOSE i \in BinInfos : TRUE

DeskNext ==
    \/ tool = "export" /\ Next /\ UNCHANGED <<tool, jobsVars, panelVars, schemaVars, recoveryVars>>
    \/ tool = "jobs" /\ Jobs!Next /\ UNCHANGED <<tool, vars, panelVars, schemaVars, recoveryVars>>
    \/ tool = "panels" /\ Panel!Next /\ UNCHANGED <<tool, vars, jobsVars, schemaVars, recoveryVars>>
    \/ tool = "schema" /\ Schema!Next /\ UNCHANGED <<tool, vars, jobsVars, panelVars, recoveryVars>>
    \/ tool = "recovery" /\ Recovery!Next /\ UNCHANGED <<tool, vars, jobsVars, panelVars, schemaVars>>

DeskSpec == DeskInit /\ [][DeskNext]_deskVars

\* The properties of the instantiated modules, stated there.

\* A running scan is found again, one called complete has ended (scanjobs.py,
\* tui/screens/scan.py).
JobInvariant == Jobs!JobInvariant
\* A refused provisioning writes nothing, a strict one ships clean panels whose
\* ceiling covers the network (panel_sanitizer.py).
PanelInvariant == Panel!PanelInvariant
\* The schema is that of its revisions, has what the programs name at the heads,
\* and Alembic refuses for known reasons only (migrations/versions).
SchemaInvariant == Schema!SchemaInvariant
\* A wanted file is recovered or reported, at a destination of its own (recovery.py).
RecoveryInvariant == Recovery!RecoveryInvariant
\* A second run after a clean one copies nothing (recovery.py, copy_from_manifest).
ReinvokedCopiesNothing == Recovery!ReinvokedCopiesNothing
=============================================================================
