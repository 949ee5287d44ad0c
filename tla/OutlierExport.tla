---------------------------- MODULE OutlierExport ----------------------------
(***************************************************************************)
(* The velocity reviewer (app.py, reader.py and its page): an operator     *)
(* selects outlier epochs per site, the server keeps the selections in     *)
(* memory, and an export writes OUTLIERS.txt and strips the PLOT files,    *)
(* each from a backup made by the first export.  The server may be stopped *)
(* or killed in any write; the pipeline may produce a PLOT file anew.      *)
(*                                                                         *)
(* A PLOT file is the set of its epochs.                                   *)
(***************************************************************************)
EXTENDS Integers, FiniteSets

CONSTANTS
    Sites,
    Epochs,   \* epochs a PLOT file may have
    Step,     \* epochs that agree to four decimals of a year
    Hidden,   \* epochs the pipeline adds when it produces a PLOT file anew
    MaxKills  \* bound on restarts and on new PLOT files

ASSUME EpochsAssumption == Epochs \subseteq Nat /\ Hidden \subseteq Epochs
ASSUME StepAssumption == Step \in Nat \ {0}
ASSUME MaxKillsAssumption == MaxKills \in Nat

VARIABLES
    plot,       \* the PLOT file of each site
    bak, backed,  \* SITE.bak, and the sites that have one
    listed,     \* OUTLIERS.txt
    selections, \* the server's memory
    page,       \* the page: the site it shows, its epochs, selected ones it does not show
    export,     \* the export under way or, at "done", the one that ended last
    original,   \* history: the PLOT file as the pipeline made it
    spoiled,    \* history: sites whose backup was cut short or is older than the PLOT file
    kills
vars == <<plot, bak, backed, listed, selections, page, export, original, spoiled, kills>>

Rounded(t) == t \div Step
Ticks(ts) == {Rounded(t) : t \in ts}

TypeOK ==
    /\ plot \in [Sites -> SUBSET Epochs] /\ bak \in [Sites -> SUBSET Epochs]
    /\ backed \subseteq Sites /\ listed \subseteq Sites \X Ticks(Epochs)
    /\ selections \in [Sites -> SUBSET Epochs]
    /\ page \in [site : Sites, shown : SUBSET Epochs, kept : SUBSET Epochs]
    /\ export \in [at : {"idle", "list", "backup", "strip", "done"}, left : SUBSET Sites,
                   site : Sites, wanted : [Sites -> SUBSET Epochs]]
    /\ original \in [Sites -> SUBSET Epochs] /\ spoiled \subseteq Sites /\ kills \in 0..MaxKills

NoSelections == [s \in Sites |-> {}]
Loaded(s) == [site |-> s, shown |-> plot[s], kept |-> selections[s] \ plot[s]]

Init ==
    /\ plot = [s \in Sites |-> Epochs \ Hidden] /\ original = plot
    /\ bak = [s \in Sites |-> {}] /\ backed = {} /\ listed = {}
    /\ selections = NoSelections
    /\ \E s \in Sites : /\ page = Loaded(s)
                        /\ export = [at |-> "idle", left |-> {}, site |-> s, wanted |-> NoSelections]
    /\ spoiled = {} /\ kills = 0

Files == <<plot, bak, backed, listed, original, spoiled>>
AtRest == export.at \in {"idle", "done"}

\* ---- the page

LoadSite(s) == AtRest /\ page' = Loaded(s) /\ UNCHANGED <<Files, selections, export, kills>>

\* Epochs that were selected before and are not in the PLOT file any more stay
\* selected, unless the selection is cleared.
Post ==
    /\ AtRest
    /\ \E ts \in SUBSET page.shown, kept \in {{}, page.kept} :
         selections' = [selections EXCEPT ![page.site] = ts \cup kept]
    /\ export' = [export EXCEPT !.at = "idle"]
    /\ UNCHANGED <<Files, page, kills>>

\* ---- the export

\* Mutation: the lines of an earlier export stay.
LinesAppended == listed \cup {l \in Sites \X Ticks(Epochs) : l[2] \in Ticks(selections[l[1]])}
Lines == {l \in Sites \X Ticks(Epochs) : l[2] \in Ticks(selections[l[1]])}

BeginExport ==
    /\ AtRest
    /\ export' = [export EXCEPT !.at = "list", !.wanted = selections,
                                !.left = {s \in Sites : selections[s] # {}}]
    /\ UNCHANGED <<Files, selections, page, kills>>

Turn == IF export.left = {} THEN [export EXCEPT !.at = "done"]
        ELSE [export EXCEPT !.at = "backup", !.site = CHOOSE s \in export.left : TRUE,
                            !.left = @ \ {CHOOSE s \in export.left : TRUE}]

WriteList ==
    /\ export.at = "list"
    /\ listed' = Lines /\ export' = Turn
    /\ UNCHANGED <<plot, bak, backed, original, spoiled, selections, page, kills>>

\* Mutation: every export makes its own backup.
BackupAlways(s) == bak' = [bak EXCEPT ![s] = plot[s]] /\ backed' = backed \cup {s}
\* A backup is made once.
Backup(s) ==
    IF s \in backed THEN UNCHANGED <<bak, backed>>
    ELSE bak' = [bak EXCEPT ![s] = plot[s]] /\ backed' = backed \cup {s}

WriteBackup ==
    /\ export.at = "backup" /\ Backup(export.site)
    /\ export' = [export EXCEPT !.at = "strip"]
    /\ UNCHANGED <<plot, listed, original, spoiled, selections, page, kills>>

\* Mutation: the PLOT file itself is stripped.
StrippedAgain(s) == {t \in plot[s] : Rounded(t) \notin Ticks(export.wanted[s])}
Stripped(s) == {t \in bak[s] : Rounded(t) \notin Ticks(export.wanted[s])}

WritePlot ==
    /\ export.at = "strip"
    /\ plot' = [plot EXCEPT ![export.site] = Stripped(export.site)]
    /\ export' = Turn
    /\ UNCHANGED <<bak, backed, listed, original, spoiled, selections, page, kills>>

\* ---- restarts and the pipeline

Restarted ==
    /\ kills < MaxKills /\ kills' = kills + 1
    /\ selections' = NoSelections
    /\ export' = [export EXCEPT !.at = "idle", !.left = {}]
    /\ UNCHANGED <<page, original>>

Stop == Restarted /\ UNCHANGED <<plot, bak, backed, listed, spoiled>>

KillInList ==
    /\ export.at = "list" /\ Restarted
    /\ \E part \in SUBSET Lines : listed' = part
    /\ UNCHANGED <<plot, bak, backed, spoiled>>

KillInBackup ==
    /\ export.at = "backup" /\ export.site \notin backed /\ Restarted
    /\ \E part \in SUBSET plot[export.site] : bak' = [bak EXCEPT ![export.site] = part]
    /\ backed' = backed \cup {export.site} /\ spoiled' = spoiled \cup {export.site}
    /\ UNCHANGED <<plot, listed>>

KillInPlot ==
    /\ export.at = "strip" /\ Restarted
    /\ \E part \in SUBSET Stripped(export.site) : plot' = [plot EXCEPT ![export.site] = part]
    /\ UNCHANGED <<bak, backed, listed, spoiled>>

Produce(s) ==
    /\ AtRest /\ kills < MaxKills /\ kills' = kills + 1
    /\ plot' = [plot EXCEPT ![s] = Epochs] /\ original' = [original EXCEPT ![s] = Epochs]
    /\ spoiled' = IF s \in backed THEN spoiled \cup {s} ELSE spoiled
    /\ export' = [export EXCEPT !.at = "idle"]
    /\ UNCHANGED <<bak, backed, listed, selections, page>>

Next ==
    \/ \E s \in Sites : LoadSite(s)
    \/ Post
    \/ BeginExport
    \/ WriteList
    \/ WriteBackup
    \/ WritePlot
    \/ Stop
    \/ KillInList
    \/ KillInBackup
    \/ KillInPlot
    \/ \E s \in Sites : Produce(s)

Spec == Init /\ [][Next]_vars

-----------------------------------------------------------------------------
\* ---- properties

\* What the pipeline made is never lost, whatever is selected, cleared, exported
\* again or killed: before the first export it is the PLOT file, then the backup.
\* (Not if the backup itself is cut short, or a newer PLOT file is stripped from it.)
NothingLost ==
    \A s \in Sites \ spoiled : original[s] = IF s \in backed THEN bak[s] ELSE plot[s]

\* An export that ended leaves, for each site with a selection, exactly the epochs
\* that were not selected: a deselected epoch is back.
ExportIsExact ==
    export.at = "done" => \A s \in Sites \ spoiled : export.wanted[s] # {} =>
        plot[s] = {t \in original[s] : Rounded(t) \notin Ticks(export.wanted[s])}

\* Then OUTLIERS.txt and the PLOT files agree on what is an outlier, but for sites
\* whose selection was cleared or forgotten after an earlier export.
ListAgrees ==
    export.at = "done" => \A s \in Sites \ spoiled : export.wanted[s] # {} \/ s \notin backed =>
        {r \in Ticks(Epochs) : <<s, r>> \in listed} =
            {Rounded(t) : t \in original[s] \ plot[s]} \cup (Ticks(export.wanted[s]) \ Ticks(original[s]))

\* The same for all sites (reader.py: "so that the PLOT file always reflects exactly
\* the current selection"): violated once a selection is cleared.
PlotReflectsSelection ==
    export.at = "done" /\ spoiled = {} => \A s \in Sites :
        plot[s] = {t \in original[s] : Rounded(t) \notin Ticks(export.wanted[s])}
=============================================================================
