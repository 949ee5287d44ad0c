--------------------------- MODULE PanelProvision ---------------------------
(***************************************************************************)
(* Provisioning of the Bernese panels (provision_opt_dir): the panel tree  *)
(* of the repository is sanitized and written to $U/OPT in two passes, the *)
(* first of which only plans.  While it runs the source tree may be edited *)
(* and a write may fail.                                                   *)
(*                                                                         *)
(* A panel is the set of its lines, and of a line the model keeps what the *)
(* sanitizer looks at.                                                     *)
(***************************************************************************)
EXTENDS Integers, Sequences, FiniteSets

CONSTANTS
    Panels,     \* names of the files of the tree
    Kind,       \* Kind[p]: "panel", "addneq2" or "script"
    Versions,   \* Versions[p]: what the file may contain
    Order,      \* the order in which the files are visited
    Networks,   \* values of n_stations
    PerStation, Margin, Floor,   \* compute_maxpar
    MaxRuns, MaxCuts   \* bounds on runs and on failing writes

Line == [comment : BOOLEAN,              \* begins with #
         sep : {"none", "slash", "mixed", "backslash"},   \* separators in its quoted path
         drive : BOOLEAN,                \* the path begins with a drive letter
         stamp : BOOLEAN,                \* a session stamp in a file name
         date : BOOLEAN,                 \* a directive with a frozen date
         ceiling : BOOLEAN,              \* _MAXPAR_RE matches it
         ascii : BOOLEAN]                \* no byte above 127

VARIABLES
    tree,      \* the panel tree of the repository
    opt,       \* $U/OPT
    plan,      \* what the current run has planned
    provision, \* the current run: pass, next file, options, $U/OPT when it began
    outcome,   \* how the latest run ended
    runs,
    cuts
vars == <<tree, opt, plan, provision, outcome, runs, cuts>>

Unsized == 0       \* no line of the panel sets MAXPAR
Absent == [lines |-> {}, maxpar |-> Unsized, whole |-> TRUE]
File(lines, maxpar) == [lines |-> lines, maxpar |-> maxpar, whole |-> TRUE]
Frozen == 5000     \* the MAXPAR literal that ADDNEQ2.INP ships with
NoNetwork == -1    \* n_stations is not given

\* ---- sanitize_panel_text

\* Separators are converted only in a path that is visibly one of Bernese's, and
\* never in one with a drive letter.
Convert(l) == IF l.sep = "mixed" /\ ~l.drive THEN [l EXCEPT !.sep = "slash"] ELSE l

Warned(l) == ~l.comment /\ (l.drive \/ l.stamp \/ l.date)
Warnings(lines) == {l \in lines : Warned(Convert(l))}

ComputeMaxpar(n) == IF PerStation * n + Margin >= Floor THEN PerStation * n + Margin ELSE Floor

Content(p) == IF Kind[p] = "script" THEN tree[p] ELSE {Convert(l) : l \in tree[p]}

\* MAXPAR is set in ADDNEQ2 only, for a network of known size, and where a line of
\* the panel has it: that set_addneq2_maxpar found none is not looked at.
HasCeiling(lines) == \E l \in lines : l.ceiling
MaxparOf(p) == IF Kind[p] # "addneq2" \/ ~HasCeiling(Content(p)) THEN Unsized
               ELSE IF provision.network = NoNetwork THEN Frozen
               ELSE ComputeMaxpar(provision.network)

Init ==
    /\ tree \in [Panels -> UNION {Versions[p] : p \in Panels}]
    /\ \A p \in Panels : tree[p] \in Versions[p]
    /\ opt = [p \in Panels |-> Absent] /\ plan = [p \in {} |-> Absent]
    /\ provision = [pass |-> 0, next |-> 1, strict |-> FALSE, network |-> NoNetwork,
                    warned |-> FALSE, was |-> opt]
    /\ outcome = "none" /\ runs = 0 /\ cuts = 0

Start(strict, n) ==
    /\ provision.pass = 0 /\ runs < MaxRuns
    /\ provision' = [pass |-> 1, next |-> 1, strict |-> strict, network |-> n,
                     warned |-> FALSE, was |-> opt]
    /\ plan' = [p \in {} |-> Absent] /\ outcome' = "none" /\ runs' = runs + 1
    /\ UNCHANGED <<tree, opt, cuts>>

Pass(k) == provision.pass = k /\ provision.next <= Len(Order)
Advanced == [provision EXCEPT !.next = @ + 1]

\* Mutation: a panel is written as soon as it is sanitized.
PlanNextWrites ==
    /\ Pass(1)
    /\ LET p == Order[provision.next] IN
       /\ plan' = [q \in DOMAIN plan \cup {p} |-> IF q = p THEN File(Content(p), MaxparOf(p)) ELSE plan[q]]
       /\ opt' = [opt EXCEPT ![p] = plan'[p]]
       /\ provision' = [Advanced EXCEPT !.warned = @ \/ (Kind[p] # "script" /\ Warnings(tree[p]) # {})]
    /\ UNCHANGED <<tree, outcome, runs, cuts>>

\* Pass 1 sanitizes the panels and gathers their warnings; of a script it only
\* notes the path.
PlanNext ==
    /\ Pass(1)
    /\ LET p == Order[provision.next] IN
       /\ plan' = [q \in DOMAIN plan \cup {p} |-> IF q = p THEN File(Content(p), MaxparOf(p)) ELSE plan[q]]
       /\ provision' = [Advanced EXCEPT !.warned = @ \/ (Kind[p] # "script" /\ Warnings(tree[p]) # {})]
    /\ UNCHANGED <<tree, opt, outcome, runs, cuts>>

Planned(strictly) ==
    /\ provision.pass = 1 /\ provision.next > Len(Order)
    /\ IF strictly THEN provision' = [provision EXCEPT !.pass = 0] /\ outcome' = "refused"
       ELSE provision' = [provision EXCEPT !.pass = 2, !.next = 1] /\ UNCHANGED outcome
    /\ UNCHANGED <<tree, opt, plan, runs, cuts>>

\* The strict check, before anything is written.
Gate == Planned(provision.strict /\ provision.warned)

\* A script is read when it is copied, a panel was read when it was planned.
Payload(p) == IF Kind[p] = "script" THEN File(Content(p), Unsized) ELSE plan[p]

\* A panel is read with errors="replace" and written as ASCII, so a byte above
\* 127 makes write_text raise, when it has already truncated the file.
Writable(p) == Kind[p] = "script" \/ \A l \in plan[p].lines : l.ascii

Commit ==
    /\ Pass(2) /\ Writable(Order[provision.next])
    /\ opt' = [opt EXCEPT ![Order[provision.next]] = Payload(Order[provision.next])]
    /\ provision' = Advanced
    /\ UNCHANGED <<tree, plan, outcome, runs, cuts>>

\* Any other write may raise too, or the program be killed in it.
CommitCut ==
    /\ Pass(2) /\ (Writable(Order[provision.next]) => cuts < MaxCuts)
    /\ cuts' = IF Writable(Order[provision.next]) THEN cuts + 1 ELSE cuts
    /\ opt' = [opt EXCEPT ![Order[provision.next]] = [Absent EXCEPT !.whole = FALSE]]
    /\ provision' = [provision EXCEPT !.pass = 0] /\ outcome' = "failed"
    /\ UNCHANGED <<tree, plan, runs>>

Finish ==
    /\ provision.pass = 2 /\ provision.next > Len(Order)
    /\ provision' = [provision EXCEPT !.pass = 0] /\ outcome' = "done"
    /\ UNCHANGED <<tree, opt, plan, runs, cuts>>

\* Someone edits the tree, while a run is in progress or not.
Edit ==
    /\ \E p \in Panels : \E v \in Versions[p] \ {tree[p]} : tree' = [tree EXCEPT ![p] = v]
    /\ UNCHANGED <<opt, plan, provision, outcome, runs, cuts>>

Next ==
    \/ \E strict \in BOOLEAN, n \in Networks \cup {NoNetwork} : Start(strict, n)
    \/ PlanNext
    \/ Gate
    \/ Commit
    \/ CommitCut
    \/ Finish
    \/ Edit

Spec == Init /\ [][Next]_vars

-----------------------------------------------------------------------------
\* ---- properties

\* A strict run that refuses leaves $U/OPT as it found it.
RefusalTouchesNothing == outcome = "refused" => opt = provision.was

\* After a strict run every panel in $U/OPT is clean: no foreign path, frozen
\* session or date outside comments, and no separator that could be converted,
\* even if the tree was edited meanwhile.  Scripts are copied byte by byte.
ShippedIsClean ==
    outcome = "done" =>
    \A p \in Panels :
        IF Kind[p] = "script" THEN opt[p].lines \in Versions[p]
        ELSE /\ \A l \in opt[p].lines : Convert(l) = l
             /\ provision.strict => Warnings(opt[p].lines) = {}

\* As long as no write is cut, a run either writes every file or none
\* (provision_opt_dir: "a dirty panel late in the tree never leaves $U
\* half-updated"): violated by a panel with a byte above 127.
NeverHalfUpdated == cuts = 0 => outcome # "failed"

\* The parameter ceiling that a run ships covers the network it was given, in every
\* panel that sets one, whatever was edited since the panel was read and whatever an
\* earlier run for another network has left there.
CeilingCovers ==
    outcome = "done" /\ provision.network # NoNetwork =>
    \A p \in Panels : Kind[p] = "addneq2" /\ HasCeiling(opt[p].lines) =>
        opt[p].maxpar >= Floor /\ opt[p].maxpar >= PerStation * provision.network + Margin

\* The same of every ADDNEQ2 panel (provision_opt_dir: "ADDNEQ2.INP also gets MAXPAR
\* sized from n_stations when given"): violated by a panel without a MAXPAR line.
CeilingAlwaysSet ==
    outcome = "done" /\ provision.network # NoNetwork =>
    \A p \in Panels : Kind[p] = "addneq2" => opt[p].maxpar >= PerStation * provision.network + Margin

\* $U/OPT holds what it held or a clean tree that fits its network.
PanelInvariant == RefusalTouchesNothing /\ ShippedIsClean /\ CeilingCovers
=============================================================================
