---------------------------- MODULE DeskProofs -----------------------------
(***************************************************************************)
(* Proofs about the desk tools, each as a part of DeskSpec.                *)
(* Velocity reviewer: what the pipeline made is never lost, an export that *)
(* ended has stripped exactly what was selected, OUTLIERS.txt agrees.      *)
(* Panel provisioning: a station is shipped clean panels or none.          *)
(* Scan jobs: a running scan is found again, a complete one has ended.     *)
(* Recycle bin recovery: every paired file is copied whole or reported,    *)
(* nothing else is written, and a second run copies nothing.               *)
(***************************************************************************)
EXTENDS DeskTools, FiniteSetTheorems, SequenceTheorems, TLAPS

USE EpochsAssumption, StepAssumption, MaxKillsAssumption

\* Ticks only grow with the horizon.
LEMMA TicksAreMonotone ==
  ASSUME NEW A, NEW B, A \subseteq B
  PROVE  Ticks(A) \subseteq Ticks(B)
  BY DEF Ticks

\* The site whose turn it is comes from those that are left.
LEMMA TurnTakesOne ==
  ASSUME TypeOK
  PROVE  /\ export.left = {} => Turn = [export EXCEPT !.at = "done"]
         /\ export.left # {} => \E s \in export.left :
              Turn = [export EXCEPT !.at = "backup", !.site = s, !.left = @ \ {s}]
<1>1. CASE export.left = {}
  BY <1>1 DEF Turn
<1>2. CASE export.left # {}
  <2>1. (CHOOSE s \in export.left : TRUE) \in export.left
    BY <1>2
  <2> QED
    BY <1>2, <2>1 DEF Turn
<1> QED
  BY <1>1, <1>2

\* The export record after a turn has the type of an export record.
LEMMA TurnIsTyped ==
  ASSUME TypeOK
  PROVE  Turn \in [at : {"idle", "list", "backup", "strip", "done"}, left : SUBSET Sites,
                   site : Sites, wanted : [Sites -> SUBSET Epochs]]
<1>1. CASE export.left = {}
  BY <1>1, TurnTakesOne DEF TypeOK
<1>2. CASE export.left # {}
  <2>1. PICK s \in export.left : Turn = [export EXCEPT !.at = "backup", !.site = s, !.left = @ \ {s}]
    BY <1>2, TurnTakesOne
  <2>2. s \in Sites
    BY <2>1 DEF TypeOK
  <2> QED
    BY <2>1, <2>2 DEF TypeOK
<1> QED
  BY <1>1, <1>2

\* A stripped PLOT file holds epochs only.
LEMMA StrippedIsTyped ==
  ASSUME TypeOK, NEW s \in Sites
  PROVE  Stripped(s) \in SUBSET Epochs
  BY DEF TypeOK, Stripped

\* A line of OUTLIERS.txt is a site and a rounded epoch.
LEMMA LinesAreTyped == Lines \subseteq Sites \X Ticks(Epochs)
  BY DEF Lines

\* The types hold at the start.
LEMMA TypeInvariantInit == Init => TypeOK
<1> SUFFICES ASSUME Init PROVE TypeOK
  OBVIOUS
<1>1. /\ plot \in [Sites -> SUBSET Epochs] /\ original \in [Sites -> SUBSET Epochs]
      /\ bak \in [Sites -> SUBSET Epochs] /\ selections \in [Sites -> SUBSET Epochs]
  BY DEF Init, NoSelections
<1>2. PICK s \in Sites : /\ page = Loaded(s)
                         /\ export = [at |-> "idle", left |-> {}, site |-> s, wanted |-> NoSelections]
  BY DEF Init
<1>3. page \in [site : Sites, shown : SUBSET Epochs, kept : SUBSET Epochs]
  BY <1>1, <1>2 DEF Loaded
<1>4. export \in [at : {"idle", "list", "backup", "strip", "done"}, left : SUBSET Sites,
                  site : Sites, wanted : [Sites -> SUBSET Epochs]]
  BY <1>2 DEF NoSelections
<1>5. backed \subseteq Sites /\ spoiled \subseteq Sites /\ kills \in 0..MaxKills
      /\ listed \subseteq Sites \X Ticks(Epochs)
  BY DEF Init
<1> QED
  BY <1>1, <1>3, <1>4, <1>5 DEF TypeOK

\* Every step keeps the types.
LEMMA TypeInvariantStep == TypeOK /\ [Next]_vars => TypeOK'
<1> SUFFICES ASSUME TypeOK, [Next]_vars
             PROVE  TypeOK'
  OBVIOUS
<1>1. ASSUME NEW s \in Sites, LoadSite(s) PROVE TypeOK'
  <2>1. Loaded(s) \in [site : Sites, shown : SUBSET Epochs, kept : SUBSET Epochs]
    BY DEF TypeOK, Loaded
  <2> QED
    BY <1>1, <2>1 DEF LoadSite, TypeOK, Files
<1>2. CASE Post
  <2>1. PICK ts \in SUBSET page.shown, kept \in {{}, page.kept} :
               selections' = [selections EXCEPT ![page.site] = ts \cup kept]
    BY <1>2 DEF Post
  <2>2. ts \cup kept \in SUBSET Epochs
    BY DEF TypeOK
  <2>3. selections' \in [Sites -> SUBSET Epochs]
    BY <2>1, <2>2 DEF TypeOK
  <2> QED
    BY <1>2, <2>3 DEF Post, TypeOK, Files
<1>3. CASE BeginExport
  BY <1>3 DEF BeginExport, TypeOK, Files
<1>4. CASE WriteList
  BY <1>4, TurnIsTyped, LinesAreTyped DEF WriteList, TypeOK
<1>5. CASE WriteBackup
  BY <1>5 DEF WriteBackup, Backup, TypeOK
<1>6. CASE WritePlot
  <2>1. Stripped(export.site) \in SUBSET Epochs
    BY StrippedIsTyped DEF TypeOK
  <2> QED
    BY <1>6, <2>1, TurnIsTyped DEF WritePlot, TypeOK
<1>7. ASSUME Restarted
      PROVE  /\ selections' \in [Sites -> SUBSET Epochs] /\ kills' \in 0..MaxKills
             /\ export' \in [at : {"idle", "list", "backup", "strip", "done"}, left : SUBSET Sites,
                             site : Sites, wanted : [Sites -> SUBSET Epochs]]
             /\ page' \in [site : Sites, shown : SUBSET Epochs, kept : SUBSET Epochs]
             /\ original' \in [Sites -> SUBSET Epochs]
  <2>1. kills' \in 0..MaxKills
    BY <1>7 DEF Restarted, TypeOK
  <2>2. selections' \in [Sites -> SUBSET Epochs]
    BY <1>7 DEF Restarted, NoSelections
  <2>3. export' = [export EXCEPT !.at = "idle", !.left = {}] /\ page' = page /\ original' = original
    BY <1>7 DEF Restarted
  <2> QED
    BY <2>1, <2>2, <2>3 DEF TypeOK
<1>8. CASE Stop
  BY <1>7, <1>8 DEF Stop, TypeOK
<1>9. CASE KillInList
  <2>1. listed' \subseteq Sites \X Ticks(Epochs)
    BY <1>9, LinesAreTyped DEF KillInList
  <2> QED
    BY <1>7, <1>9, <2>1 DEF KillInList, TypeOK
<1>10. CASE KillInBackup
  <2>1. PICK part \in SUBSET plot[export.site] : bak' = [bak EXCEPT ![export.site] = part]
    BY <1>10 DEF KillInBackup
  <2>2. part \in SUBSET Epochs /\ export.site \in Sites
    BY DEF TypeOK
  <2>3. bak' \in [Sites -> SUBSET Epochs]
    BY <2>1, <2>2 DEF TypeOK
  <2>4. backed' \subseteq Sites /\ spoiled' \subseteq Sites
    BY <1>10, <2>2 DEF KillInBackup, TypeOK
  <2> QED
    BY <1>7, <1>10, <2>3, <2>4 DEF KillInBackup, TypeOK
<1>11. CASE KillInPlot
  <2>1. PICK part \in SUBSET Stripped(export.site) : plot' = [plot EXCEPT ![export.site] = part]
    BY <1>11 DEF KillInPlot
  <2>2. part \in SUBSET Epochs
    BY StrippedIsTyped DEF TypeOK
  <2>3. plot' \in [Sites -> SUBSET Epochs]
    BY <2>1, <2>2 DEF TypeOK
  <2> QED
    BY <1>7, <1>11, <2>3 DEF KillInPlot, TypeOK
<1>12. ASSUME NEW s \in Sites, Produce(s) PROVE TypeOK'
  BY <1>12 DEF Produce, TypeOK
<1>13. CASE UNCHANGED vars
  BY <1>13 DEF vars, TypeOK
<1> QED
  BY <1>1, <1>2, <1>3, <1>4, <1>5, <1>6, <1>8, <1>9, <1>10, <1>11, <1>12, <1>13 DEF Next

\* Every variable keeps its type, whatever is selected, exported, killed or produced.
THEOREM TypeInvariant == Spec => []TypeOK
  BY TypeInvariantInit, TypeInvariantStep, PTL DEF Spec

\* A PLOT file is stripped only when it has a backup; no export handles it twice.
StripsBackedUp == export.at = "strip" => export.site \in backed
FilesInv == TypeOK /\ NothingLost /\ StripsBackedUp

\* Nothing is lost, since what a PLOT file misses is in its backup.
LEMMA FilesInvariant == Spec => []FilesInv
<1>1. Init => FilesInv
  <2> SUFFICES ASSUME Init PROVE NothingLost /\ StripsBackedUp
    BY TypeInvariantInit DEF FilesInv
  <2> QED
    BY DEF Init, NothingLost, StripsBackedUp
<1>2. FilesInv /\ [Next]_vars => FilesInv'
  <2> SUFFICES ASSUME FilesInv, [Next]_vars
               PROVE  NothingLost' /\ StripsBackedUp'
    BY TypeInvariantStep DEF FilesInv
  <2> USE DEF FilesInv
  <2>1. ASSUME NEW s \in Sites, LoadSite(s) PROVE NothingLost' /\ StripsBackedUp'
    BY <2>1 DEF LoadSite, Files, NothingLost, StripsBackedUp
  <2>2. CASE Post
    BY <2>2 DEF Post, Files, NothingLost, StripsBackedUp, TypeOK
  <2>3. CASE BeginExport
    BY <2>3 DEF BeginExport, Files, NothingLost, StripsBackedUp, TypeOK
  <2>4. CASE WriteList
    <3>1. Turn.at # "strip"
      BY TurnTakesOne DEF TypeOK
    <3> QED
      BY <2>4, <3>1 DEF WriteList, NothingLost, StripsBackedUp
  <2>5. CASE WriteBackup
    BY <2>5 DEF WriteBackup, Backup, NothingLost, StripsBackedUp, TypeOK
  <2>6. CASE WritePlot
    <3>1. Turn.at # "strip"
      BY TurnTakesOne DEF TypeOK
    <3>2. \A s \in Sites \ backed : plot'[s] = plot[s]
      BY <2>6 DEF WritePlot, StripsBackedUp, TypeOK
    <3> QED
      BY <2>6, <3>1, <3>2 DEF WritePlot, NothingLost, StripsBackedUp
  <2>7. CASE Stop
    BY <2>7 DEF Stop, Restarted, NothingLost, StripsBackedUp, TypeOK
  <2>8. CASE KillInList
    BY <2>8 DEF KillInList, Restarted, NothingLost, StripsBackedUp, TypeOK
  <2>9. CASE KillInBackup
    <3>1. \A s \in Sites \ {export.site} : bak'[s] = bak[s]
      BY <2>9 DEF KillInBackup, TypeOK
    <3> QED
      BY <2>9, <3>1 DEF KillInBackup, Restarted, NothingLost, StripsBackedUp, TypeOK
  <2>10. CASE KillInPlot
    <3>1. \A s \in Sites \ backed : plot'[s] = plot[s]
      BY <2>10 DEF KillInPlot, StripsBackedUp, TypeOK
    <3> QED
      BY <2>10, <3>1 DEF KillInPlot, Restarted, NothingLost, StripsBackedUp, TypeOK
  <2>11. ASSUME NEW s \in Sites, Produce(s) PROVE NothingLost' /\ StripsBackedUp'
    BY <2>11 DEF Produce, NothingLost, StripsBackedUp, TypeOK
  <2>12. CASE UNCHANGED vars
    BY <2>12 DEF vars, NothingLost, StripsBackedUp
  <2> QED
    BY <2>1, <2>2, <2>3, <2>4, <2>5, <2>6, <2>7, <2>8, <2>9, <2>10, <2>11, <2>12 DEF Next
<1> QED
  BY <1>1, <1>2, PTL DEF Spec

\* Whatever is selected, exported, killed and produced in whatever order, what the
\* pipeline made is still there, in the PLOT file or in its backup.
THEOREM OriginalsSurvive == Spec => []NothingLost
<1>1. FilesInv => NothingLost
  BY DEF FilesInv
<1> QED
  BY <1>1, FilesInvariant, PTL

\* The sites an export has dealt with, and what it has made of them.
Handled(s) == s \notin export.left /\ (export.at \in {"backup", "strip"} => s # export.site)
KeptOf(s) == {t \in original[s] : Rounded(t) \notin Ticks(export.wanted[s])}
ExactSoFar ==
    /\ export.at = "list" => export.left = {s \in Sites : export.wanted[s] # {}}
    /\ export.at \in {"backup", "strip", "done"} =>
        \A s \in Sites \ spoiled : export.wanted[s] # {} /\ Handled(s) =>
            s \in backed /\ plot[s] = KeptOf(s)
    /\ export.at = "done" => export.left = {}

\* The turn of the next site: what was handled stays handled, nothing else is.
LEMMA TurnHandlesOne ==
  ASSUME TypeOK, export' = Turn, NEW s \in Sites, export.at = "strip"
  PROVE  Handled(s)' <=> Handled(s) \/ (s = export.site /\ s \notin export.left)
<1>1. CASE export.left = {}
  BY <1>1, TurnTakesOne DEF Handled, TypeOK
<1>2. CASE export.left # {}
  <2>1. PICK t \in export.left : Turn = [export EXCEPT !.at = "backup", !.site = t, !.left = @ \ {t}]
    BY <1>2, TurnTakesOne
  <2> QED
    BY <2>1 DEF Handled, TypeOK
<1> QED
  BY <1>1, <1>2

\* What an export in progress has handled stays exact over every step.
LEMMA ExportInvariantStep == FilesInv /\ ExactSoFar /\ [Next]_vars => ExactSoFar'
<1> SUFFICES ASSUME FilesInv, ExactSoFar, [Next]_vars
             PROVE  ExactSoFar'
  OBVIOUS
<1>1. ASSUME NEW s \in Sites, LoadSite(s) PROVE ExactSoFar'
  BY <1>1 DEF LoadSite, Files, ExactSoFar, Handled, KeptOf
<1>2. CASE Post
  BY <1>2 DEF Post, ExactSoFar, FilesInv, TypeOK
<1>3. CASE BeginExport
  BY <1>3 DEF BeginExport, ExactSoFar, FilesInv, TypeOK
<1>4. CASE WriteList
  <2>1. CASE export.left = {}
    BY <1>4, <2>1, TurnTakesOne DEF WriteList, ExactSoFar, Handled, FilesInv, TypeOK
  <2>2. CASE export.left # {}
    <3>1. PICK t \in export.left : Turn = [export EXCEPT !.at = "backup", !.site = t, !.left = @ \ {t}]
      BY <2>2, TurnTakesOne DEF FilesInv
    <3> QED
      BY <1>4, <3>1 DEF WriteList, ExactSoFar, Handled, FilesInv, TypeOK
  <2> QED
    BY <2>1, <2>2
<1>5. CASE WriteBackup
  <2>1. /\ export'.at = "strip" /\ export'.left = export.left /\ export'.site = export.site
        /\ export'.wanted = export.wanted /\ backed \subseteq backed' /\ export.at = "backup"
    BY <1>5 DEF WriteBackup, Backup, FilesInv, TypeOK
  <2> QED
    BY <1>5, <2>1 DEF WriteBackup, ExactSoFar, Handled, KeptOf
<1>6. CASE WritePlot
  <2>1. /\ export.at = "strip" /\ export' = Turn /\ export.site \in backed /\ export.site \in Sites
        /\ UNCHANGED <<original, backed, spoiled>>
    BY <1>6 DEF WritePlot, FilesInv, StripsBackedUp, TypeOK
  <2>2. export'.wanted = export.wanted /\ export'.at # "list" /\ (export'.at = "done" => export'.left = {})
    BY <2>1, TurnTakesOne DEF FilesInv, TypeOK
  <2>3. \A s \in Sites : KeptOf(s)' = KeptOf(s)
    BY <2>1, <2>2 DEF KeptOf
  <2>4. export.site \notin spoiled => plot'[export.site] = KeptOf(export.site)
    BY <1>6, <2>1 DEF WritePlot, Stripped, KeptOf, FilesInv, NothingLost, TypeOK
  <2>5. \A s \in Sites \ {export.site} : plot'[s] = plot[s]
    BY <1>6 DEF WritePlot, FilesInv, TypeOK
  <2>6. ASSUME NEW s \in Sites \ spoiled, export.wanted[s] # {}, Handled(s)'
        PROVE  s \in backed /\ plot'[s] = KeptOf(s)
    <3>1. Handled(s) \/ s = export.site
      BY <2>1, <2>6, TurnHandlesOne DEF FilesInv
    <3>2. CASE s = export.site
      BY <2>1, <2>4, <3>2
    <3>3. CASE s # export.site
      BY <2>1, <2>5, <2>6, <3>1, <3>3 DEF ExactSoFar
    <3> QED
      BY <3>2, <3>3
  <2> QED
    BY <2>1, <2>2, <2>3, <2>6 DEF ExactSoFar
<1>7. CASE Restarted
  BY <1>7 DEF Restarted, ExactSoFar, FilesInv, TypeOK
<1>8. ASSUME NEW s \in Sites, Produce(s) PROVE ExactSoFar'
  BY <1>8 DEF Produce, ExactSoFar, FilesInv, TypeOK
<1>9. CASE UNCHANGED vars
  BY <1>9 DEF vars, ExactSoFar, Handled, KeptOf
<1> QED
  BY <1>1, <1>2, <1>3, <1>4, <1>5, <1>6, <1>7, <1>8, <1>9
  DEF Next, Stop, KillInList, KillInBackup, KillInPlot

\* An export that ended has left in every PLOT file exactly the epochs that were not
\* selected, whatever earlier exports stripped and whatever restarts came before.
THEOREM ExportStaysExact == Spec => []ExportIsExact
<1>1. Init => ExactSoFar
  BY DEF Init, ExactSoFar
<1>2. FilesInv /\ ExactSoFar => ExportIsExact
  BY DEF FilesInv, ExactSoFar, ExportIsExact, Handled, KeptOf
<1> QED
  BY <1>1, <1>2, ExportInvariantStep, FilesInvariant, PTL DEF Spec

-----------------------------------------------------------------------------

\* OUTLIERS.txt, once the export has written it, holds the ticks of what the export
\* set out with; until then the operator cannot change the selections.
ListIsCurrent ==
    /\ export.at = "list" => export.wanted = selections
    /\ export.at \in {"backup", "strip", "done"} =>
         listed = {l \in Sites \X Ticks(Epochs) : l[2] \in Ticks(export.wanted[l[1]])}

\* A turn changes neither what is wanted nor goes back to the list.
LEMMA TurnKeepsWanted ==
  ASSUME TypeOK
  PROVE  Turn.wanted = export.wanted /\ Turn.at \in {"backup", "done"}
<1>1. CASE export.left = {}
  BY <1>1, TurnTakesOne DEF TypeOK
<1>2. CASE export.left # {}
  <2>1. PICK t \in export.left : Turn = [export EXCEPT !.at = "backup", !.site = t, !.left = @ \ {t}]
    BY <1>2, TurnTakesOne
  <2> QED
    BY <2>1 DEF TypeOK
<1> QED
  BY <1>1, <1>2

\* OUTLIERS.txt stays that of the export under way.
LEMMA ListStep == TypeOK /\ ListIsCurrent /\ [Next]_vars => ListIsCurrent'
<1> SUFFICES ASSUME TypeOK, ListIsCurrent, [Next]_vars
             PROVE  ListIsCurrent'
  OBVIOUS
<1>1. CASE \E s \in Sites : LoadSite(s)
  BY <1>1 DEF LoadSite, Files, ListIsCurrent
<1>2. CASE Post \/ Restarted \/ \E s \in Sites : Produce(s)
  <2>1. export'.at = "idle"
    BY <1>2 DEF Post, Restarted, Produce, TypeOK
  <2> QED
    BY <2>1 DEF ListIsCurrent
<1>3. CASE BeginExport
  <2>1. export'.at = "list" /\ export'.wanted = selections /\ selections' = selections
    BY <1>3 DEF BeginExport, TypeOK
  <2> QED
    BY <2>1 DEF ListIsCurrent
<1>4. CASE WriteList
  <2>1. export'.wanted = selections /\ export'.at # "list" /\ listed' = Lines
    BY <1>4, TurnKeepsWanted DEF WriteList, ListIsCurrent
  <2> QED
    BY <2>1 DEF ListIsCurrent, Lines
<1>5. CASE WriteBackup
  <2>1. export.at = "backup" /\ export'.at = "strip" /\ export'.wanted = export.wanted
        /\ UNCHANGED listed
    BY <1>5 DEF WriteBackup, TypeOK
  <2> QED
    BY <2>1 DEF ListIsCurrent
<1>6. CASE WritePlot
  <2>1. export.at = "strip" /\ export'.at # "list" /\ export'.wanted = export.wanted
        /\ UNCHANGED listed
    BY <1>6, TurnKeepsWanted DEF WritePlot
  <2> QED
    BY <2>1 DEF ListIsCurrent
<1>7. CASE UNCHANGED vars
  BY <1>7 DEF vars, ListIsCurrent
<1> QED
  BY <1>1, <1>2, <1>3, <1>4, <1>5, <1>6, <1>7
  DEF Next, Stop, KillInList, KillInBackup, KillInPlot

\* The ticks of what is wanted are those of the epochs that stripping takes out,
\* and those that no epoch has.
LEMMA StrippedTicks ==
  ASSUME NEW made, NEW wanted
  PROVE  Ticks(wanted) = {Rounded(t) : t \in made \ {u \in made : Rounded(u) \notin Ticks(wanted)}}
                         \cup (Ticks(wanted) \ Ticks(made))
  BY DEF Ticks

\* When an export has ended, OUTLIERS.txt and the PLOT files agree on what is an
\* outlier, but for sites whose selection was cleared or forgotten since.
THEOREM ListStaysInAgreement == Spec => []ListAgrees
<1>1. Init => ExactSoFar /\ ListIsCurrent
  BY DEF Init, ExactSoFar, ListIsCurrent
<1>2. FilesInv /\ ExactSoFar /\ ListIsCurrent => ListAgrees
  <2> SUFFICES ASSUME FilesInv, ExactSoFar, ListIsCurrent, export.at = "done",
                      NEW s \in Sites \ spoiled, export.wanted[s] # {} \/ s \notin backed
               PROVE  {r \in Ticks(Epochs) : <<s, r>> \in listed} =
                        {Rounded(t) : t \in original[s] \ plot[s]}
                        \cup (Ticks(export.wanted[s]) \ Ticks(original[s]))
    BY DEF ListAgrees
  <2>1. TypeOK /\ NothingLost
    BY DEF FilesInv
  <2>2. Ticks(export.wanted[s]) \subseteq Ticks(Epochs)
    BY <2>1, TicksAreMonotone DEF TypeOK
  <2>3. {r \in Ticks(Epochs) : <<s, r>> \in listed} = Ticks(export.wanted[s])
    BY <2>2 DEF ListIsCurrent
  <2>4. CASE export.wanted[s] # {}
    <3>1. plot[s] = {t \in original[s] : Rounded(t) \notin Ticks(export.wanted[s])}
      BY <2>4 DEF ExactSoFar, Handled, KeptOf
    <3> QED
      BY <2>3, <3>1, StrippedTicks
  <2>5. CASE export.wanted[s] = {} /\ s \notin backed
    <3>1. plot[s] = original[s]
      BY <2>1, <2>5 DEF NothingLost
    <3> QED
      BY <2>3, <2>5, <3>1 DEF Ticks
  <2> QED
    BY <2>4, <2>5
<1>3. FilesInv /\ [Next]_vars /\ ListIsCurrent => ListIsCurrent'
  BY ListStep DEF FilesInv
<1> QED
  BY <1>1, <1>2, <1>3, ExportInvariantStep, FilesInvariant, PTL DEF Spec

-----------------------------------------------------------------------------
\* ---- the provisioning of Bernese panels

PanelFile == [lines : SUBSET Panel!Line, maxpar : Int, whole : BOOLEAN]

PanelTypes ==
    /\ tree \in [Panels -> SUBSET Panel!Line] /\ \A p \in Panels : tree[p] \in Versions[p]
    /\ opt \in [Panels -> PanelFile]
    /\ DOMAIN plan \subseteq Panels /\ \A p \in DOMAIN plan : plan[p] \in PanelFile
    /\ provision \in [pass : {0, 1, 2}, next : Nat \ {0}, strict : BOOLEAN,
                      network : Networks \cup {Panel!NoNetwork}, warned : BOOLEAN,
                      was : [Panels -> PanelFile]]
    /\ outcome \in {"none", "refused", "failed", "done"}
    /\ outcome # "none" => provision.pass = 0

\* What MAXPAR should be in this run, in a file that has the line.
Fits(p, f) ==
    provision.network # Panel!NoNetwork /\ Kind[p] = "addneq2" /\ Panel!HasCeiling(f.lines) =>
        f.maxpar >= Floor /\ f.maxpar >= PerStation * provision.network + Margin

\* What has been planned is sanitized, sized for the network, and free of warnings
\* unless the run has noted one.
PlanIsClean ==
    provision.pass # 0 => \A p \in DOMAIN plan :
        /\ Kind[p] # "script" =>
             /\ \A l \in plan[p].lines : Panel!Convert(l) = l
             /\ provision.warned \/ Panel!Warnings(plan[p].lines) = {}
        /\ Fits(p, plan[p])

\* The first pass has planned the files it has visited, the second has all plans.
PlanIsCurrent ==
    /\ provision.pass = 1 => \A i \in DOMAIN Order : i < provision.next => Order[i] \in DOMAIN plan
    /\ provision.pass = 2 => DOMAIN plan = Panels /\ (provision.strict => ~provision.warned)

\* A file of $U/OPT is as this run ships it.
Shipped(p) ==
    IF Kind[p] = "script" THEN opt[p].lines \in Versions[p]
    ELSE /\ \A l \in opt[p].lines : Panel!Convert(l) = l
         /\ provision.strict => Panel!Warnings(opt[p].lines) = {}
         /\ Fits(p, opt[p])

\* The first pass writes nothing, the second has shipped the files it has visited.
ShippedSoFar ==
    /\ provision.pass = 1 \/ outcome = "refused" => opt = provision.was
    /\ provision.pass = 2 => \A i \in DOMAIN Order : i < provision.next => Shipped(Order[i])
    /\ outcome = "done" => \A p \in Panels : Shipped(p)

PanelInv == PanelTypes /\ PlanIsClean /\ PlanIsCurrent /\ ShippedSoFar

\* Converting a separator is done once for all, and leaves a line.
LEMMA ConvertOnce ==
  ASSUME NEW l \in Panel!Line
  PROVE  /\ Panel!Convert(l) \in Panel!Line
         /\ Panel!Convert(Panel!Convert(l)) = Panel!Convert(l)
<1>1. CASE l.sep = "mixed" /\ ~l.drive
  <2>1. Panel!Convert(l) = [l EXCEPT !.sep = "slash"]
    BY <1>1 DEF Panel!Convert
  <2>2. [l EXCEPT !.sep = "slash"] \in Panel!Line /\ [l EXCEPT !.sep = "slash"].sep = "slash"
    BY DEF Panel!Line
  <2> QED
    BY <2>1, <2>2 DEF Panel!Convert
<1>2. CASE ~(l.sep = "mixed" /\ ~l.drive)
  BY <1>2 DEF Panel!Convert
<1> QED
  BY <1>1, <1>2

\* A sanitized panel has nothing left to convert, and the warnings of its source.
LEMMA ContentIsClean ==
  ASSUME PanelTypes, NEW p \in Panels
  PROVE  /\ Panel!Content(p) \in SUBSET Panel!Line
         /\ Kind[p] # "script" =>
              /\ \A l \in Panel!Content(p) : Panel!Convert(l) = l
              /\ Panel!Warnings(tree[p]) = {} => Panel!Warnings(Panel!Content(p)) = {}
<1>1. tree[p] \in SUBSET Panel!Line
  BY DEF PanelTypes
<1>2. CASE Kind[p] = "script"
  BY <1>1, <1>2 DEF Panel!Content
<1>3. CASE Kind[p] # "script"
  <2>1. Panel!Content(p) = {Panel!Convert(l) : l \in tree[p]}
    BY <1>3 DEF Panel!Content
  <2>2. Panel!Content(p) \in SUBSET Panel!Line /\ \A l \in Panel!Content(p) : Panel!Convert(l) = l
    BY <1>1, <2>1, ConvertOnce
  <2>3. ASSUME NEW l \in Panel!Warnings(Panel!Content(p))
        PROVE  Panel!Warnings(tree[p]) # {}
    <3>1. l \in Panel!Content(p) /\ Panel!Warned(Panel!Convert(l))
      BY DEF Panel!Warnings
    <3>2. PICK m \in tree[p] : l = Panel!Convert(m)
      BY <2>1, <3>1
    <3>3. Panel!Convert(l) = Panel!Convert(m)
      BY <1>1, <3>2, ConvertOnce
    <3> QED
      BY <3>1, <3>3 DEF Panel!Warnings
  <2> QED
    BY <2>2, <2>3
<1> QED
  BY <1>2, <1>3

\* The ceiling that pass 1 computes is an integer that fits the network.
LEMMA MaxparFits ==
  ASSUME PanelTypes, NEW p \in Panels,
         NEW f, f.lines = Panel!Content(p), f.maxpar = Panel!MaxparOf(p)
  PROVE  Panel!MaxparOf(p) \in Int /\ Fits(p, f)
<1>1. CASE Kind[p] # "addneq2" \/ ~Panel!HasCeiling(Panel!Content(p))
  BY <1>1 DEF Panel!MaxparOf, Fits, Panel!Unsized
<1>2. CASE provision.network = Panel!NoNetwork
  BY <1>2 DEF Panel!MaxparOf, Fits, Panel!Frozen, Panel!Unsized
<1>3. CASE Kind[p] = "addneq2" /\ Panel!HasCeiling(Panel!Content(p)) /\ provision.network # Panel!NoNetwork
  <2>1. provision.network \in Nat
    BY <1>3, SizingAssumption DEF PanelTypes
  <2>2. PerStation * provision.network \in Int
    BY <2>1, SizingAssumption
  <2>3. Panel!MaxparOf(p) = Panel!ComputeMaxpar(provision.network)
    BY <1>3 DEF Panel!MaxparOf
  <2> QED
    BY <2>2, <2>3, SizingAssumption DEF Panel!ComputeMaxpar, Fits
<1> QED
  BY <1>1, <1>2, <1>3

\* The file whose turn it is, is one of the tree.
LEMMA NextFile ==
  ASSUME PanelTypes, NEW k \in {1, 2}, Panel!Pass(k)
  PROVE  provision.next \in DOMAIN Order /\ Order[provision.next] \in Panels
  BY TreeAssumption DEF PanelTypes, Panel!Pass

\* What a file of the second pass is written with has the type of a file.
LEMMA PayloadIsFile ==
  ASSUME PanelTypes, PanelInv, NEW p \in Panels, provision.pass = 2
  PROVE  Panel!Payload(p) \in PanelFile
<1>1. CASE Kind[p] = "script"
  BY <1>1, ContentIsClean DEF Panel!Payload, Panel!File, Panel!Unsized, PanelFile
<1>2. CASE Kind[p] # "script"
  <2>1. p \in DOMAIN plan
    BY DEF PanelInv, PlanIsCurrent
  <2> QED
    BY <1>2, <2>1 DEF Panel!Payload, PanelTypes
<1> QED
  BY <1>1, <1>2

\* Before the first provisioning nothing is planned.
LEMMA PanelInitially == Panel!Init => PanelInv
<1> SUFFICES ASSUME Panel!Init
             PROVE  PanelInv
  OBVIOUS
<1>1. tree \in [Panels -> SUBSET Panel!Line]
  <2>1. \A p \in Panels : tree[p] \in SUBSET Panel!Line
    BY TreeAssumption DEF Panel!Init
  <2>2. tree = [p \in Panels |-> tree[p]]
    BY DEF Panel!Init
  <2> QED
    BY <2>1, <2>2
<1>2. Panel!Absent \in PanelFile
  BY DEF Panel!Absent, Panel!Unsized, PanelFile
<1>3. opt \in [Panels -> PanelFile]
  BY <1>2 DEF Panel!Init
<1>4. PanelTypes
  BY <1>1, <1>3 DEF PanelTypes, Panel!Init
<1> QED
  BY <1>4 DEF PanelInv, PlanIsClean, PlanIsCurrent, ShippedSoFar, Panel!Init

\* Planning a file leaves a plan that is clean and current.
LEMMA PlanNextKeepsPanelInv ==
  ASSUME PanelInv, Panel!PlanNext
  PROVE  PanelInv'
<1> DEFINE p == Order[provision.next]
<1> DEFINE planned == Panel!File(Panel!Content(p), Panel!MaxparOf(p))
<1>1. PanelTypes /\ PlanIsClean /\ PlanIsCurrent /\ ShippedSoFar
  BY DEF PanelInv
<1>2. provision.pass = 1 /\ provision.next \in DOMAIN Order /\ p \in Panels
  BY <1>1, NextFile DEF Panel!PlanNext, Panel!Pass
<1>3. /\ plan' = [q \in DOMAIN plan \cup {p} |-> IF q = p THEN planned ELSE plan[q]]
      /\ provision' = [Panel!Advanced EXCEPT !.warned =
                         @ \/ (Kind[p] # "script" /\ Panel!Warnings(tree[p]) # {})]
      /\ UNCHANGED <<tree, opt, outcome, runs, cuts>>
  BY DEF Panel!PlanNext
<1>4. /\ provision'.pass = 1 /\ provision'.next = provision.next + 1
      /\ provision'.strict = provision.strict /\ provision'.network = provision.network
      /\ provision'.was = provision.was
      /\ provision'.warned = (provision.warned \/ (Kind[p] # "script" /\ Panel!Warnings(tree[p]) # {}))
  BY <1>1, <1>2, <1>3 DEF PanelTypes, Panel!Advanced
<1>5. planned \in PanelFile /\ planned.lines = Panel!Content(p) /\ planned.maxpar = Panel!MaxparOf(p)
      /\ Fits(p, planned)
  <2>1. planned.lines = Panel!Content(p) /\ planned.maxpar = Panel!MaxparOf(p)
    BY DEF Panel!File
  <2>2. Panel!MaxparOf(p) \in Int /\ Fits(p, planned)
    BY <1>1, <1>2, <2>1, MaxparFits
  <2> QED
    BY <1>1, <1>2, <2>1, <2>2, ContentIsClean DEF Panel!File, PanelFile
<1>6. PanelTypes'
  <2>1. DOMAIN plan' \subseteq Panels /\ \A q \in DOMAIN plan' : plan'[q] \in PanelFile
    BY <1>1, <1>2, <1>3, <1>5 DEF PanelTypes
  <2>2. provision' \in [pass : {0, 1, 2}, next : Nat \ {0}, strict : BOOLEAN,
                        network : Networks \cup {Panel!NoNetwork}, warned : BOOLEAN,
                        was : [Panels -> PanelFile]]
    <3> DEFINE w == provision.warned \/ (Kind[p] # "script" /\ Panel!Warnings(tree[p]) # {})
    <3>1. w \in BOOLEAN
      OBVIOUS
    <3>2. Panel!Advanced.warned = provision.warned
      BY <1>1 DEF PanelTypes, Panel!Advanced
    <3>3. provision' = [Panel!Advanced EXCEPT !.warned = w]
      BY <1>3, <3>2, Zenon
    <3>4. Panel!Advanced \in [pass : {0, 1, 2}, next : Nat \ {0}, strict : BOOLEAN,
                             network : Networks \cup {Panel!NoNetwork}, warned : BOOLEAN,
                             was : [Panels -> PanelFile]]
      BY <1>1 DEF PanelTypes, Panel!Advanced
    <3> HIDE DEF w
    <3> QED
      BY <3>1, <3>3, <3>4
  <2> QED
    BY <1>1, <1>2, <1>3, <2>1, <2>2 DEF PanelTypes
<1>7. PlanIsClean'
  <2> SUFFICES ASSUME NEW q \in DOMAIN plan'
               PROVE  /\ Kind[q] # "script" =>
                           /\ \A l \in plan'[q].lines : Panel!Convert(l) = l
                           /\ provision'.warned \/ Panel!Warnings(plan'[q].lines) = {}
                      /\ Fits(q, plan[q])'
    BY DEF PlanIsClean
  <2>1. CASE q = p
    <3>1. plan'[q] = planned
      BY <1>3, <2>1
    <3>2. Fits(q, planned)
      BY <1>5, <2>1
    <3>3. ASSUME Kind[p] # "script"
          PROVE  /\ \A l \in Panel!Content(p) : Panel!Convert(l) = l
                 /\ provision'.warned \/ Panel!Warnings(Panel!Content(p)) = {}
      BY <1>1, <1>2, <1>4, <3>3, ContentIsClean
    <3>4. Fits(q, plan[q])'
      BY <1>4, <1>5, <3>1, <3>2 DEF Fits
    <3> QED
      BY <1>5, <2>1, <3>1, <3>3, <3>4
  <2>2. CASE q # p
    <3>1. q \in DOMAIN plan /\ plan'[q] = plan[q]
      BY <1>3, <2>2
    <3>2. /\ Kind[q] # "script" =>
               /\ \A l \in plan[q].lines : Panel!Convert(l) = l
               /\ provision.warned \/ Panel!Warnings(plan[q].lines) = {}
          /\ Fits(q, plan[q])
      BY <1>1, <1>2, <3>1 DEF PlanIsClean
    <3>3. Fits(q, plan[q])'
      BY <1>4, <3>1, <3>2 DEF Fits
    <3>4. provision.warned => provision'.warned
      BY <1>4
    <3> QED
      BY <3>1, <3>2, <3>3, <3>4
  <2> QED
    BY <2>1, <2>2
<1>8. PlanIsCurrent'
  <2> SUFFICES ASSUME NEW i \in DOMAIN Order, i < provision.next + 1
               PROVE  Order[i] \in DOMAIN plan'
    BY <1>4 DEF PlanIsCurrent
  <2>1. i < provision.next \/ i = provision.next
    BY <1>1, TreeAssumption DEF PanelTypes
  <2> QED
    BY <1>1, <1>2, <1>3, <2>1 DEF PlanIsCurrent
<1>9. ShippedSoFar'
  BY <1>1, <1>2, <1>3, <1>4 DEF ShippedSoFar, PanelTypes
<1> QED
  BY <1>6, <1>7, <1>8, <1>9 DEF PanelInv

\* A file that is written in the second pass is as the run ships it.
LEMMA CommitShips ==
  ASSUME PanelInv, Panel!Commit, NEW p, p = Order[provision.next]
  PROVE  Shipped(p)'
<1>1. PanelTypes /\ PlanIsClean /\ PlanIsCurrent
  BY DEF PanelInv
<1>2. provision.pass = 2 /\ p \in Panels /\ p \in DOMAIN plan
  BY <1>1, NextFile DEF Panel!Commit, Panel!Pass, PlanIsCurrent
<1>3. /\ opt'[p] = Panel!Payload(p) /\ provision' = Panel!Advanced
      /\ provision'.strict = provision.strict /\ provision'.network = provision.network
  BY <1>1, <1>2 DEF Panel!Commit, Panel!Advanced, PanelTypes
<1>4. CASE Kind[p] = "script"
  <2>1. opt'[p].lines = tree[p]
    BY <1>3, <1>4 DEF Panel!Payload, Panel!File, Panel!Content
  <2>2. tree[p] \in Versions[p]
    BY <1>1, <1>2 DEF PanelTypes
  <2>3. opt'[p].lines \in Versions[p]
    BY <2>1, <2>2
  <2> QED
    BY <1>2, <1>4, <2>3 DEF Shipped, Panel!Commit, Panel!Advanced
<1>5. CASE Kind[p] # "script"
  <2>1. opt'[p] = plan[p]
    BY <1>3, <1>5 DEF Panel!Payload
  <2>2. /\ \A l \in opt'[p].lines : Panel!Convert(l) = l
        /\ provision.strict => Panel!Warnings(opt'[p].lines) = {}
        /\ Fits(p, opt'[p])
    BY <1>1, <1>2, <1>5, <2>1 DEF PlanIsClean, PlanIsCurrent
  <2> QED
    BY <1>3, <1>5, <2>2 DEF Shipped, Fits
<1> QED
  BY <1>4, <1>5

\* Pass 2 writes what pass 1 has planned for the file.
LEMMA CommitKeepsPanelInv ==
  ASSUME PanelInv, Panel!Commit
  PROVE  PanelInv'
<1> DEFINE p == Order[provision.next]
<1>1. PanelTypes /\ PlanIsClean /\ PlanIsCurrent /\ ShippedSoFar
  BY DEF PanelInv
<1>2. provision.pass = 2 /\ provision.next \in DOMAIN Order /\ p \in Panels
  BY <1>1, NextFile DEF Panel!Commit, Panel!Pass
<1>3. /\ opt' = [opt EXCEPT ![p] = Panel!Payload(p)] /\ provision' = Panel!Advanced
      /\ UNCHANGED <<tree, plan, outcome, runs, cuts>>
  BY DEF Panel!Commit
<1>4. provision' = [provision EXCEPT !.next = provision.next + 1]
  BY <1>3 DEF Panel!Advanced
<1>5. /\ provision'.pass = 2 /\ provision'.next = provision.next + 1
      /\ provision'.strict = provision.strict /\ provision'.network = provision.network
      /\ provision'.was = provision.was /\ provision'.warned = provision.warned
      /\ outcome = "none"
  BY <1>1, <1>2, <1>4 DEF PanelTypes
<1>6. PanelTypes'
  <2>1. opt' \in [Panels -> PanelFile]
    BY <1>1, <1>2, <1>3, PayloadIsFile DEF PanelTypes
  <2>2. provision' \in [pass : {0, 1, 2}, next : Nat \ {0}, strict : BOOLEAN,
                        network : Networks \cup {Panel!NoNetwork}, warned : BOOLEAN,
                        was : [Panels -> PanelFile]]
    BY <1>1, <1>4 DEF PanelTypes
  <2> QED
    BY <1>1, <1>3, <1>5, <2>1, <2>2 DEF PanelTypes
<1>7. PlanIsClean' /\ PlanIsCurrent'
  BY <1>1, <1>2, <1>3, <1>5 DEF PlanIsClean, PlanIsCurrent, Fits
<1>8. ShippedSoFar'
  <2> SUFFICES ASSUME NEW i \in DOMAIN Order, i < provision.next + 1
               PROVE  Shipped(Order[i])'
    BY <1>1, <1>2, <1>3, <1>5 DEF ShippedSoFar
  <2>1. CASE Order[i] = p
    BY <2>1, CommitShips
  <2>2. CASE Order[i] # p
    <3>1. i < provision.next
      BY <1>1, <2>2, TreeAssumption DEF PanelTypes
    <3>2. Shipped(Order[i])
      BY <1>1, <1>2, <3>1 DEF ShippedSoFar
    <3>3. opt'[Order[i]] = opt[Order[i]]
      BY <1>1, <1>2, <1>3, <2>2, TreeAssumption DEF PanelTypes
    <3> QED
      BY <1>5, <3>2, <3>3 DEF Shipped, Fits
  <2> QED
    BY <2>1, <2>2
<1> QED
  BY <1>6, <1>7, <1>8 DEF PanelInv

\* A write that fails ends the provisioning, and its outcome says so.
LEMMA CutKeepsPanelInv ==
  ASSUME PanelInv, Panel!CommitCut
  PROVE  PanelInv'
<1>1. PanelTypes /\ provision.pass = 2 /\ Order[provision.next] \in Panels
  BY NextFile DEF PanelInv, Panel!CommitCut, Panel!Pass
<1>2. provision' = [provision EXCEPT !.pass = 0] /\ outcome' = "failed" /\ UNCHANGED <<tree, plan>>
  BY DEF Panel!CommitCut
<1>3. [Panel!Absent EXCEPT !.whole = FALSE] \in PanelFile
  <2>1. Panel!Absent \in PanelFile
    BY DEF Panel!Absent, Panel!Unsized, PanelFile
  <2> QED
    BY <2>1 DEF PanelFile
<1>4. opt' \in [Panels -> PanelFile]
  BY <1>1, <1>3 DEF Panel!CommitCut, PanelTypes
<1>5. provision' \in [pass : {0, 1, 2}, next : Nat \ {0}, strict : BOOLEAN,
                      network : Networks \cup {Panel!NoNetwork}, warned : BOOLEAN,
                      was : [Panels -> PanelFile]] /\ provision'.pass = 0
  BY <1>1, <1>2 DEF PanelTypes
<1>6. PanelTypes'
  BY <1>1, <1>2, <1>4, <1>5 DEF PanelTypes
<1> QED
  BY <1>2, <1>5, <1>6 DEF PanelInv, PlanIsClean, PlanIsCurrent, ShippedSoFar

\* The gate lets a strict run through only if no file has been noted for a warning.
LEMMA GateKeepsPanelInv ==
  ASSUME PanelInv, Panel!Gate
  PROVE  PanelInv'
<1>1. PanelTypes /\ PlanIsClean /\ PlanIsCurrent /\ ShippedSoFar
  BY DEF PanelInv
<1>2. provision.pass = 1 /\ provision.next > Len(Order) /\ outcome = "none"
      /\ UNCHANGED <<tree, opt, plan>>
  BY <1>1 DEF Panel!Gate, Panel!Planned, PanelTypes
<1>3. CASE provision.strict /\ provision.warned
  <2>1. provision' = [provision EXCEPT !.pass = 0] /\ outcome' = "refused"
    BY <1>3 DEF Panel!Gate, Panel!Planned
  <2>2. PanelTypes' /\ provision'.pass = 0 /\ provision'.was = provision.was
    BY <1>1, <1>2, <2>1 DEF PanelTypes
  <2>3. opt' = provision'.was
    BY <1>1, <1>2, <2>2 DEF ShippedSoFar
  <2> QED
    BY <2>1, <2>2, <2>3 DEF PanelInv, PlanIsClean, PlanIsCurrent, ShippedSoFar
<1>4. CASE ~(provision.strict /\ provision.warned)
  <2>1. provision' = [provision EXCEPT !.pass = 2, !.next = 1] /\ outcome' = outcome
    BY <1>4 DEF Panel!Gate, Panel!Planned
  <2>2. /\ PanelTypes' /\ provision'.pass = 2 /\ provision'.next = 1
        /\ provision'.strict = provision.strict /\ provision'.warned = provision.warned
        /\ provision'.network = provision.network
    <3>1. provision' \in [pass : {0, 1, 2}, next : Nat \ {0}, strict : BOOLEAN,
                          network : Networks \cup {Panel!NoNetwork}, warned : BOOLEAN,
                          was : [Panels -> PanelFile]]
      <4>1. [provision EXCEPT !.pass = 2] \in
               [pass : {0, 1, 2}, next : Nat \ {0}, strict : BOOLEAN,
                network : Networks \cup {Panel!NoNetwork}, warned : BOOLEAN,
                was : [Panels -> PanelFile]]
        BY <1>1 DEF PanelTypes
      <4>2. provision' = [[provision EXCEPT !.pass = 2] EXCEPT !.next = 1]
        BY <1>1, <2>1 DEF PanelTypes
      <4>3. 1 \in Nat \ {0}
        OBVIOUS
      <4> QED
        BY <4>1, <4>2, <4>3
    <3>2. /\ provision'.pass = 2 /\ provision'.next = 1
          /\ provision'.strict = provision.strict /\ provision'.warned = provision.warned
          /\ provision'.network = provision.network
      BY <1>1, <2>1 DEF PanelTypes
    <3> QED
      BY <1>1, <1>2, <2>1, <3>1, <3>2 DEF PanelTypes
  <2>3. \A i \in DOMAIN Order : i < provision.next /\ ~(i < 1)
    BY <1>1, <1>2, TreeAssumption DEF PanelTypes
  <2>4. DOMAIN plan = Panels
    <3>1. \A i \in DOMAIN Order : Order[i] \in DOMAIN plan
      BY <1>1, <1>2, <2>3 DEF PlanIsCurrent
    <3>2. Panels \subseteq DOMAIN plan
      BY <3>1, TreeAssumption
    <3> QED
      BY <1>1, <3>2 DEF PanelTypes
  <2>5. PlanIsClean'
    BY <1>1, <1>2, <2>2 DEF PlanIsClean, Fits
  <2> QED
    BY <1>2, <1>4, <2>1, <2>2, <2>3, <2>4, <2>5 DEF PanelInv, PlanIsCurrent, ShippedSoFar
<1> QED
  BY <1>3, <1>4

\* Pass 1 begins with an empty plan.
LEMMA StartKeepsPanelInv ==
  ASSUME PanelInv, NEW strict \in BOOLEAN, NEW n \in Networks \cup {Panel!NoNetwork},
         Panel!Start(strict, n)
  PROVE  PanelInv'
<1>1. PanelTypes
  BY DEF PanelInv
<1>2. /\ provision' = [pass |-> 1, next |-> 1, strict |-> strict, network |-> n,
                       warned |-> FALSE, was |-> opt]
      /\ DOMAIN plan' = {} /\ outcome' = "none" /\ UNCHANGED <<tree, opt>>
  BY DEF Panel!Start
<1>3. PanelTypes'
  BY <1>1, <1>2 DEF PanelTypes
<1>4. \A i \in DOMAIN Order : ~(i < 1)
  BY TreeAssumption
<1> QED
  BY <1>2, <1>3, <1>4 DEF PanelInv, PlanIsClean, PlanIsCurrent, ShippedSoFar

\* When pass 2 ends, every file has been visited.
LEMMA FinishKeepsPanelInv ==
  ASSUME PanelInv, Panel!Finish
  PROVE  PanelInv'
<1>1. PanelTypes /\ ShippedSoFar /\ provision.pass = 2 /\ provision.next > Len(Order)
  BY DEF PanelInv, Panel!Finish
<1>2. provision' = [provision EXCEPT !.pass = 0] /\ outcome' = "done" /\ UNCHANGED <<tree, opt, plan>>
  BY DEF Panel!Finish
<1>3. PanelTypes' /\ provision'.pass = 0 /\ provision'.strict = provision.strict
      /\ provision'.network = provision.network
  BY <1>1, <1>2 DEF PanelTypes
<1>4. ASSUME NEW p \in Panels
      PROVE  Shipped(p)'
  <2>1. PICK i \in DOMAIN Order : Order[i] = p
    BY TreeAssumption
  <2>2. i < provision.next
    BY <1>1, <2>1, TreeAssumption DEF PanelTypes
  <2>3. Shipped(p)
    BY <1>1, <2>1, <2>2 DEF ShippedSoFar
  <2> QED
    BY <1>2, <1>3, <2>3 DEF Shipped, Fits
<1> QED
  BY <1>2, <1>3, <1>4 DEF PanelInv, PlanIsClean, PlanIsCurrent, ShippedSoFar

\* An edit of the tree changes neither the plan nor what was shipped.
LEMMA EditKeepsPanelInv ==
  ASSUME PanelInv, Panel!Edit
  PROVE  PanelInv'
<1>1. PICK p \in Panels : \E v \in Versions[p] \ {tree[p]} : tree' = [tree EXCEPT ![p] = v]
  BY DEF Panel!Edit
<1>2. PICK v \in Versions[p] : tree' = [tree EXCEPT ![p] = v]
  BY <1>1
<1>3. v \in SUBSET Panel!Line
  BY TreeAssumption
<1>4. UNCHANGED <<opt, plan, provision, outcome>>
  BY DEF Panel!Edit
<1>5. PanelTypes'
  BY <1>2, <1>3, <1>4 DEF PanelInv, PanelTypes
<1> QED
  BY <1>4, <1>5 DEF PanelInv, PlanIsClean, PlanIsCurrent, ShippedSoFar, Shipped, Fits

\* PanelInv is kept by every step.
LEMMA PanelStep == PanelInv /\ [Panel!Next]_Panel!vars => PanelInv'
<1> SUFFICES ASSUME PanelInv, [Panel!Next]_Panel!vars
             PROVE  PanelInv'
  OBVIOUS
<1>1. CASE UNCHANGED Panel!vars
  BY <1>1 DEF Panel!vars, PanelInv, PanelTypes, PlanIsClean, PlanIsCurrent, ShippedSoFar, Shipped, Fits
<1> QED
  BY <1>1, PlanNextKeepsPanelInv, CommitKeepsPanelInv, CutKeepsPanelInv, GateKeepsPanelInv,
     StartKeepsPanelInv, FinishKeepsPanelInv, EditKeepsPanelInv DEF Panel!Next

\* PanelInv implies what the run checks.
LEMMA PanelInvSuffices == PanelInv => PanelInvariant
<1> SUFFICES ASSUME PanelInv
             PROVE  PanelInvariant
  OBVIOUS
<1>1. ShippedSoFar
  BY DEF PanelInv
<1>2. Panel!RefusalTouchesNothing
  BY <1>1 DEF ShippedSoFar, Panel!RefusalTouchesNothing
<1>3. Panel!ShippedIsClean
  BY <1>1 DEF ShippedSoFar, Shipped, Panel!ShippedIsClean
<1>4. Panel!CeilingCovers
  <2> SUFFICES ASSUME outcome = "done", provision.network # Panel!NoNetwork,
                      NEW p \in Panels, Kind[p] = "addneq2", Panel!HasCeiling(opt[p].lines)
               PROVE  opt[p].maxpar >= Floor /\ opt[p].maxpar >= PerStation * provision.network + Margin
    BY DEF Panel!CeilingCovers
  <2> QED
    BY <1>1 DEF ShippedSoFar, Shipped, Fits
<1> QED
  BY <1>2, <1>3, <1>4 DEF PanelInvariant, Panel!PanelInvariant

\* When one tool is at work, the files of the others stay as they are.
LEMMA DeskRunsThePanels == DeskSpec => Panel!Spec
<1>1. DeskInit => Panel!Init
  BY DEF DeskInit
<1>2. [DeskNext]_deskVars => [Panel!Next]_Panel!vars
  BY DEF DeskNext, deskVars, panelVars, Panel!vars
<1> QED
  BY <1>1, <1>2, PTL DEF DeskSpec, Panel!Spec

\* Whatever the panels, their warnings and the network, and however the tree is
\* edited and writes are cut meanwhile: a strict run that refuses has touched
\* nothing, one that ends has shipped clean panels, and MAXPAR covers the network in
\* every panel that has the line (panel_sanitizer.py, provision_opt_dir).
THEOREM RefusalOrCleanPanels == DeskSpec => []PanelInvariant
  BY PanelInitially, PanelStep, PanelInvSuffices, DeskRunsThePanels, PTL DEF Panel!Spec

-----------------------------------------------------------------------------
\* ---- the recovery from recycle bins

\* What a manifest is made of.
Bin == {i \in DOMAIN catalog : Recovery!Payload(catalog[i])}
RowPlaces(i) == {rows[i].dest, Recovery!Within(rows[i])}
CopyRecords == [next : Nat, root : Recovery!Roots, copied : SUBSET DOMAIN rows,
                skipped : SUBSET DOMAIN rows, failed : SUBSET DOMAIN rows, ended : BOOLEAN]

RecoveryTypes ==
    /\ catalog \in BinCatalogs /\ infos \in BinInfos
    /\ source \in [DOMAIN catalog -> Int]
    /\ rows \in Seq({Recovery!Row(i) : i \in Bin})
    /\ \A i \in DOMAIN rows : RowPlaces(i) \subseteq DOMAIN dest
    /\ \A e \in dirs : \E i \in DOMAIN rows : e = rows[i].dest
    /\ copy \in CopyRecords
    /\ copy.ended => copy.next = 0
    /\ cleanly \in BOOLEAN /\ copies \in Nat /\ faults \in Nat
    /\ paired = "no" => rows = <<>>
    /\ rows = <<>> => copies = 0
    /\ copies = 0 => copy = Recovery!Idle /\ ~cleanly

\* What lies at a place comes from a row that goes there, or may land there.
PlacedByRows ==
    \A d \in DOMAIN dest :
        \/ dest[d] = Recovery!Absent
        \/ \E i \in DOMAIN rows : d \in RowPlaces(i) /\ dest[d] = [of |-> rows[i].src, size |-> dest[d].size]

Whole(i) == dest[rows[i].dest] = [of |-> rows[i].src, size |-> rows[i].size]
Clashes(i) == \E j \in DOMAIN rows : Recovery!Clash(i, j)

\* A row the run has dealt with is recovered or reported, or shares its destination.
DealtWith ==
    \A i \in DOMAIN rows :
        (copy.ended \/ i < copy.next) => i \in copy.failed \/ Recovery!Shared(i) \/ Whole(i)

\* Without faults the sources are as catalogued, and only rows that clash have failed.
Undisturbed ==
    faults = 0 => /\ source = [i \in DOMAIN catalog |-> catalog[i].size]
                  /\ copy.root = "given" => \A i \in copy.failed : Clashes(i)

RecoveryInv == RecoveryTypes /\ PlacedByRows /\ DealtWith /\ Undisturbed

\* Names of files and directories, the directory of the orphans among them.
Words == STRING \cup {"_orphaned"}

\* Sequences over a set are sequences over a larger one, and longer ones.
LEMMA SequenceFacts ==
  ASSUME NEW S, NEW T, S \subseteq T
  PROVE  /\ \A p \in Seq(S) : p \in Seq(T)
         /\ \A a, b \in T : <<a, b>> \in Seq(T)
         /\ \A p \in Seq(T), n \in T :
              /\ Append(p, n) \in Seq(T) /\ Len(Append(p, n)) = Len(p) + 1
              /\ DOMAIN p = 1..Len(p) /\ Len(p) \in Nat
              /\ \A k \in 1..Len(p) : Append(p, n)[k] = p[k]
<1>1. \A p \in Seq(S) : p \in Seq(T)
  OBVIOUS
<1>2. \A a, b \in T : <<a, b>> \in Seq(T)
  OBVIOUS
<1> QED
  BY <1>1, <1>2

\* The paths of one item and of an item below it.
LEMMA PathFacts ==
  ASSUME NEW p \in Seq(Words), NEW q \in Seq(Words), NEW n \in Words
  PROVE  /\ Append(p, n) \in Seq(Words) /\ Append(p, n) # p
         /\ Recovery!Comparable(p, q) => Recovery!Comparable(q, p)
         /\ Recovery!Comparable(Append(p, n), q) => Recovery!Comparable(p, q)
         /\ Recovery!Above(p, q) => Recovery!Comparable(p, q)
         /\ ~Recovery!Above(p, p) /\ ~Recovery!Above(Append(p, n), p)
<1> DEFINE a == Append(p, n)
<1>1. /\ a \in Seq(Words) /\ Len(a) = Len(p) + 1
      /\ \A k \in DOMAIN p : k \in DOMAIN a /\ a[k] = p[k]
      /\ Len(p) \in Nat /\ Len(q) \in Nat
  <2>1. a \in Seq(Words) /\ Len(a) = Len(p) + 1 /\ \A k \in 1..Len(p) : a[k] = p[k]
    BY SequenceFacts
  <2>2. DOMAIN p = 1..Len(p) /\ Len(p) \in Nat /\ Len(q) \in Nat
    OBVIOUS
  <2>3. DOMAIN a = 1..Len(a)
    BY <2>1
  <2> HIDE DEF a
  <2> QED
    BY <2>1, <2>2, <2>3
<1> HIDE DEF a
<1>2. a # p
  BY <1>1
<1>3. Recovery!Comparable(p, q) => Recovery!Comparable(q, p)
  BY DEF Recovery!Comparable
<1>4. Recovery!Comparable(a, q) => Recovery!Comparable(p, q)
  BY <1>1 DEF Recovery!Comparable
<1>5. ~Recovery!Above(p, p) /\ ~Recovery!Above(a, p)
  BY <1>1 DEF Recovery!Above
<1>6. Recovery!Above(p, q) => Recovery!Comparable(p, q)
  BY DEF Recovery!Above
<1> QED
  BY <1>1, <1>2, <1>3, <1>4, <1>5, <1>6 DEF a

\* The deleted items of comparable destinations: what lies below them compares as well.
LEMMA TopsCompare ==
  ASSUME NEW p \in Seq(Words), NEW q \in Seq(Words), NEW s \in Seq(Words), NEW t \in Seq(Words),
         Recovery!Comparable(p \o s, q \o t)
  PROVE  Recovery!Comparable(p, q)
<1>1. /\ \A k \in DOMAIN p : k \in DOMAIN (p \o s) /\ (p \o s)[k] = p[k]
      /\ \A k \in DOMAIN q : k \in DOMAIN (q \o t) /\ (q \o t)[k] = q[k]
  OBVIOUS
<1> QED
  BY <1>1 DEF Recovery!Comparable

\* A catalogue is a sequence of records with sizes, names and paths.
LEMMA CatalogFacts ==
  ASSUME catalog \in BinCatalogs
  PROVE  /\ Len(catalog) \in Nat /\ DOMAIN catalog = 1..Len(catalog)
         /\ \A i \in DOMAIN catalog :
              /\ catalog[i].size \in Nat /\ catalog[i].name \in Words /\ catalog[i].name # ".."
              /\ catalog[i].sub \in Seq(Words) /\ ~Recovery!Climbs(catalog[i].sub)
<1>1. catalog \in Seq({catalog[i] : i \in DOMAIN catalog})
      /\ \A i \in DOMAIN catalog :
              /\ catalog[i].size \in Nat /\ catalog[i].name \in Words /\ catalog[i].name # ".."
              /\ catalog[i].sub \in Seq(Words) /\ ~Recovery!Climbs(catalog[i].sub)
  <2>1. /\ catalog \in Seq({catalog[i] : i \in DOMAIN catalog})
        /\ \A i \in DOMAIN catalog :
              /\ catalog[i].size \in Nat /\ catalog[i].name \in STRING /\ catalog[i].name # ".."
              /\ catalog[i].sub \in Seq(STRING) /\ ~Recovery!Climbs(catalog[i].sub)
    BY BinAssumption
  <2>2. \A q \in Seq(STRING) : q \in Seq(Words)
    BY SequenceFacts DEF Words
  <2> QED
    BY <2>1, <2>2 DEF Words
<1> DEFINE records == {catalog[i] : i \in DOMAIN catalog}
<1>2. catalog \in Seq(records)
  BY <1>1
<1> HIDE DEF records
<1> QED
  BY <1>1, <1>2

\* Where a deleted item goes: the place its $I file names, or among the orphans.
LEMMA TopFacts ==
  ASSUME catalog \in BinCatalogs, infos \in BinInfos, NEW i \in Bin
  PROVE  /\ Recovery!Top(catalog[i]) \in Seq(Words) /\ ~Recovery!Climbs(Recovery!Top(catalog[i]))
         /\ Recovery!Meta(catalog[i]) # Recovery!NoInfo =>
              /\ Recovery!Top(catalog[i]) = Recovery!Meta(catalog[i]).at
              /\ 1 \in DOMAIN Recovery!Top(catalog[i]) /\ Recovery!Top(catalog[i])[1] # "_orphaned"
         /\ Recovery!Meta(catalog[i]) = Recovery!NoInfo =>
              /\ DOMAIN Recovery!Top(catalog[i]) = {1, 2}
              /\ Recovery!Top(catalog[i])[1] = "_orphaned" /\ Recovery!Top(catalog[i])[2] = catalog[i].name
<1> DEFINE info == infos[<<catalog[i].sid, catalog[i].name>>]
<1>1. info \in Recovery!Info /\ info.at # <<>> /\ info.at[1] # "_orphaned"
  BY BinAssumption DEF Bin
<1>2. Recovery!Meta(catalog[i]) = IF info.kind # "named" \/ Recovery!Climbs(info.at) THEN Recovery!NoInfo ELSE info
  BY DEF Recovery!Meta
<1>3. catalog[i].name \in Words /\ catalog[i].name # ".."
  BY CatalogFacts DEF Bin
<1>4. info.at \in Seq(Words)
  <2>1. info.at \in Seq(STRING)
    BY <1>1 DEF Recovery!Info
  <2> QED
    BY <2>1, SequenceFacts DEF Words
<1> HIDE DEF info
<1>5. CASE Recovery!Meta(catalog[i]) = Recovery!NoInfo
  <2> DEFINE top == <<"_orphaned", catalog[i].name>>
  <2>1. Recovery!Top(catalog[i]) = top
    BY <1>5 DEF Recovery!Top
  <2>2. DOMAIN top = {1, 2} /\ top[1] = "_orphaned" /\ top[2] = catalog[i].name /\ top \in Seq(Words)
    <3>0. top \in Seq(Words)
      BY <1>3, SequenceFacts DEF Words
    <3>1. Len(top) = 2 /\ top[1] = "_orphaned" /\ top[2] = catalog[i].name
      OBVIOUS
    <3>2. DOMAIN top = 1..2
      OBVIOUS
    <3> QED
      BY <3>0, <3>1, <3>2
  <2>3. ~Recovery!Climbs(top)
    BY <1>3, <2>2 DEF Recovery!Climbs
  <2> HIDE DEF top
  <2> QED
    BY <1>5, <2>1, <2>2, <2>3
<1>6. CASE Recovery!Meta(catalog[i]) # Recovery!NoInfo
  <2>1. Recovery!Meta(catalog[i]) = info /\ ~Recovery!Climbs(info.at)
    BY <1>2, <1>6
  <2>2. Recovery!Top(catalog[i]) = info.at
    BY <1>6, <2>1 DEF Recovery!Top
  <2>3. 1 \in DOMAIN info.at
    BY <1>1, <1>4
  <2> QED
    BY <1>1, <1>4, <1>6, <2>1, <2>2, <2>3
<1> QED
  BY <1>5, <1>6

\* A row is what its record and its $I file make of it.
LEMMA RowFacts ==
  ASSUME RecoveryTypes, NEW i \in DOMAIN rows
  PROVE  /\ rows[i].src \in Bin /\ rows[i].src \in Nat \ {0}
         /\ rows[i].size = catalog[rows[i].src].size /\ rows[i].size \in Nat
         /\ rows[i].dest = Recovery!Top(catalog[rows[i].src]) \o catalog[rows[i].src].sub
         /\ rows[i].dest \in Seq(Words) /\ ~Recovery!Climbs(rows[i].dest)
         /\ rows[i].leaf \in Words
         /\ rows[i].ok = (Recovery!Meta(catalog[rows[i].src]) # Recovery!NoInfo)
<1>1. rows[i] \in {Recovery!Row(k) : k \in Bin}
  BY DEF RecoveryTypes
<1>2. PICK k \in Bin : rows[i] = Recovery!Row(k)
  BY <1>1
<1>3. k \in DOMAIN catalog /\ DOMAIN catalog \subseteq Nat \ {0} /\ catalog[k].size \in Nat
      /\ catalog[k].name \in Words /\ catalog[k].sub \in Seq(Words) /\ ~Recovery!Climbs(catalog[k].sub)
  BY CatalogFacts DEF RecoveryTypes, Bin
<1>4. /\ rows[i].src = k /\ rows[i].size = catalog[k].size
      /\ rows[i].dest = Recovery!Destination(catalog[k])
      /\ rows[i].leaf = Recovery!Leaf(catalog[k])
      /\ rows[i].ok = (Recovery!Meta(catalog[k]) # Recovery!NoInfo)
  BY <1>2 DEF Recovery!Row
<1>5. Recovery!Top(catalog[k]) \in Seq(Words) /\ ~Recovery!Climbs(Recovery!Top(catalog[k]))
  BY TopFacts DEF RecoveryTypes
<1>6. rows[i].dest = Recovery!Top(catalog[k]) \o catalog[k].sub
  BY <1>4 DEF Recovery!Destination
<1>7. Recovery!Leaf(catalog[k]) \in Words
  <2>1. CASE catalog[k].sub = <<>>
    BY <1>3, <2>1 DEF Recovery!Leaf
  <2>2. CASE catalog[k].sub # <<>>
    <3>1. catalog[k].sub[Len(catalog[k].sub)] \in Words
      BY <1>3, <2>2
    <3> QED
      BY <2>2, <3>1 DEF Recovery!Leaf
  <2> QED
    BY <2>1, <2>2
<1>8. ASSUME NEW p \in Seq(Words), NEW s \in Seq(Words), ~Recovery!Climbs(p), ~Recovery!Climbs(s)
      PROVE  p \o s \in Seq(Words) /\ ~Recovery!Climbs(p \o s)
  <2>1. p \o s \in Seq(Words)
    OBVIOUS
  <2>2. ASSUME NEW k_ \in DOMAIN (p \o s)
        PROVE  (p \o s)[k_] # ".."
    <3>1. CASE k_ \in DOMAIN p
      BY <1>8, <3>1 DEF Recovery!Climbs
    <3>2. CASE k_ \notin DOMAIN p
      <4>1. k_ - Len(p) \in DOMAIN s /\ (p \o s)[k_] = s[k_ - Len(p)]
        BY <3>2
      <4> QED
        BY <1>8, <4>1 DEF Recovery!Climbs
    <3> QED
      BY <3>1, <3>2
  <2> QED
    BY <2>1, <2>2 DEF Recovery!Climbs
<1>9. rows[i].dest \in Seq(Words) /\ ~Recovery!Climbs(rows[i].dest)
  BY <1>3, <1>5, <1>6, <1>8
<1> QED
  BY <1>2, <1>3, <1>4, <1>6, <1>7, <1>9

\* The places of a row: its destination and one name below it.
LEMMA PlaceFacts ==
  ASSUME RecoveryTypes, NEW i \in DOMAIN rows
  PROVE  /\ RowPlaces(i) \subseteq Seq(Words) /\ Recovery!Within(rows[i]) # rows[i].dest
         /\ ~Recovery!Above(rows[i].dest, rows[i].dest)
         /\ ~Recovery!Above(Recovery!Within(rows[i]), rows[i].dest)
         /\ \A q \in Seq(Words), d \in RowPlaces(i) : Recovery!Above(d, q) => Recovery!Comparable(rows[i].dest, q)
<1>1. rows[i].dest \in Seq(Words) /\ rows[i].leaf \in Words
  BY RowFacts
<1>2. Recovery!Within(rows[i]) = Append(rows[i].dest, rows[i].leaf)
  BY DEF Recovery!Within
<1> DEFINE d == rows[i].dest
<1> DEFINE n == rows[i].leaf
<1>3. d \in Seq(Words) /\ n \in Words /\ Recovery!Within(rows[i]) = Append(d, n)
      /\ RowPlaces(i) = {d, Append(d, n)}
  BY <1>1, <1>2 DEF RowPlaces
<1> HIDE DEF d, n
<1>4. Append(d, n) \in Seq(Words) /\ Append(d, n) # d /\ ~Recovery!Above(d, d) /\ ~Recovery!Above(Append(d, n), d)
  BY <1>3, PathFacts
<1>5. ASSUME NEW q \in Seq(Words), NEW e \in {d, Append(d, n)}, Recovery!Above(e, q)
      PROVE  Recovery!Comparable(d, q)
  <2>1. Recovery!Comparable(e, q)
    BY <1>5 DEF Recovery!Above
  <2>2. CASE e = d
    BY <2>1, <2>2
  <2>3. CASE e = Append(d, n)
    <3>1. Recovery!Comparable(Append(d, n), q)
      BY <2>1, <2>3
    <3> QED
      BY <1>3, <3>1, PathFacts, Zenon
  <2> QED
    BY <2>2, <2>3
<1>6. RowPlaces(i) \subseteq Seq(Words)
  BY <1>3, <1>4
<1> QED
  BY <1>3, <1>4, <1>5, <1>6 DEF d

\* A file in the way of a row, or a directory at its destination, is of a row it
\* clashes with.
LEMMA InTheWayClashes ==
  ASSUME RecoveryTypes, PlacedByRows, NEW i \in DOMAIN rows,
         Recovery!Blocked(rows[i]) \/ Recovery!IsDir(rows[i].dest)
  PROVE  Clashes(i)
<1>1. rows[i].dest \in Seq(Words)
  BY RowFacts
<1>2. CASE Recovery!Blocked(rows[i])
  <2>1. PICK d \in DOMAIN dest : dest[d] # Recovery!Absent /\ Recovery!Above(d, rows[i].dest)
    BY <1>2 DEF Recovery!Blocked, Recovery!IsFile
  <2>2. PICK j \in DOMAIN rows : d \in RowPlaces(j)
    BY <2>1 DEF PlacedByRows
  <2>3. j # i
    BY <2>1, <2>2, PlaceFacts DEF RowPlaces
  <2>4. Recovery!Comparable(rows[j].dest, rows[i].dest)
    BY <1>1, <2>1, <2>2, PlaceFacts
  <2>5. rows[j].dest \in Seq(Words)
    BY RowFacts
  <2>6. Recovery!Comparable(rows[i].dest, rows[j].dest)
    BY <1>1, <2>4, <2>5 DEF Recovery!Comparable
  <2> QED
    BY <2>3, <2>6 DEF Clashes, Recovery!Clash
<1>3. CASE Recovery!IsDir(rows[i].dest)
  <2>1. PICK e \in dirs : Recovery!Above(rows[i].dest, e)
    BY <1>3 DEF Recovery!IsDir
  <2>2. PICK j \in DOMAIN rows : e = rows[j].dest
    BY DEF RecoveryTypes
  <2>3. j # i
    BY <2>1, <2>2, PlaceFacts
  <2> QED
    BY <2>1, <2>2, <2>3 DEF Clashes, Recovery!Clash, Recovery!Above
<1> QED
  BY <1>2, <1>3

\* Before the first copy nothing lies at a destination.
LEMMA RecoveryInitially == Recovery!Init => RecoveryInv
<1> SUFFICES ASSUME Recovery!Init
             PROVE  RecoveryInv
  OBVIOUS
<1>1. catalog \in BinCatalogs /\ infos \in BinInfos /\ rows = <<>> /\ copy = Recovery!Idle
      /\ DOMAIN dest = {} /\ dirs = {} /\ cleanly = FALSE /\ copies = 0 /\ faults = 0
      /\ source = [i \in DOMAIN catalog |-> catalog[i].size]
  BY DEF Recovery!Init
<1>2. source \in [DOMAIN catalog -> Int]
  BY <1>1, CatalogFacts
<1>3. copy \in CopyRecords /\ ~copy.ended /\ copy.failed = {}
  BY <1>1 DEF Recovery!Idle, Recovery!Roots, CopyRecords
<1>4. RecoveryTypes
  <2>1. rows \in Seq({Recovery!Row(i) : i \in Bin}) /\ DOMAIN rows = {}
    BY <1>1
  <2> QED
    BY <1>1, <1>2, <1>3, <2>1 DEF RecoveryTypes
<1> QED
  BY <1>1, <1>3, <1>4 DEF RecoveryInv, PlacedByRows, DealtWith, Undisturbed

\* Pairing writes the rows that Destination gives, and copies nothing.
LEMMA PairKeepsRecoveryInv ==
  ASSUME RecoveryInv, Recovery!Pair
  PROVE  RecoveryInv'
<1>1. RecoveryTypes /\ Undisturbed /\ rows = <<>> /\ copies = 0 /\ copy = Recovery!Idle /\ ~cleanly
      /\ UNCHANGED <<catalog, infos, source, dirs, copy, cleanly, copies, faults>>
  BY DEF RecoveryInv, RecoveryTypes, Recovery!Pair
<1>2. Bin' = Bin /\ \A i : Recovery!Row(i)' = Recovery!Row(i)
  BY <1>1 DEF Bin, Recovery!Row, Recovery!Meta, Recovery!Top, Recovery!Destination
<1>3. rows' \in Seq({Recovery!Row(i) : i \in Bin}) /\ (\A i \in DOMAIN rows' : RowPlaces(i)' \subseteq DOMAIN dest')
      /\ (\A d \in DOMAIN dest' : dest'[d] = Recovery!Absent)
  <2>1. CASE Recovery!Chokes
    <3>1. UNCHANGED <<rows, dest>>
      BY <2>1 DEF Recovery!Pair
    <3>2. DOMAIN rows = {}
      BY <1>1
    <3>3. \A d \in DOMAIN dest : dest[d] = Recovery!Absent
      BY <3>2 DEF RecoveryInv, PlacedByRows
    <3> QED
      BY <1>1, <3>1, <3>2, <3>3 DEF RecoveryTypes
  <2>2. CASE ~Recovery!Chokes
    <3>1. PICK f \in Recovery!InOrder(Recovery!Candidates) : rows' = [k \in DOMAIN f |-> Recovery!Row(f[k])]
      BY <2>2 DEF Recovery!Pair
    <3>2. dest' = [d \in UNION {{rows'[k].dest, Recovery!Within(rows'[k])} : k \in DOMAIN rows'} |-> Recovery!Absent]
      BY <2>2 DEF Recovery!Pair
    <3>3. Recovery!Candidates = Bin
      BY DEF Recovery!Candidates, Bin
    <3>4. Cardinality(Bin) \in Nat
      <4>1. DOMAIN catalog = 1..Len(catalog) /\ Len(catalog) \in Nat
        BY <1>1, CatalogFacts DEF RecoveryTypes
      <4>2. IsFiniteSet(1..Len(catalog))
        BY <4>1, FS_Interval
      <4> QED
        BY <4>1, <4>2, FS_Subset, FS_CardinalityType DEF Bin
    <3>5. f \in [1..Cardinality(Bin) -> Bin]
      <4>1. f \in Recovery!InOrder(Bin)
        BY <3>1, <3>3
      <4> QED
        BY <4>1 DEF Recovery!InOrder, Recovery!Cardinality, Cardinality
    <3>6. rows' \in [1..Cardinality(Bin) -> {Recovery!Row(i) : i \in Bin}]
      BY <3>1, <3>5
    <3>7. \A i \in DOMAIN rows' : RowPlaces(i)' \subseteq DOMAIN dest'
      <4> SUFFICES ASSUME NEW i \in DOMAIN rows', NEW d \in RowPlaces(i)'
                   PROVE  d \in DOMAIN dest'
        OBVIOUS
      <4>1. d \in {rows'[i].dest, Recovery!Within(rows'[i])}
        BY DEF RowPlaces, Recovery!Within
      <4> QED
        BY <3>2, <4>1
    <3> QED
      BY <3>2, <3>4, <3>6, <3>7
  <2> QED
    BY <2>1, <2>2
<1>4. copy \in CopyRecords' /\ ~copy.ended /\ copy.failed = {} /\ copy.next = 0
  BY <1>1 DEF Recovery!Idle, Recovery!Roots, CopyRecords
<1>5. RecoveryTypes'
  <2>1. paired' # "no"
    BY DEF Recovery!Pair
  <2>2. dirs = {}
    BY <1>1 DEF RecoveryTypes
  <2> QED
    BY <1>1, <1>2, <1>3, <1>4, <2>1, <2>2 DEF RecoveryTypes
<1>6. \A i \in DOMAIN rows' : ~(i < 0)
  <2> DEFINE made == {Recovery!Row(i) : i \in Bin}
  <2>1. rows' \in Seq(made)
    BY <1>3
  <2> HIDE DEF made
  <2> QED
    BY <2>1
<1>7. Recovery!Absent' = Recovery!Absent
  BY DEF Recovery!Absent
<1> QED
  BY <1>1, <1>3, <1>4, <1>5, <1>6, <1>7 DEF RecoveryInv, PlacedByRows, DealtWith, Undisturbed

\* The manifest and what it was made from do not change while rows are copied.
LEMMA ManifestStays ==
  ASSUME UNCHANGED <<catalog, infos, rows>>
  PROVE  /\ Bin' = Bin /\ {Recovery!Row(i) : i \in Bin}' = {Recovery!Row(i) : i \in Bin}
         /\ CopyRecords' = CopyRecords
         /\ \A i : /\ Recovery!Shared(i)' <=> Recovery!Shared(i)
                   /\ Clashes(i)' <=> Clashes(i)
                   /\ RowPlaces(i)' = RowPlaces(i)
<1>1. Bin' = Bin /\ {Recovery!Row(i) : i \in Bin}' = {Recovery!Row(i) : i \in Bin} /\ CopyRecords' = CopyRecords
  BY DEF Bin, Recovery!Row, Recovery!Destination, Recovery!Top, Recovery!Meta, CopyRecords
<1>2. \A i : Recovery!Shared(i)' <=> Recovery!Shared(i)
  BY DEF Recovery!Shared, Recovery!Within
<1>3. \A i : Clashes(i)' <=> Clashes(i)
  BY DEF Clashes, Recovery!Clash
<1>4. \A i : RowPlaces(i)' = RowPlaces(i)
  BY DEF RowPlaces, Recovery!Within
<1> QED
  BY <1>1, <1>2, <1>3, <1>4

\* The rows are numbered from one.
LEMMA RowNumbers ==
  ASSUME RecoveryTypes
  PROVE  Len(rows) \in Nat /\ DOMAIN rows = 1..Len(rows)
<1> DEFINE made == {Recovery!Row(i) : i \in Bin}
<1>1. rows \in Seq(made)
  BY DEF RecoveryTypes
<1> HIDE DEF made
<1> QED
  BY <1>1

\* A row that is present is whole, unless another one goes to its place.
LEMMA PresentIsWhole ==
  ASSUME RecoveryTypes, PlacedByRows, NEW i \in DOMAIN rows, Recovery!Present(rows[i])
  PROVE  Recovery!Shared(i) \/ Whole(i)
<1> DEFINE d == rows[i].dest
<1>1. CASE Recovery!IsFile(d) /\ dest[d].size = rows[i].size
  <2>1. PICK j \in DOMAIN rows : d \in RowPlaces(j) /\ dest[d] = [of |-> rows[j].src, size |-> dest[d].size]
    BY <1>1 DEF PlacedByRows, Recovery!IsFile
  <2>2. CASE i = j
    BY <1>1, <2>1, <2>2 DEF Whole
  <2>3. CASE i # j
    BY <2>1, <2>3 DEF Recovery!Shared, RowPlaces
  <2> QED
    BY <2>2, <2>3
<1>2. CASE Recovery!IsDir(d) /\ DirSize = rows[i].size
  <2>1. \E j \in DOMAIN rows : Recovery!Above(d, rows[j].dest)
    BY <1>2 DEF Recovery!IsDir, RecoveryTypes
  <2> QED
    BY <1>2, <2>1 DEF Recovery!Shared
<1> QED
  BY <1>1, <1>2 DEF Recovery!Present

\* The row whose turn it is, in a run that has not ended.
LEMMA CurrentRow ==
  ASSUME RecoveryTypes, Recovery!InRun
  PROVE  /\ copy.next \in DOMAIN rows /\ copy.next \in Nat \ {0} /\ ~copy.ended /\ copies # 0
         /\ Recovery!Current = rows[copy.next] /\ RowPlaces(copy.next) \subseteq DOMAIN dest
<1>1. copy.next \in DOMAIN rows /\ Recovery!Current = rows[copy.next]
  BY DEF Recovery!InRun, Recovery!Current
<1>2. copy.next \in Nat \ {0}
  BY <1>1, RowNumbers
<1>3. Recovery!Idle.next = 0
  BY DEF Recovery!Idle
<1> QED
  BY <1>1, <1>2, <1>3 DEF RecoveryTypes

\* A run that goes on to the next row keeps the record of the run well formed, and
\* adds that row to those copied, skipped or failed.
LEMMA DoneIsTyped ==
  ASSUME RecoveryTypes, Recovery!InRun, UNCHANGED rows,
         NEW what \in {"copied", "skipped", "failed"}, Recovery!Done(what)
  PROVE  /\ copy' \in CopyRecords
         /\ copy'.next = copy.next + 1 /\ copy'.root = copy.root /\ ~copy'.ended
         /\ copy'.failed = IF what = "failed" THEN copy.failed \cup {copy.next} ELSE copy.failed
         /\ copy'.copied = IF what = "copied" THEN copy.copied \cup {copy.next} ELSE copy.copied
<1>1. copy.next \in DOMAIN rows /\ copy.next \in Nat /\ ~copy.ended
  BY CurrentRow
<1>2. copy \in CopyRecords
  BY DEF RecoveryTypes
<1>6. /\ [copy EXCEPT !.next = copy.next + 1] \in CopyRecords
      /\ copy.copied \cup {copy.next} \in SUBSET DOMAIN rows
      /\ copy.skipped \cup {copy.next} \in SUBSET DOMAIN rows
      /\ copy.failed \cup {copy.next} \in SUBSET DOMAIN rows
  BY <1>1, <1>2 DEF CopyRecords
<1>3. CASE what = "copied"
  <2>1. copy' = [[copy EXCEPT !.next = copy.next + 1] EXCEPT !.copied = copy.copied \cup {copy.next}]
    BY <1>2, <1>3 DEF Recovery!Done, CopyRecords
  <2> QED
    BY <1>1, <1>3, <1>6, <2>1 DEF CopyRecords
<1>4. CASE what = "skipped"
  <2>1. copy' = [[copy EXCEPT !.next = copy.next + 1] EXCEPT !.skipped = copy.skipped \cup {copy.next}]
    BY <1>2, <1>4 DEF Recovery!Done, CopyRecords
  <2> QED
    BY <1>1, <1>4, <1>6, <2>1 DEF CopyRecords
<1>5. CASE what = "failed"
  <2>1. copy' = [[copy EXCEPT !.next = copy.next + 1] EXCEPT !.failed = copy.failed \cup {copy.next}]
    BY <1>2, <1>5 DEF Recovery!Done, CopyRecords
  <2> QED
    BY <1>1, <1>5, <1>6, <2>1 DEF CopyRecords
<1> QED
  BY <1>3, <1>4, <1>5

\* A step in the run on row n leaves what is there, or puts a prefix of the row's own
\* file, or nothing, in one of its places.
Writes(n) ==
    \/ UNCHANGED dest
    \/ /\ ~Recovery!Present(rows[n])
       /\ \E d \in RowPlaces(n) : \E was :
            /\ dest' = [dest EXCEPT ![d] = was]
            /\ was = Recovery!Absent \/ was = [of |-> rows[n].src, size |-> was.size]

\* Copying a row, wholly or in part, is such a step.
LEMMA CopyWrites ==
  ASSUME NEW n, NEW size, ~Recovery!Present(rows[n]), Recovery!Place(rows[n], size)
  PROVE  Writes(n)
<1> DEFINE w == [of |-> rows[n].src, size |-> size]
<1> DEFINE d == Recovery!Target(rows[n])
<1>1. w = [of |-> rows[n].src, size |-> w.size]
  OBVIOUS
<1>2. dest' = [dest EXCEPT ![d] = w]
  BY DEF Recovery!Place
<1>3. d \in RowPlaces(n)
  BY DEF Recovery!Target, RowPlaces
<1> HIDE DEF w, d
<1> QED
  BY <1>1, <1>2, <1>3 DEF Writes

\* Such a step disturbs no row that was whole at a destination of its own.
LEMMA WritesDisturbNothing ==
  ASSUME RecoveryTypes, PlacedByRows, UNCHANGED <<catalog, infos, rows>>,
         NEW n \in DOMAIN rows, Writes(n)
  PROVE  /\ PlacedByRows' /\ DOMAIN dest' = DOMAIN dest
         /\ \A i \in DOMAIN rows \ {n} : Recovery!Shared(i) \/ Whole(i) => Recovery!Shared(i)' \/ Whole(i)'
<1>1. DOMAIN dest' = DOMAIN dest
  BY DEF Writes
<1>2. PlacedByRows'
  <2> SUFFICES ASSUME NEW e \in DOMAIN dest, dest'[e] # Recovery!Absent
               PROVE  \E i \in DOMAIN rows : e \in RowPlaces(i)
                         /\ dest'[e] = [of |-> rows[i].src, size |-> dest'[e].size]
    <3>1. Recovery!Absent' = Recovery!Absent /\ \A i : RowPlaces(i)' = RowPlaces(i)
      BY ManifestStays DEF Recovery!Absent
    <3> QED
      BY <1>1, <3>1 DEF PlacedByRows
  <2>1. CASE dest'[e] = dest[e]
    BY <2>1 DEF PlacedByRows
  <2>2. CASE dest'[e] # dest[e]
    <3>1. e \in RowPlaces(n) /\ dest'[e] = [of |-> rows[n].src, size |-> dest'[e].size]
      BY <2>2 DEF Writes
    <3> QED
      BY <3>1
  <2> QED
    BY <2>1, <2>2
<1>3. ASSUME NEW i \in DOMAIN rows \ {n}, Recovery!Shared(i) \/ Whole(i)
      PROVE  Recovery!Shared(i)' \/ Whole(i)'
  <2>1. CASE Recovery!Shared(i)
    BY <2>1, ManifestStays
  <2>2. CASE ~Recovery!Shared(i)
    <3>1. rows[i].dest \notin RowPlaces(n)
      BY <2>2 DEF Recovery!Shared, RowPlaces
    <3>2. rows[i].dest \in DOMAIN dest
      BY DEF RecoveryTypes, RowPlaces
    <3>3. dest'[rows[i].dest] = dest[rows[i].dest]
      BY <3>1, <3>2 DEF Writes
    <3> QED
      BY <1>3, <2>2, <3>3 DEF Whole
  <2> QED
    BY <2>1, <2>2
<1> QED
  BY <1>1, <1>2, <1>3

\* Dealing with a row keeps the invariant if the row is then reported, whole or not
\* alone at its destination, and was reported for a reason.
LEMMA RowDealtWith ==
  ASSUME RecoveryInv, Recovery!InRun, UNCHANGED <<catalog, infos, paired, rows, source, cleanly, copies>>,
         faults' \in Nat, faults' = 0 => faults = 0,
         NEW what \in {"copied", "skipped", "failed"}, Recovery!Done(what),
         NEW n, n = copy.next, Writes(n), dirs' \subseteq dirs \cup {rows[n].dest},
         what = "failed" \/ Recovery!Shared(n) \/ Whole(n)',
         what = "failed" /\ faults' = 0 => copy.root # "given" \/ Clashes(n)
  PROVE  RecoveryInv'
<1>1. RecoveryTypes /\ PlacedByRows /\ DealtWith /\ Undisturbed
  BY DEF RecoveryInv
<1>2. n \in DOMAIN rows /\ n \in Nat \ {0} /\ ~copy.ended /\ copies # 0 /\ DOMAIN rows \subseteq Nat
  BY <1>1, CurrentRow, RowNumbers
<1>3. /\ copy' \in CopyRecords
      /\ copy'.next = n + 1 /\ copy'.root = copy.root /\ ~copy'.ended
      /\ copy'.failed = IF what = "failed" THEN copy.failed \cup {n} ELSE copy.failed
  BY <1>1, DoneIsTyped
<1>4. /\ PlacedByRows' /\ DOMAIN dest' = DOMAIN dest
      /\ \A i \in DOMAIN rows \ {n} : Recovery!Shared(i) \/ Whole(i) => Recovery!Shared(i)' \/ Whole(i)'
  BY <1>1, <1>2, WritesDisturbNothing
<1>5. RecoveryTypes'
  <2>1. /\ rows \in Seq({Recovery!Row(i) : i \in Bin})' /\ CopyRecords' = CopyRecords
        /\ \A i : RowPlaces(i)' = RowPlaces(i)
    BY <1>1, ManifestStays DEF RecoveryTypes
  <2> QED
    BY <1>1, <1>2, <1>3, <1>4, <2>1 DEF RecoveryTypes
<1>6. DealtWith'
  <2> SUFFICES ASSUME NEW i \in DOMAIN rows, i < n + 1, i \notin copy'.failed
               PROVE  Recovery!Shared(i)' \/ Whole(i)'
    BY <1>3 DEF DealtWith
  <2>1. CASE i = n
    BY <1>3, <2>1, ManifestStays
  <2>2. CASE i # n
    <3>1. i < n /\ i \notin copy.failed
      BY <1>2, <1>3, <2>2
    <3>2. Recovery!Shared(i) \/ Whole(i)
      BY <1>1, <3>1 DEF DealtWith
    <3> QED
      BY <1>4, <2>2, <3>2
  <2> QED
    BY <2>1, <2>2
<1>7. Undisturbed'
  <2>1. \A i : Clashes(i)' <=> Clashes(i)
    BY ManifestStays
  <2> QED
    BY <1>1, <1>3, <2>1 DEF Undisturbed
<1> QED
  BY <1>4, <1>5, <1>6, <1>7 DEF RecoveryInv

\* ---- one lemma per step of the copy

\* A row whose destination leaves the root is refused and reported.
LEMMA RefuseKeepsRecoveryInv ==
  ASSUME RecoveryInv, Recovery!Refuse, UNCHANGED <<catalog, infos, paired, rows, source, cleanly, copies, faults>>
  PROVE  RecoveryInv'
<1> DEFINE n == copy.next
<1>1. RecoveryTypes /\ Recovery!InRun /\ Recovery!Done("failed") /\ UNCHANGED <<dest, dirs>>
  BY DEF RecoveryInv, Recovery!Refuse
<1>2. n \in DOMAIN rows /\ Recovery!Current = rows[n] /\ faults \in Nat
  BY <1>1, CurrentRow DEF RecoveryTypes
<1>3. copy.root # "given"
  BY <1>1, <1>2, RowFacts DEF Recovery!Refuse, Recovery!Inside
<1>4. Writes(n)
  BY <1>1 DEF Writes
<1> QED
  BY <1>1, <1>2, <1>3, <1>4, RowDealtWith

\* A row whose destination has its size already is passed.
LEMMA SkipKeepsRecoveryInv ==
  ASSUME RecoveryInv, Recovery!Skip, UNCHANGED <<catalog, infos, paired, rows, source, cleanly, copies, faults>>
  PROVE  RecoveryInv'
<1>0. PICK n : n = copy.next
  OBVIOUS
<1>1. RecoveryTypes /\ PlacedByRows /\ Recovery!InRun /\ Recovery!Done("skipped") /\ UNCHANGED <<dest, dirs>>
  BY DEF RecoveryInv, Recovery!Skip
<1>2. n \in DOMAIN rows /\ Recovery!Current = rows[n] /\ faults \in Nat
  BY <1>0, <1>1, CurrentRow DEF RecoveryTypes
<1>3. Recovery!Present(rows[n])
  BY <1>2 DEF Recovery!Skip
<1>4. Recovery!Shared(n) \/ Whole(n)
  BY <1>1, <1>2, <1>3, PresentIsWhole
<1>5. Recovery!Shared(n) \/ Whole(n)'
  BY <1>1, <1>2, <1>4 DEF Whole
<1>6. Writes(n)
  BY <1>1 DEF Writes
<1> QED
  BY <1>1, <1>2, <1>0, <1>5, <1>6, RowDealtWith

\* A row in whose way a file lies is reported.
LEMMA BlockedKeepsRecoveryInv ==
  ASSUME RecoveryInv, Recovery!CopyBlocked, UNCHANGED <<catalog, infos, paired, rows, source, cleanly, copies, faults>>
  PROVE  RecoveryInv'
<1> DEFINE n == copy.next
<1>1. RecoveryTypes /\ PlacedByRows /\ Recovery!InRun /\ Recovery!Done("failed") /\ UNCHANGED <<dest, dirs>>
  BY DEF RecoveryInv, Recovery!CopyBlocked, Recovery!ToCopy
<1>2. n \in DOMAIN rows /\ Recovery!Current = rows[n] /\ faults \in Nat
  BY <1>1, CurrentRow DEF RecoveryTypes
<1>3. Clashes(n)
  BY <1>1, <1>2, InTheWayClashes DEF Recovery!CopyBlocked
<1>4. Writes(n)
  BY <1>1 DEF Writes
<1> QED
  BY <1>1, <1>2, <1>3, <1>4, RowDealtWith

\* A row that is copied lies whole at its destination.
LEMMA CopyFileKeepsRecoveryInv ==
  ASSUME RecoveryInv, Recovery!CopyFile, UNCHANGED <<catalog, infos, paired, rows, source, cleanly, copies, faults>>
  PROVE  RecoveryInv'
<1>0. PICK n : n = copy.next
  OBVIOUS
<1> DEFINE row == rows[n]
<1>1. RecoveryTypes /\ PlacedByRows /\ Undisturbed /\ Recovery!InRun
  BY DEF RecoveryInv, Recovery!CopyFile, Recovery!ToCopy
<1>2. n \in DOMAIN rows /\ Recovery!Current = row /\ faults \in Nat /\ row.dest \in DOMAIN dest
  BY <1>0, <1>1, CurrentRow DEF RecoveryTypes, RowPlaces
<1>3. ~Recovery!Present(row) /\ Recovery!Verified(row) /\ dirs' = dirs \cup {row.dest}
  BY <1>2 DEF Recovery!CopyFile, Recovery!ToCopy, Recovery!Mkdir
<1>4. CASE ~Recovery!IsDir(row.dest) /\ Recovery!Done("copied") /\ Recovery!Place(row, row.size)
  <2>1. Writes(n)
    BY <1>3, <1>4, CopyWrites
  <2>2. Whole(n)'
    BY <1>2, <1>4 DEF Whole, Recovery!Place, Recovery!Target
  <2> QED
    BY <1>0, <1>1, <1>2, <1>3, <1>4, <2>1, <2>2, RowDealtWith
<1>5. CASE source[row.src] # row.size /\ Recovery!Done("failed") /\ dest' = [dest EXCEPT ![row.dest] = Recovery!Absent]
  <2>1. faults # 0
    BY <1>1, <1>2, <1>5, RowFacts DEF Undisturbed, Bin
  <2>2. Writes(n)
    BY <1>3, <1>5 DEF Writes, RowPlaces
  <2> QED
    BY <1>0, <1>1, <1>2, <1>3, <1>5, <2>1, <2>2, RowDealtWith
<1>6. CASE Recovery!IsDir(row.dest) /\ Recovery!Done("failed") /\ Recovery!Place(row, source[row.src])
  <2>1. Clashes(n)
    BY <1>1, <1>2, <1>6, InTheWayClashes
  <2>2. Writes(n)
    BY <1>3, <1>6, CopyWrites
  <2> QED
    BY <1>0, <1>1, <1>2, <1>3, <1>6, <2>1, <2>2, RowDealtWith
<1> QED
  BY <1>3, <1>4, <1>5, <1>6 DEF Recovery!Verified

\* A row that cannot be copied is reported.
LEMMA CopyFailsKeepsRecoveryInv ==
  ASSUME RecoveryInv, Recovery!CopyFails, UNCHANGED <<catalog, infos, paired, rows, source, cleanly, copies, faults>>
  PROVE  RecoveryInv'
<1> DEFINE n == copy.next
<1>1. RecoveryTypes /\ PlacedByRows /\ Undisturbed /\ Recovery!InRun /\ Recovery!Done("failed") /\ UNCHANGED dest
  BY DEF RecoveryInv, Recovery!CopyFails, Recovery!ToCopy
<1>2. n \in DOMAIN rows /\ Recovery!Current = rows[n] /\ faults \in Nat
  BY <1>1, CurrentRow DEF RecoveryTypes
<1>3. ~Recovery!Copyable(rows[n]) /\ dirs' = dirs \cup {rows[n].dest}
  BY <1>2 DEF Recovery!CopyFails, Recovery!Mkdir
<1>4. faults # 0 \/ Clashes(n)
  <2>1. CASE source[rows[n].src] = -1
    <3>1. rows[n].src \in DOMAIN catalog /\ catalog[rows[n].src].size \in Nat
      BY <1>1, <1>2, RowFacts DEF Bin
    <3> QED
      BY <1>1, <2>1, <3>1 DEF Undisturbed
  <2>2. CASE Recovery!IsDir(Recovery!Target(rows[n]))
    <3>1. Recovery!IsDir(rows[n].dest)
      BY <2>2 DEF Recovery!Target
    <3> QED
      BY <1>1, <1>2, <3>1, InTheWayClashes
  <2> QED
    BY <1>3, <2>1, <2>2 DEF Recovery!Copyable, Recovery!Unreadable
<1>5. Writes(n)
  BY <1>1 DEF Writes
<1> QED
  BY <1>1, <1>2, <1>3, <1>4, <1>5, RowDealtWith

\* A copy that is cut leaves part of a file, and the row is reported or the run is over.
LEMMA CutKeepsRecoveryInv ==
  ASSUME RecoveryInv, Recovery!CutCopy
  PROVE  RecoveryInv'
<1> DEFINE n == copy.next
<1> DEFINE row == rows[n]
<1>1. RecoveryTypes /\ PlacedByRows /\ Recovery!InRun
      /\ UNCHANGED <<catalog, infos, paired, rows, source, cleanly, copies>>
  BY DEF RecoveryInv, Recovery!CutCopy, Recovery!ToCopy
<1>2. n \in DOMAIN rows /\ Recovery!Current = row /\ faults \in Nat /\ copies # 0
  BY <1>1, CurrentRow DEF RecoveryTypes
<1>3. faults' \in Nat /\ faults' # 0
  BY <1>2 DEF Recovery!CutCopy
<1>4. Writes(n) /\ dirs' \subseteq dirs \cup {row.dest}
  <2>1. CASE UNCHANGED <<dest, dirs>>
    BY <2>1 DEF Writes
  <2>2. CASE Recovery!Mkdir(row) /\ UNCHANGED dest
    BY <2>2 DEF Writes, Recovery!Mkdir
  <2>3. CASE Recovery!Mkdir(row) /\ \E size : Recovery!Place(row, size)
    <3>1. ~Recovery!Present(row)
      BY <1>2 DEF Recovery!CutCopy, Recovery!ToCopy
    <3>2. Writes(n)
      BY <2>3, <3>1, CopyWrites
    <3> QED
      BY <2>3, <3>2 DEF Recovery!Mkdir
  <2> QED
    BY <1>2, <2>1, <2>2, <2>3 DEF Recovery!CutCopy
<1>5. CASE Recovery!Done("failed")
  BY <1>1, <1>2, <1>3, <1>4, <1>5, RowDealtWith
<1>6. CASE copy' = Recovery!Idle
  <2>1. PlacedByRows' /\ DOMAIN dest' = DOMAIN dest
    BY <1>1, <1>2, <1>4, WritesDisturbNothing
  <2>2. copy' \in CopyRecords /\ ~copy'.ended /\ copy'.failed = {} /\ copy'.next = 0
    BY <1>6 DEF Recovery!Idle, Recovery!Roots, CopyRecords
  <2>3. /\ rows \in Seq({Recovery!Row(i) : i \in Bin})' /\ CopyRecords' = CopyRecords
        /\ \A i : RowPlaces(i)' = RowPlaces(i)
    BY <1>1, ManifestStays DEF RecoveryTypes
  <2>4. RecoveryTypes'
    BY <1>1, <1>2, <1>3, <1>4, <2>1, <2>2, <2>3 DEF RecoveryTypes
  <2>5. \A i \in DOMAIN rows : ~(i < 0)
    BY <1>1, RowNumbers
  <2> QED
    BY <1>1, <1>3, <2>1, <2>2, <2>4, <2>5 DEF RecoveryInv, DealtWith, Undisturbed
<1> QED
  BY <1>5, <1>6 DEF Recovery!CutCopy

\* A run begins with no row passed.
LEMMA StartCopyKeepsRecoveryInv ==
  ASSUME RecoveryInv, NEW root \in Recovery!Roots, Recovery!StartCopy(root)
  PROVE  RecoveryInv'
<1>1. RecoveryTypes /\ PlacedByRows /\ Undisturbed /\ rows # <<>>
      /\ UNCHANGED <<catalog, infos, paired, rows, source, dest, dirs, cleanly, faults>>
      /\ copies' = copies + 1
  BY DEF RecoveryInv, Recovery!StartCopy
<1>2. copy' = [next |-> 1, root |-> root, copied |-> {}, skipped |-> {}, failed |-> {}, ended |-> FALSE]
  BY DEF Recovery!StartCopy, Recovery!Idle
<1>3. copy' \in CopyRecords /\ ~copy'.ended /\ copy'.failed = {} /\ copy'.next = 1
  BY <1>2 DEF CopyRecords
<1>4. /\ rows \in Seq({Recovery!Row(i) : i \in Bin})' /\ CopyRecords' = CopyRecords
      /\ \A i : RowPlaces(i)' = RowPlaces(i)
  BY <1>1, ManifestStays DEF RecoveryTypes
<1>5. copies \in Nat /\ copies' \in Nat /\ copies' # 0
  BY <1>1 DEF RecoveryTypes
<1>6. RecoveryTypes'
  BY <1>1, <1>3, <1>4, <1>5 DEF RecoveryTypes
<1>7. \A i \in DOMAIN rows : ~(i < 1)
  BY <1>1, RowNumbers
<1>8. DealtWith' /\ Undisturbed'
  BY <1>1, <1>3, <1>7 DEF DealtWith, Undisturbed
<1>9. PlacedByRows'
  BY <1>1, <1>4 DEF PlacedByRows, Recovery!Absent
<1> QED
  BY <1>6, <1>8, <1>9 DEF RecoveryInv

\* A run that has passed every row has dealt with them all.
LEMMA EndCopyKeepsRecoveryInv ==
  ASSUME RecoveryInv, Recovery!EndCopy
  PROVE  RecoveryInv'
<1>1. RecoveryTypes /\ PlacedByRows /\ DealtWith /\ Undisturbed
      /\ UNCHANGED <<catalog, infos, paired, rows, source, dest, dirs, copies, faults>>
      /\ copy.next > Len(rows) /\ rows # <<>>
      /\ copy' = [copy EXCEPT !.next = 0, !.ended = TRUE]
      /\ cleanly' = (cleanly \/ copy.failed = {})
  BY DEF RecoveryInv, Recovery!EndCopy
<1>2. copy' \in CopyRecords
      /\ copy'.ended /\ copy'.failed = copy.failed /\ copy'.next = 0 /\ copy'.root = copy.root
  <2>1. [copy EXCEPT !.next = 0] \in CopyRecords
    BY <1>1 DEF RecoveryTypes, CopyRecords
  <2>2. copy' = [[copy EXCEPT !.next = 0] EXCEPT !.ended = TRUE]
    BY <1>1 DEF RecoveryTypes, CopyRecords
  <2> QED
    BY <1>1, <2>1, <2>2 DEF CopyRecords
<1>3. /\ rows \in Seq({Recovery!Row(i) : i \in Bin})' /\ CopyRecords' = CopyRecords
      /\ \A i : /\ RowPlaces(i)' = RowPlaces(i)
                /\ Recovery!Shared(i)' <=> Recovery!Shared(i)
                /\ Clashes(i)' <=> Clashes(i)
  BY <1>1, ManifestStays DEF RecoveryTypes
<1>4. Len(rows) \in Nat /\ DOMAIN rows = 1..Len(rows) /\ copy.next \in Nat
  BY <1>1, RowNumbers DEF RecoveryTypes, CopyRecords
<1>5. copies # 0
  <2>1. copy.next # 0
    BY <1>1, <1>4
  <2> QED
    BY <1>1, <2>1 DEF RecoveryTypes, Recovery!Idle
<1>6. RecoveryTypes'
  BY <1>1, <1>2, <1>3, <1>5 DEF RecoveryTypes
<1>7. \A i \in DOMAIN rows : i \in copy.failed \/ Recovery!Shared(i) \/ Whole(i)
  BY <1>1, <1>4 DEF DealtWith
<1>8. DealtWith'
  BY <1>1, <1>2, <1>3, <1>7 DEF DealtWith, Whole
<1>9. PlacedByRows'
  BY <1>1, <1>3 DEF PlacedByRows, Recovery!Absent
<1>10. Undisturbed'
  BY <1>1, <1>2, <1>3 DEF Undisturbed
<1> QED
  BY <1>6, <1>8, <1>9, <1>10 DEF RecoveryInv

\* A source that changes leaves the destinations and the rows alone.
LEMMA SourceChangeKeepsRecoveryInv ==
  ASSUME RecoveryInv, NEW i \in DOMAIN catalog, Recovery!SourceChanges(i)
  PROVE  RecoveryInv'
<1>1. RecoveryTypes /\ PlacedByRows /\ DealtWith
      /\ UNCHANGED <<catalog, infos, paired, rows, dest, dirs, copy, cleanly, copies>>
      /\ faults' = faults + 1
  BY DEF RecoveryInv, Recovery!SourceChanges
<1>2. source' \in [DOMAIN catalog -> Int]
  <2>1. PICK n \in {-1, catalog[i].size + 1} : source' = [source EXCEPT ![i] = n]
    BY DEF Recovery!SourceChanges, Recovery!Unreadable
  <2>2. n \in Int
    BY <1>1, CatalogFacts DEF RecoveryTypes
  <2> QED
    BY <1>1, <2>1, <2>2 DEF RecoveryTypes
<1>3. /\ rows \in Seq({Recovery!Row(k) : k \in Bin})' /\ CopyRecords' = CopyRecords
      /\ \A k : /\ RowPlaces(k)' = RowPlaces(k)
                /\ Recovery!Shared(k)' <=> Recovery!Shared(k)
  BY <1>1, ManifestStays DEF RecoveryTypes
<1>4. faults' \in Nat /\ faults' # 0
  BY <1>1 DEF RecoveryTypes
<1>5. RecoveryTypes'
  BY <1>1, <1>2, <1>3, <1>4 DEF RecoveryTypes, Recovery!Idle
<1>6. PlacedByRows'
  BY <1>1, <1>3 DEF PlacedByRows, Recovery!Absent
<1>7. DealtWith' /\ Undisturbed'
  BY <1>1, <1>3, <1>4 DEF DealtWith, Undisturbed, Whole
<1> QED
  BY <1>5, <1>6, <1>7 DEF RecoveryInv

\* RecoveryInv is kept by every step.
LEMMA RecoveryStep == RecoveryInv /\ [Recovery!Next]_Recovery!vars => RecoveryInv'
<1> SUFFICES ASSUME RecoveryInv, [Recovery!Next]_Recovery!vars
             PROVE  RecoveryInv'
  OBVIOUS
<1>1. CASE UNCHANGED Recovery!vars
  <2>1. UNCHANGED <<catalog, infos, paired, rows, source, dest, dirs, copy, cleanly, copies, faults>>
    BY <1>1 DEF Recovery!vars
  <2>2. /\ rows \in Seq({Recovery!Row(k) : k \in Bin})' /\ CopyRecords' = CopyRecords
        /\ \A k : /\ RowPlaces(k)' = RowPlaces(k)
                  /\ Recovery!Shared(k)' <=> Recovery!Shared(k)
                  /\ Clashes(k)' <=> Clashes(k)
    BY <2>1, ManifestStays DEF RecoveryInv, RecoveryTypes
  <2>3. RecoveryTypes'
    BY <2>1, <2>2 DEF RecoveryInv, RecoveryTypes, Recovery!Idle
  <2>4. PlacedByRows'
    BY <2>1, <2>2 DEF RecoveryInv, PlacedByRows, Recovery!Absent
  <2>5. DealtWith' /\ Undisturbed'
    BY <2>1, <2>2 DEF RecoveryInv, DealtWith, Undisturbed, Whole
  <2> QED
    BY <2>3, <2>4, <2>5 DEF RecoveryInv
<1>2. CASE Recovery!CopyStep
  BY <1>2, RefuseKeepsRecoveryInv, SkipKeepsRecoveryInv, BlockedKeepsRecoveryInv, CopyFileKeepsRecoveryInv,
     CopyFailsKeepsRecoveryInv DEF Recovery!CopyStep
<1> QED
  BY <1>1, <1>2, PairKeepsRecoveryInv, StartCopyKeepsRecoveryInv, CutKeepsRecoveryInv,
     EndCopyKeepsRecoveryInv, SourceChangeKeepsRecoveryInv DEF Recovery!Next

\* RecoveryInv implies what the run checks.
LEMMA RecoveryInvSuffices == RecoveryInv => RecoveryInvariant
<1> SUFFICES ASSUME RecoveryInv
             PROVE  RecoveryInvariant
  OBVIOUS
<1>1. RecoveryTypes /\ DealtWith /\ Undisturbed
  BY DEF RecoveryInv
<1>2. Recovery!ClashesExplained
  <2> SUFFICES ASSUME NEW i \in DOMAIN rows, NEW j \in DOMAIN rows, Recovery!Clash(i, j)
               PROVE  /\ rows[i].ok = rows[j].ok
                      /\ IF rows[i].ok
                         THEN Recovery!Comparable(Recovery!Meta(catalog[rows[i].src]).at, Recovery!Meta(catalog[rows[j].src]).at)
                         ELSE catalog[rows[i].src].name = catalog[rows[j].src].name
    BY DEF Recovery!ClashesExplained
  <2> DEFINE a == rows[i].src
  <2> DEFINE b == rows[j].src
  <2>1. /\ a \in Bin /\ rows[i].dest = Recovery!Top(catalog[a]) \o catalog[a].sub
        /\ rows[i].ok = (Recovery!Meta(catalog[a]) # Recovery!NoInfo)
        /\ b \in Bin /\ rows[j].dest = Recovery!Top(catalog[b]) \o catalog[b].sub
        /\ rows[j].ok = (Recovery!Meta(catalog[b]) # Recovery!NoInfo)
    BY <1>1, RowFacts
  <2> HIDE DEF a, b
  <2>2. catalog[a].sub \in Seq(Words) /\ catalog[b].sub \in Seq(Words)
    BY <1>1, <2>1, CatalogFacts DEF RecoveryTypes, Bin
  <2> DEFINE top(k) == Recovery!Top(catalog[k])
  <2> DEFINE meta(k) == Recovery!Meta(catalog[k])
  <2>3. \A k \in Bin :
          /\ top(k) \in Seq(Words)
          /\ meta(k) # Recovery!NoInfo => top(k) = meta(k).at /\ 1 \in DOMAIN top(k) /\ top(k)[1] # "_orphaned"
          /\ meta(k) = Recovery!NoInfo =>
               DOMAIN top(k) = {1, 2} /\ top(k)[1] = "_orphaned" /\ top(k)[2] = catalog[k].name
    BY <1>1, TopFacts DEF RecoveryTypes
  <2>4. Recovery!Comparable(top(a) \o catalog[a].sub, top(b) \o catalog[b].sub)
    BY <2>1 DEF Recovery!Clash
  <2> HIDE DEF top, meta
  <2>5. Recovery!Comparable(top(a), top(b))
    BY <2>1, <2>2, <2>3, <2>4, TopsCompare
  <2>6. (meta(a) # Recovery!NoInfo) = (meta(b) # Recovery!NoInfo)
    BY <2>1, <2>3, <2>5 DEF Recovery!Comparable
  <2>7. meta(a) # Recovery!NoInfo => Recovery!Comparable(meta(a).at, meta(b).at)
    BY <2>1, <2>3, <2>5, <2>6
  <2>8. meta(a) = Recovery!NoInfo => catalog[a].name = catalog[b].name
    BY <2>1, <2>3, <2>5, <2>6 DEF Recovery!Comparable
  <2> QED
    BY <2>1, <2>6, <2>7, <2>8 DEF a, b, meta
<1>3. Recovery!RecoveredOrReported
  BY <1>1 DEF DealtWith, Whole, Recovery!RecoveredOrReported
<1>4. Recovery!NothingRefused
  BY <1>1 DEF Undisturbed, Clashes, Recovery!NothingRefused
<1> QED
  BY <1>2, <1>3, <1>4 DEF RecoveryInvariant, Recovery!RecoveryInvariant

\* What the desk does to the recovery's variables is a behaviour of the recovery.
LEMMA DeskRunsTheRecovery == DeskSpec => Recovery!Spec
<1>1. DeskInit => Recovery!Init
  BY DEF DeskInit
<1>2. [DeskNext]_deskVars => [Recovery!Next]_Recovery!vars
  BY DEF DeskNext, deskVars, recoveryVars, Recovery!vars
<1> QED
  BY <1>1, <1>2, PTL DEF DeskSpec, Recovery!Spec

\* Whatever the catalogue and the $I files, and whatever copy is cut, source changed
\* or run repeated: two items clash only for a reason their $I files show, and when a
\* run ends a file with a destination of its own is there whole or reported; without a
\* fault a row fails only if it clashes with another (recovery.py).
THEOREM EveryFileRecoveredOrReported == DeskSpec => []RecoveryInvariant
  BY RecoveryInitially, RecoveryStep, RecoveryInvSuffices, DeskRunsTheRecovery, PTL DEF Recovery!Spec

\* While no two rows share a destination: what a run without failures has passed is
\* present, and everything is after such a run.
PassedIsPresent ==
    Recovery!NoCollisions =>
        /\ copy.failed = {} => \A i \in DOMAIN rows : (copy.ended \/ i < copy.next) => Recovery!Present(rows[i])
        /\ cleanly => \A i \in DOMAIN rows : Recovery!Present(rows[i])

\* What is present stays so when another row is copied to its own destination.
LEMMA PresentStays ==
  ASSUME RecoveryTypes, UNCHANGED rows, Recovery!NoCollisions, NEW i \in DOMAIN rows, NEW n \in DOMAIN rows,
         Recovery!Present(rows[i]), dirs \subseteq dirs',
         UNCHANGED dest \/ (i # n /\ \E was : dest' = [dest EXCEPT ![rows[n].dest] = was])
  PROVE  Recovery!Present(rows[i])'
<1>1. rows[i].dest \in DOMAIN dest
  BY DEF RecoveryTypes, RowPlaces
<1>2. DOMAIN dest' = DOMAIN dest /\ dest'[rows[i].dest] = dest[rows[i].dest]
  <2>1. i # n => rows[i].dest # rows[n].dest
    BY DEF Recovery!NoCollisions, Recovery!Collide
  <2> QED
    BY <1>1, <2>1
<1>3. Recovery!IsFile(rows[i].dest)' <=> Recovery!IsFile(rows[i].dest)
  BY <1>2 DEF Recovery!IsFile, Recovery!Absent
<1>4. Recovery!IsDir(rows[i].dest) => Recovery!IsDir(rows[i].dest)'
  BY DEF Recovery!IsDir, Recovery!Above, Recovery!Comparable
<1> QED
  BY <1>2, <1>3, <1>4 DEF Recovery!Present

\* A step of the run on a row that fails, is present or is copied.
LEMMA PassedStaysPresent ==
  ASSUME RecoveryTypes, Recovery!InRun, UNCHANGED <<rows, cleanly>>, PassedIsPresent, dirs \subseteq dirs',
         NEW n, n = copy.next, NEW what \in {"copied", "skipped", "failed"}, Recovery!Done(what),
         what = "failed" \/ Recovery!Present(rows[n])',
         cleanly /\ Recovery!NoCollisions => UNCHANGED dest,
         what = "failed" \/ UNCHANGED dest \/ \E was : dest' = [dest EXCEPT ![rows[n].dest] = was]
  PROVE  PassedIsPresent'
<1>1. /\ n \in DOMAIN rows /\ n \in Nat /\ ~copy.ended /\ DOMAIN rows \subseteq Nat
      /\ copy'.next = n + 1 /\ ~copy'.ended
      /\ copy'.failed = IF what = "failed" THEN copy.failed \cup {n} ELSE copy.failed
  <2>1. n \in DOMAIN rows /\ n \in Nat /\ ~copy.ended
    BY CurrentRow
  <2>2. DOMAIN rows \subseteq Nat
    BY RowNumbers
  <2>3. /\ copy'.next = n + 1 /\ ~copy'.ended
        /\ copy'.failed = IF what = "failed" THEN copy.failed \cup {n} ELSE copy.failed
    BY DoneIsTyped
  <2> QED
    BY <2>1, <2>2, <2>3
<1>2. Recovery!NoCollisions' <=> Recovery!NoCollisions
  BY DEF Recovery!NoCollisions, Recovery!Collide
<1> SUFFICES ASSUME Recovery!NoCollisions
             PROVE  /\ copy'.failed = {} => \A i \in DOMAIN rows : i < n + 1 => Recovery!Present(rows[i])'
                    /\ cleanly => \A i \in DOMAIN rows : Recovery!Present(rows[i])'
  BY <1>1, <1>2 DEF PassedIsPresent
<1>3. ASSUME copy'.failed = {}, NEW i \in DOMAIN rows, i < n + 1
      PROVE  Recovery!Present(rows[i])'
  <2>1. copy.failed = {} /\ what # "failed"
    BY <1>1, <1>3
  <2>2. CASE i = n
    BY <2>1, <2>2
  <2>3. CASE i # n
    <3>1. i < copy.next
      BY <1>1, <1>3, <2>3
    <3>2. Recovery!Present(rows[i])
      BY <2>1, <3>1 DEF PassedIsPresent
    <3> QED
      BY <1>1, <2>1, <2>3, <3>2, PresentStays
  <2> QED
    BY <2>2, <2>3
<1>4. ASSUME cleanly, NEW i \in DOMAIN rows
      PROVE  Recovery!Present(rows[i])'
  <2>1. Recovery!Present(rows[i]) /\ UNCHANGED dest
    BY <1>4 DEF PassedIsPresent
  <2> QED
    BY <1>1, <2>1, PresentStays
<1> QED
  BY <1>3, <1>4

\* After a clean run nothing is left to copy.
LEMMA NothingToCopy ==
  ASSUME RecoveryTypes, PassedIsPresent, cleanly, Recovery!NoCollisions
  PROVE  ~Recovery!ToCopy
<1> SUFFICES ASSUME Recovery!ToCopy
             PROVE  FALSE
  OBVIOUS
<1>1. copy.next \in DOMAIN rows /\ Recovery!Current = rows[copy.next]
  BY CurrentRow DEF Recovery!ToCopy
<1> QED
  BY <1>1 DEF Recovery!ToCopy, PassedIsPresent

\* PassedIsPresent is kept by every step.
LEMMA PassedStep ==
  ASSUME RecoveryInv, PassedIsPresent, [Recovery!Next]_Recovery!vars
  PROVE  PassedIsPresent'
<1>0. RecoveryTypes
  BY DEF RecoveryInv
<1> PICK n : n = copy.next
  OBVIOUS
<1>1. CASE Recovery!Pair
  <2>1. copy' = Recovery!Idle /\ ~cleanly' /\ RecoveryTypes'
    BY <1>0, <1>1, PairKeepsRecoveryInv DEF Recovery!Pair, RecoveryTypes, RecoveryInv
  <2>2. copy'.next = 0 /\ ~copy'.ended
    BY <2>1 DEF Recovery!Idle
  <2>3. \A i \in DOMAIN rows' : ~(i < 0)
    <3> DEFINE made == {Recovery!Row(i)' : i \in Bin'}
    <3>1. rows' \in Seq(made)
      BY <2>1 DEF RecoveryTypes
    <3> HIDE DEF made
    <3> QED
      BY <3>1
  <2> QED
    BY <2>1, <2>2, <2>3 DEF PassedIsPresent
<1>2. ASSUME UNCHANGED <<rows, dest, dirs, cleanly>>, copy' = copy \/ (~copy'.ended /\ copy'.next \in {0, 1})
      PROVE  PassedIsPresent'
  <2>1. \A i \in DOMAIN rows : Recovery!Present(rows[i])' <=> Recovery!Present(rows[i])
    BY <1>2 DEF Recovery!Present, Recovery!IsFile, Recovery!IsDir, Recovery!Above, Recovery!Comparable, Recovery!Absent
  <2>2. Recovery!NoCollisions' <=> Recovery!NoCollisions
    BY <1>2 DEF Recovery!NoCollisions, Recovery!Collide
  <2>3. \A i \in DOMAIN rows : ~(i < 0) /\ ~(i < 1)
    BY <1>0, RowNumbers
  <2> QED
    BY <1>2, <2>1, <2>2, <2>3 DEF PassedIsPresent
<1>3. CASE \E root \in Recovery!Roots : Recovery!StartCopy(root)
  BY <1>2, <1>3 DEF Recovery!StartCopy, Recovery!Idle
<1>4. CASE Recovery!CopyStep
  <2>1. Recovery!InRun /\ UNCHANGED <<rows, cleanly>> /\ n \in DOMAIN rows /\ Recovery!Current = rows[n]
        /\ rows[n].dest \in DOMAIN dest
    BY <1>0, <1>4, CurrentRow DEF Recovery!CopyStep, Recovery!Refuse, Recovery!Skip, Recovery!CopyBlocked,
       Recovery!CopyFile, Recovery!CopyFails, Recovery!ToCopy, RowPlaces
  <2>2. CASE Recovery!Refuse \/ Recovery!CopyBlocked
    BY <1>0, <2>1, <2>2, PassedStaysPresent DEF Recovery!Refuse, Recovery!CopyBlocked
  <2>3. CASE Recovery!Skip
    <3>1. Recovery!Present(rows[n])
      BY <2>1, <2>3 DEF Recovery!Skip
    <3>2. Recovery!Present(rows[n])'
      BY <2>1, <2>3, <3>1 DEF Recovery!Skip, Recovery!Present, Recovery!IsFile, Recovery!IsDir,
         Recovery!Above, Recovery!Comparable, Recovery!Absent
    <3>3. Recovery!Done("skipped") /\ UNCHANGED <<dest, dirs>>
      BY <2>3 DEF Recovery!Skip
    <3> QED
      BY <1>0, <2>1, <3>2, <3>3, PassedStaysPresent
  <2>4. CASE Recovery!CopyFails \/ Recovery!CopyFile
    <3>1. ~(cleanly /\ Recovery!NoCollisions)
      BY <1>0, <2>4, NothingToCopy DEF Recovery!CopyFails, Recovery!CopyFile
    <3>2. dirs \subseteq dirs'
      BY <2>4 DEF Recovery!CopyFails, Recovery!CopyFile, Recovery!Mkdir
    <3>3. CASE Recovery!Done("failed")
      BY <1>0, <2>1, <3>1, <3>2, <3>3, PassedStaysPresent
    <3>4. CASE ~Recovery!IsDir(rows[n].dest) /\ Recovery!Done("copied") /\ Recovery!Place(rows[n], rows[n].size)
      <4>1. dest' = [dest EXCEPT ![rows[n].dest] = [of |-> rows[n].src, size |-> rows[n].size]]
        BY <3>4 DEF Recovery!Place, Recovery!Target
      <4>2. dest'[rows[n].dest] = [of |-> rows[n].src, size |-> rows[n].size] /\ DOMAIN dest' = DOMAIN dest
        BY <2>1, <4>1
      <4>3. Recovery!Absent.of = 0 /\ rows[n].src # 0
        BY <1>0, <2>1, RowFacts DEF Recovery!Absent
      <4>4. Recovery!Present(rows[n])'
        <5>1. dest'[rows[n].dest] # Recovery!Absent /\ dest'[rows[n].dest].size = rows[n].size
          BY <4>2, <4>3
        <5> QED
          BY <2>1, <4>2, <5>1 DEF Recovery!Present, Recovery!IsFile, Recovery!Absent
      <4> QED
        BY <1>0, <2>1, <3>1, <3>2, <3>4, <4>1, <4>4, PassedStaysPresent
    <3> QED
      BY <2>1, <2>4, <3>3, <3>4 DEF Recovery!CopyFails, Recovery!CopyFile, Recovery!Verified
  <2> QED
    BY <1>4, <2>2, <2>3, <2>4 DEF Recovery!CopyStep
<1>5. CASE Recovery!CutCopy
  <2>1. Recovery!InRun /\ UNCHANGED <<rows, cleanly>> /\ ~(cleanly /\ Recovery!NoCollisions)
    BY <1>0, <1>5, NothingToCopy DEF Recovery!CutCopy, Recovery!ToCopy
  <2>2. dirs \subseteq dirs'
    BY <1>5 DEF Recovery!CutCopy, Recovery!Mkdir
  <2>3. CASE Recovery!Done("failed")
    BY <1>0, <2>1, <2>2, <2>3, PassedStaysPresent
  <2>4. CASE copy' = Recovery!Idle
    <3>1. copy'.next = 0 /\ ~copy'.ended
      BY <2>4 DEF Recovery!Idle
    <3>2. \A i \in DOMAIN rows : ~(i < 0)
      BY <1>0, RowNumbers
    <3>3. Recovery!NoCollisions' <=> Recovery!NoCollisions
      BY <2>1 DEF Recovery!NoCollisions, Recovery!Collide
    <3> QED
      BY <2>1, <3>1, <3>2, <3>3 DEF PassedIsPresent
  <2> QED
    BY <1>5, <2>3, <2>4 DEF Recovery!CutCopy
<1>6. CASE Recovery!EndCopy
  <2>1. /\ UNCHANGED <<rows, dest, dirs>> /\ copy.next > Len(rows)
        /\ copy'.failed = copy.failed /\ copy'.next = 0 /\ cleanly' = (cleanly \/ copy.failed = {})
    BY <1>0, <1>6 DEF Recovery!EndCopy, RecoveryTypes, CopyRecords
  <2>2. copy.next \in Nat /\ Len(rows) \in Nat /\ DOMAIN rows = 1..Len(rows)
    BY <1>0, RowNumbers DEF RecoveryTypes, CopyRecords
  <2>3. \A i \in DOMAIN rows : Recovery!Present(rows[i])' <=> Recovery!Present(rows[i])
    BY <2>1 DEF Recovery!Present, Recovery!IsFile, Recovery!IsDir, Recovery!Above, Recovery!Comparable, Recovery!Absent
  <2>4. Recovery!NoCollisions' <=> Recovery!NoCollisions
    BY <2>1 DEF Recovery!NoCollisions, Recovery!Collide
  <2>5. \A i \in DOMAIN rows : i < copy.next
    BY <2>1, <2>2
  <2> QED
    BY <2>1, <2>3, <2>4, <2>5 DEF PassedIsPresent
<1>7. CASE (\E i \in DOMAIN catalog : Recovery!SourceChanges(i)) \/ UNCHANGED Recovery!vars
  BY <1>2, <1>7 DEF Recovery!SourceChanges, Recovery!vars
<1> QED
  BY <1>1, <1>3, <1>4, <1>5, <1>6, <1>7 DEF Recovery!Next

\* Once a run has ended cleanly, a step copies no row.
LEMMA NothingLeftToCopy ==
  ASSUME RecoveryInv, PassedIsPresent, [Recovery!Next]_Recovery!vars, cleanly, Recovery!NoCollisions
  PROVE  copy'.copied = {} \/ copy'.copied = copy.copied
<1>1. RecoveryTypes /\ ~Recovery!ToCopy
  BY NothingToCopy DEF RecoveryInv
<1>3. CASE Recovery!CopyStep
  <2>1. Recovery!InRun /\ UNCHANGED rows /\ (Recovery!Done("failed") \/ Recovery!Done("skipped"))
    BY <1>1, <1>3 DEF Recovery!CopyStep, Recovery!Refuse, Recovery!Skip, Recovery!CopyBlocked, Recovery!CopyFile,
                      Recovery!CopyFails
  <2> QED
    BY <1>1, <2>1, DoneIsTyped
<1>4. CASE \E root \in Recovery!Roots : Recovery!StartCopy(root)
  BY <1>4 DEF Recovery!StartCopy, Recovery!Idle
<1>5. CASE Recovery!EndCopy
  BY <1>1, <1>5 DEF Recovery!EndCopy, RecoveryTypes, CopyRecords
<1>6. CASE Recovery!CutCopy
  BY <1>1, <1>6 DEF Recovery!CutCopy
<1>7. CASE UNCHANGED copy
  BY <1>7
<1> QED
  BY <1>3, <1>4, <1>5, <1>6, <1>7
  DEF Recovery!Next, Recovery!vars, Recovery!Pair, Recovery!SourceChanges

\* A run after a clean one copies nothing, if no two rows share a destination
\* (recovery.py, copy_from_manifest).
THEOREM ASecondRunCopiesNothing == DeskSpec => ReinvokedCopiesNothing
<1>1. RecoveryInv /\ PassedIsPresent /\ [Recovery!Next]_Recovery!vars =>
        [cleanly /\ Recovery!NoCollisions => copy'.copied = {} \/ copy'.copied = copy.copied]_Recovery!vars
  BY NothingLeftToCopy
<1>2. Recovery!Init => PassedIsPresent
  BY DEF Recovery!Init, PassedIsPresent
<1>3. RecoveryInv /\ PassedIsPresent /\ [Recovery!Next]_Recovery!vars => PassedIsPresent'
  BY PassedStep
<1> QED
  BY <1>1, <1>2, <1>3, RecoveryInitially, RecoveryStep, DeskRunsTheRecovery, PTL
  DEF Recovery!Spec, ReinvokedCopiesNothing, Recovery!ReinvokedCopiesNothing

\* ---- lists of jobs

\* Cardinality is the same operator in every module.
LEMMA SameCardinality == \A S : Jobs!Cardinality(S) = Cardinality(S)
  BY DEF Jobs!Cardinality, Cardinality
\* The definition of Rank, under its name in the instance.
LEMMA RankIs == \A S, i : Jobs!Rank(S, i) = Cardinality({j \in S : j <= i})
  BY SameCardinality DEF Jobs!Rank
\* The definition of Ascending, under its name in the instance.
LEMMA AscendingIs ==
  \A S : Jobs!Ascending(S) = [k \in 1..Cardinality(S) |-> CHOOSE i \in S : Jobs!Rank(S, i) = k]
  BY SameCardinality DEF Jobs!Ascending

\* A rank counts from 1.
LEMMA RankCounts ==
  ASSUME NEW S \in SUBSET Int, IsFiniteSet(S), NEW i \in S
  PROVE  Jobs!Rank(S, i) \in 1..Cardinality(S)
<1> DEFINE below == {j \in S : j <= i}
<1>1. below \in SUBSET S /\ i \in below
  OBVIOUS
<1>2. IsFiniteSet(below) /\ Cardinality(below) <= Cardinality(S)
  BY <1>1, FS_Subset
<1>3. Cardinality(below) \in Nat /\ Cardinality(S) \in Nat /\ Cardinality(below) # 0
  BY <1>1, <1>2, FS_CardinalityType, FS_EmptySet
<1> HIDE DEF below
<1>4. Cardinality(below) \in 1..Cardinality(S)
  BY <1>2, <1>3
<1> QED
  BY <1>4, RankIs DEF below

\* A greater member has a greater rank.
LEMMA RankGrows ==
  ASSUME NEW S \in SUBSET Int, IsFiniteSet(S), NEW i \in S, NEW j \in S, i < j
  PROVE  Jobs!Rank(S, i) < Jobs!Rank(S, j)
<1> DEFINE lower == {l \in S : l <= i}
           upper == {l \in S : l <= j}
<1>1. lower \in SUBSET upper /\ upper \in SUBSET S /\ j \in upper /\ j \notin lower
  <2>1. i \in Int /\ j \in Int /\ \A l \in S : l \in Int
    OBVIOUS
  <2>2. j \in upper /\ j \notin lower /\ upper \in SUBSET S
    BY <2>1
  <2>3. \A l \in lower : l \in upper
    BY <2>1
  <2> QED
    BY <2>2, <2>3
<1>2. IsFiniteSet(upper) /\ IsFiniteSet(lower)
  <2>1. IsFiniteSet(upper)
    BY <1>1, FS_Subset
  <2> QED
    BY <1>1, <2>1, FS_Subset
<1>3. Cardinality(lower) <= Cardinality(upper) /\ Cardinality(lower) # Cardinality(upper)
  BY <1>1, <1>2, FS_Subset
<1>4. Cardinality(lower) \in Nat /\ Cardinality(upper) \in Nat
  BY <1>2, FS_CardinalityType
<1> HIDE DEF lower, upper
<1>5. Cardinality(lower) < Cardinality(upper)
  BY <1>3, <1>4
<1> QED
  BY <1>5, RankIs DEF lower, upper

\* Ascending lists each member once, the smaller before the greater.
LEMMA AscendingLists ==
  ASSUME NEW S \in SUBSET Int, IsFiniteSet(S)
  PROVE  /\ Jobs!Ascending(S) \in [1..Cardinality(S) -> S]
         /\ \A i \in S : /\ Jobs!Rank(S, i) \in 1..Cardinality(S)
                         /\ Jobs!Ascending(S)[Jobs!Rank(S, i)] = i
         /\ \A k, l \in 1..Cardinality(S) : k < l => Jobs!Ascending(S)[k] < Jobs!Ascending(S)[l]
<1> DEFINE n == Cardinality(S)
           rank == [i \in S |-> Jobs!Rank(S, i)]
<1>1. n \in Nat
  BY FS_CardinalityType
<1>2. rank \in [S -> 1..n]
  BY RankCounts
<1>3. \A i, j \in S : i < j => rank[i] < rank[j]
  BY RankGrows
<1>4. \A i, j \in S : rank[i] = rank[j] => i = j
  <2> HIDE DEF rank
  <2> SUFFICES ASSUME NEW i \in S, NEW j \in S, rank[i] = rank[j], i # j
               PROVE  FALSE
    OBVIOUS
  <2>1. i < j \/ j < i
    OBVIOUS
  <2>2. rank[i] \in Int /\ rank[j] \in Int
    BY <1>1, <1>2
  <2> QED
    BY <1>3, <2>1, <2>2
<1>5. \A k \in 1..n : \E i \in S : rank[i] = k
  <2> HIDE DEF rank
  <2>1. rank \in Injection(S, 1..n)
    BY <1>2, <1>4 DEF Injection, IsInjective
  <2>2. IsFiniteSet(1..n) /\ Cardinality(1..n) = n
    BY <1>1, FS_Interval
  <2>3. rank \in Surjection(S, 1..n)
    BY <2>1, <2>2, FS_Injection
  <2> QED
    BY <2>3 DEF Surjection
<1>6. \A k \in 1..n : Jobs!Ascending(S)[k] \in S /\ rank[Jobs!Ascending(S)[k]] = k
  <2> TAKE k \in 1..n
  <2>1. Jobs!Ascending(S)[k] = CHOOSE i \in S : Jobs!Rank(S, i) = k
    BY AscendingIs
  <2>2. \E i \in S : Jobs!Rank(S, i) = k
    BY <1>5
  <2>3. (CHOOSE i \in S : Jobs!Rank(S, i) = k) \in S /\ Jobs!Rank(S, CHOOSE i \in S : Jobs!Rank(S, i) = k) = k
    BY <2>2
  <2> QED
    BY <2>1, <2>3
<1>7. Jobs!Ascending(S) \in [1..n -> S]
  BY <1>6, AscendingIs
<1>8. \A i \in S : Jobs!Rank(S, i) \in 1..n /\ Jobs!Ascending(S)[Jobs!Rank(S, i)] = i
  <2> TAKE i \in S
  <2>1. rank[i] \in 1..n /\ rank[i] = Jobs!Rank(S, i)
    BY <1>2
  <2>2. Jobs!Ascending(S)[rank[i]] \in S /\ rank[Jobs!Ascending(S)[rank[i]]] = rank[i]
    BY <1>6, <2>1
  <2> HIDE DEF rank
  <2> QED
    BY <1>4, <2>1, <2>2
<1>9. ASSUME NEW k \in 1..n, NEW l \in 1..n, k < l
      PROVE  Jobs!Ascending(S)[k] < Jobs!Ascending(S)[l]
  <2>1. PICK i \in S, j \in S : /\ i = Jobs!Ascending(S)[k] /\ j = Jobs!Ascending(S)[l]
                                /\ rank[i] = k /\ rank[j] = l
    BY <1>6
  <2> HIDE DEF rank
  <2>2. i \in Int /\ j \in Int /\ k \in Int /\ l \in Int
    OBVIOUS
  <2>3. ~(j < i) /\ i # j
    BY <1>3, <1>9, <2>1, <2>2
  <2> QED
    BY <2>1, <2>2, <2>3
<1> QED
  BY <1>7, <1>8, <1>9

\* What is kept of a sequence: only elements at the places that are kept, each place once.
LEMMA KeptParts ==
  ASSUME NEW R, NEW s \in Seq(R), NEW I \in SUBSET DOMAIN s
  PROVE  /\ Jobs!Kept(s, I) \in Seq(R)
         /\ \A k \in DOMAIN Jobs!Kept(s, I) : \E i \in I : Jobs!Kept(s, I)[k] = s[i]
         /\ \A i \in I : \E k \in DOMAIN Jobs!Kept(s, I) : Jobs!Kept(s, I)[k] = s[i]
         /\ \A k, l \in DOMAIN Jobs!Kept(s, I) : k < l =>
              \E i, j \in I : i < j /\ Jobs!Kept(s, I)[k] = s[i] /\ Jobs!Kept(s, I)[l] = s[j]
<1>1. I \in SUBSET Int /\ IsFiniteSet(I)
  <2>1. Len(s) \in Nat /\ DOMAIN s = 1..Len(s)
    OBVIOUS
  <2>2. IsFiniteSet(1..Len(s))
    BY <2>1, FS_Interval
  <2> QED
    BY <2>1, <2>2, FS_Subset
<1>2. Cardinality(I) \in Nat
  BY <1>1, FS_CardinalityType
<1>3. Jobs!Ascending(I) \in [1..Cardinality(I) -> I]
  BY <1>1, AscendingLists
<1>4. Jobs!Kept(s, I) = [k \in 1..Cardinality(I) |-> s[Jobs!Ascending(I)[k]]]
  BY <1>3 DEF Jobs!Kept
<1>5. Jobs!Kept(s, I) \in Seq(R)
  <2>1. \A k \in 1..Cardinality(I) : s[Jobs!Ascending(I)[k]] \in R
    BY <1>3
  <2> QED
    BY <1>2, <1>4, <2>1
<1>6. \A k \in DOMAIN Jobs!Kept(s, I) : \E i \in I : Jobs!Kept(s, I)[k] = s[i]
  BY <1>3, <1>4
<1>7. \A i \in I : \E k \in DOMAIN Jobs!Kept(s, I) : Jobs!Kept(s, I)[k] = s[i]
  <2> TAKE i \in I
  <2>1. Jobs!Rank(I, i) \in 1..Cardinality(I) /\ Jobs!Ascending(I)[Jobs!Rank(I, i)] = i
    BY <1>1, AscendingLists
  <2> QED
    BY <1>4, <2>1
<1>8. ASSUME NEW k \in DOMAIN Jobs!Kept(s, I), NEW l \in DOMAIN Jobs!Kept(s, I), k < l
      PROVE  \E i, j \in I : i < j /\ Jobs!Kept(s, I)[k] = s[i] /\ Jobs!Kept(s, I)[l] = s[j]
  <2>1. k \in 1..Cardinality(I) /\ l \in 1..Cardinality(I)
    BY <1>4
  <2>2. Jobs!Ascending(I)[k] \in I /\ Jobs!Ascending(I)[l] \in I /\ Jobs!Ascending(I)[k] < Jobs!Ascending(I)[l]
    BY <1>1, <1>3, <1>8, <2>1, AscendingLists
  <2> QED
    BY <1>4, <2>1, <2>2
<1> QED
  BY <1>5, <1>6, <1>7, <1>8

\* ---- scan jobs

JobSet == [pid : Pids, output : Catalogs, scan : Nat \ {0}]
AnyJob == JobSet \cup {Jobs!NoJob}
JobOps == [kind : {"add", "remove", "prune"}, job : AnyJob, attach : BOOLEAN]
Views == [job : AnyJob, paused : BOOLEAN, says : {"attaching", "scanning", "paused", "complete", "stopped"},
          todo : Seq(JobOps), step : {"idle", "loaded", "truncated"},
          jobs : Seq(JobSet), base : Seq(JobSet)]
Processes == [output : Catalogs, scan : Nat \ {0}, signal : {"none", "INT", "TERM"}] \cup {Jobs!NoProcess}

JobTypes ==
    /\ process \in [Pids -> Processes] /\ banner \in [Catalogs -> SUBSET Nat]
    /\ registry \in Seq(JobSet) /\ view \in [Apps -> Views] /\ scans \in Nat
    /\ blank \in BOOLEAN

\* A list of jobs names a pid once.
OncePerPid(jobs) == \A i, j \in DOMAIN jobs : jobs[i].pid = jobs[j].pid => i = j

\* What runs under a pid and was not exposed by a mishap.
Trusted(p) == process[p] # Jobs!NoProcess /\ process[p].scan \notin exposed

\* The job is of a scan that was started; if that scan runs it has the job's pid, and
\* what runs under the pid is that scan unless it is exposed.
Believable(j) ==
    /\ j.scan <= scans
    /\ \A p \in Pids : process[p].scan = j.scan => p = j.pid
    /\ Trusted(j.pid) => process[j.pid].scan = j.scan

\* Whatever runs under the job's pid has been told to stop.
ToldToStop(j) == Trusted(j.pid) => process[j.pid].signal # "none"

\* A scan that a later TUI is to find.
Wanted(p) == Trusted(p) /\ process[p].signal = "none"
In(jobs, p, s) == \E i \in DOMAIN jobs : jobs[i].pid = p /\ jobs[i].scan = s

\* What a screen says of its scan, and what it is about to do.
ViewIsSane(v) ==
    /\ v.job # Jobs!NoJob => Believable(v.job)
    /\ v.paused => v.job # Jobs!NoJob /\ ToldToStop(v.job)
    /\ v.says = "complete" =>
         /\ v.job # Jobs!NoJob /\ banner[v.job.output] # {}
         /\ \A p \in Pids : process[p].scan # v.job.scan
TodoIsSane(v) ==
    \A i \in DOMAIN v.todo :
        /\ v.todo[i].kind # "prune" => v.todo[i].job # Jobs!NoJob /\ Believable(v.todo[i].job)
        /\ v.todo[i].kind = "remove" => ToldToStop(v.todo[i].job)
        /\ v.todo[i].attach => v.says # "complete" /\ ~v.paused

\* What a screen is about to save has every job that it loaded and that a later TUI
\* is to find, and the job that it adds.
JobsAreSane(v) ==
    /\ OncePerPid(v.jobs)
    /\ \A i \in DOMAIN v.jobs : Believable(v.jobs[i])
    /\ v.step # "idle" =>
         /\ v.todo # <<>>
         /\ v.todo[1].kind = "add" => \E k \in DOMAIN v.jobs : v.jobs[k] = v.todo[1].job
    /\ v.step = "loaded" => \A i \in DOMAIN v.base : LET p == v.base[i].pid IN
         /\ v.base[i].scan <= scans
         /\ process[p].scan = v.base[i].scan /\ Wanted(p) => In(v.jobs, p, v.base[i].scan)

ScreenIsSane(v) == ViewIsSane(v) /\ TodoIsSane(v) /\ JobsAreSane(v)
ScreensAreSane == \A a \in Apps, v \in Views : v = view[a] => ScreenIsSane(v)

RegistryIsSane ==
    /\ OncePerPid(registry)
    /\ \A j \in JobSet : (\E i \in DOMAIN registry : registry[i] = j) => Believable(j)
    /\ \A p \in Pids : process[p].scan <= scans
    /\ blank => registry = <<>>

\* A scan that a later TUI is to find is in the registry, about to be written there,
\* or about to be registered.
ScansAreRegistered ==
    \A p \in Pids : Wanted(p) /\ ~Jobs!AboutToRegister(p) =>
        \/ In(registry, p, process[p].scan)
        \/ \E a \in Apps : view[a].step = "truncated" /\ In(view[a].jobs, p, process[p].scan)

JobInv == JobTypes /\ RegistryIsSane /\ ScreensAreSane /\ ScansAreRegistered

\* No process and no job are of no scan.
LEMMA NoScan == Jobs!NoProcess.scan = 0 /\ Jobs!NoJob.pid = 0
  BY Zenon DEF Jobs!NoProcess, Jobs!NoJob

\* Where nothing runs there is no scan.
LEMMA RunningHasScan ==
  JobTypes => \A p \in Pids : /\ process[p] \in Processes /\ process[p].scan \in Nat
                              /\ process[p] # Jobs!NoProcess <=> process[p].scan # 0
<1> SUFFICES ASSUME JobTypes, NEW p \in Pids
             PROVE  /\ process[p] \in Processes /\ process[p].scan \in Nat
                    /\ process[p] # Jobs!NoProcess <=> process[p].scan # 0
  OBVIOUS
<1>1. process[p] \in Processes
  BY DEF JobTypes
<1>2. Jobs!NoProcess.scan = 0
  BY NoScan
<1>3. process[p] = Jobs!NoProcess \/ process[p].scan \in Nat \ {0}
  BY <1>1 DEF Processes
<1> QED
  BY <1>1, <1>2, <1>3

\* What a step may do to the processes without making a job unbelievable: end some,
\* signal some, start a later scan under another pid.
WorldMoves(j) ==
    /\ scans <= scans' /\ exposed \subseteq exposed'
    /\ \A p \in Pids :
         \/ process'[p] = process[p]
         \/ process'[p] = Jobs!NoProcess
         \/ /\ process[p] # Jobs!NoProcess /\ process'[p].scan = process[p].scan
            /\ process'[p].signal # "none"
         \/ /\ process'[p].scan > scans
            /\ process'[p].scan \in exposed' \/ j.pid # p

\* A job stays believable, and told to stop.
LEMMA BelievableStays ==
  ASSUME JobTypes, JobTypes', NEW j \in JobSet, Believable(j), WorldMoves(j)
  PROVE  /\ Believable(j)' /\ (ToldToStop(j) => ToldToStop(j)')
         /\ \A p \in Pids : process'[p].scan = j.scan => process[p].scan = j.scan
<1>1. j.scan \in Nat \ {0} /\ j.pid \in Pids
  BY DEF JobSet
<1>2. \A p \in Pids : /\ process[p].scan \in Nat /\ process'[p].scan \in Nat
                      /\ process[p] # Jobs!NoProcess <=> process[p].scan # 0
                      /\ process'[p] # Jobs!NoProcess <=> process'[p].scan # 0
  <2>1. (JobTypes => \A p \in Pids : /\ process[p] \in Processes /\ process[p].scan \in Nat
                                     /\ process[p] # Jobs!NoProcess <=> process[p].scan # 0)'
    BY RunningHasScan, PTL
  <2> QED
    BY <2>1, RunningHasScan
<1>3. scans \in Nat /\ scans' \in Nat
  BY DEF JobTypes
<1>4. j.scan <= scans'
  BY <1>1, <1>3 DEF Believable, WorldMoves
<1>5. \A p \in Pids : process'[p].scan = j.scan => process[p].scan = j.scan
  <2> SUFFICES ASSUME NEW p \in Pids, process'[p].scan = j.scan, process[p].scan # j.scan
               PROVE  FALSE
    OBVIOUS
  <2>1. process'[p].scan > scans
    BY <1>1, <1>2 DEF WorldMoves
  <2> QED
    BY <1>1, <1>2, <1>3, <2>1 DEF Believable
<1>6. ASSUME Trusted(j.pid)'
      PROVE  /\ Trusted(j.pid) /\ process'[j.pid].scan = process[j.pid].scan
             /\ process'[j.pid].signal # "none" \/ process'[j.pid].signal = process[j.pid].signal
  BY <1>1, <1>6 DEF WorldMoves, Trusted
<1>7. Believable(j)'
  BY <1>1, <1>4, <1>5, <1>6 DEF Believable
<1>8. ToldToStop(j) => ToldToStop(j)'
  BY <1>6 DEF ToldToStop
<1> QED
  BY <1>5, <1>7, <1>8

\* What a screen holds are jobs and operations on them.
LEMMA ScreenHolds ==
  ASSUME NEW v \in Views
  PROVE  /\ v.job \in AnyJob /\ v.todo \in Seq(JobOps)
         /\ v.jobs \in Seq(JobSet) /\ v.base \in Seq(JobSet)
         /\ \A i \in DOMAIN v.todo : v.todo[i] \in JobOps
         /\ \A i \in DOMAIN v.jobs : v.jobs[i] \in JobSet
         /\ \A i \in DOMAIN v.base : v.base[i] \in JobSet
<1>1. /\ v.job \in AnyJob /\ v.todo \in Seq(JobOps)
      /\ v.jobs \in Seq(JobSet) /\ v.base \in Seq(JobSet)
  BY DEF Views
<1>2. ASSUME NEW R, NEW s \in Seq(R)
      PROVE  \A i \in DOMAIN s : s[i] \in R
  OBVIOUS
<1> QED
  BY <1>1, <1>2

\* A screen stays sane.
LEMMA ScreenStays ==
  ASSUME JobTypes, JobTypes', NEW v \in Views, ScreenIsSane(v),
         \A o \in Catalogs : banner[o] \subseteq banner'[o],
         \A j \in JobSet : j = v.job \/ (\E i \in DOMAIN v.todo : v.todo[i].job = j)
                             \/ (\E i \in DOMAIN v.jobs : v.jobs[i] = j) => WorldMoves(j),
         \A j \in JobSet : \A p \in Pids : j.scan <= scans /\ process'[p].scan = j.scan =>
             process[p].scan = j.scan /\ (Wanted(p)' => Wanted(p)),
         scans <= scans'
  PROVE  ScreenIsSane(v)'
<1>1. /\ v.job \in AnyJob
      /\ \A i \in DOMAIN v.todo : v.todo[i] \in JobOps
      /\ \A i \in DOMAIN v.jobs : v.jobs[i] \in JobSet
      /\ \A i \in DOMAIN v.base : v.base[i] \in JobSet
  BY ScreenHolds
<1>2. ViewIsSane(v)'
  <2>1. CASE v.job = Jobs!NoJob
    BY <2>1 DEF ScreenIsSane, ViewIsSane
  <2>2. CASE v.job # Jobs!NoJob
    <3>1. v.job \in JobSet /\ Believable(v.job) /\ WorldMoves(v.job)
      BY <1>1, <2>2 DEF AnyJob, ScreenIsSane, ViewIsSane
    <3>2. /\ Believable(v.job)' /\ (ToldToStop(v.job) => ToldToStop(v.job)')
          /\ \A p \in Pids : process'[p].scan = v.job.scan => process[p].scan = v.job.scan
      BY <3>1, BelievableStays
    <3>3. v.job.output \in Catalogs
      BY <3>1 DEF JobSet
    <3> QED
      BY <2>2, <3>2, <3>3 DEF ScreenIsSane, ViewIsSane
  <2> QED
    BY <2>1, <2>2
<1>3. TodoIsSane(v)'
  <2>1. ASSUME NEW i \in DOMAIN v.todo, v.todo[i].kind # "prune"
        PROVE  Believable(v.todo[i].job)' /\ (ToldToStop(v.todo[i].job) => ToldToStop(v.todo[i].job)')
    <3>1. v.todo[i].job \in JobSet /\ Believable(v.todo[i].job) /\ WorldMoves(v.todo[i].job)
      BY <1>1, <2>1 DEF JobOps, AnyJob, ScreenIsSane, TodoIsSane
    <3> QED
      BY <3>1, BelievableStays
  <2> QED
    BY <2>1 DEF ScreenIsSane, TodoIsSane
<1>4. JobsAreSane(v)'
  <2>1. ASSUME NEW i \in DOMAIN v.jobs
        PROVE  Believable(v.jobs[i])'
    <3>1. v.jobs[i] \in JobSet /\ Believable(v.jobs[i]) /\ WorldMoves(v.jobs[i])
      BY <1>1 DEF ScreenIsSane, JobsAreSane
    <3> QED
      BY <3>1, BelievableStays
  <2>2. ASSUME NEW i \in DOMAIN v.base, v.step = "loaded"
        PROVE  /\ v.base[i].scan <= scans'
               /\ process'[v.base[i].pid].scan = v.base[i].scan /\ Wanted(v.base[i].pid)' =>
                    In(v.jobs, v.base[i].pid, v.base[i].scan)
    <3>1. /\ v.base[i] \in JobSet /\ v.base[i].scan <= scans
          /\ process[v.base[i].pid].scan = v.base[i].scan /\ Wanted(v.base[i].pid) =>
               In(v.jobs, v.base[i].pid, v.base[i].scan)
      BY <1>1, <2>2 DEF ScreenIsSane, JobsAreSane
    <3>2. v.base[i].scan \in Nat /\ v.base[i].pid \in Pids /\ scans \in Nat /\ scans' \in Nat
      BY <3>1 DEF JobSet, JobTypes
    <3>3. v.base[i].scan <= scans'
      BY <3>1, <3>2
    <3>4. ASSUME process'[v.base[i].pid].scan = v.base[i].scan, Wanted(v.base[i].pid)'
          PROVE  In(v.jobs, v.base[i].pid, v.base[i].scan)
      <4>1. process[v.base[i].pid].scan = v.base[i].scan /\ Wanted(v.base[i].pid)
        BY <3>1, <3>2, <3>4
      <4> QED
        BY <3>1, <4>1
    <3> QED
      BY <3>3, <3>4
  <2> QED
    BY <2>1, <2>2 DEF ScreenIsSane, JobsAreSane
<1> QED
  BY <1>2, <1>3, <1>4 DEF ScreenIsSane

\* A part of a list of jobs is a list of jobs that names a pid once.
LEMMA PartOfJobs ==
  ASSUME NEW jobs \in Seq(JobSet), OncePerPid(jobs), NEW I \in SUBSET DOMAIN jobs
  PROVE  /\ Jobs!Kept(jobs, I) \in Seq(JobSet) /\ OncePerPid(Jobs!Kept(jobs, I))
         /\ \A k \in DOMAIN Jobs!Kept(jobs, I) : \E i \in I : Jobs!Kept(jobs, I)[k] = jobs[i]
         /\ \A i \in I : \E k \in DOMAIN Jobs!Kept(jobs, I) : Jobs!Kept(jobs, I)[k] = jobs[i]
<1> DEFINE part == Jobs!Kept(jobs, I)
<1>1. /\ part \in Seq(JobSet)
      /\ \A k \in DOMAIN part : \E i \in I : part[k] = jobs[i]
      /\ \A i \in I : \E k \in DOMAIN part : part[k] = jobs[i]
      /\ \A k, l \in DOMAIN part : k < l => \E i, j \in I : i < j /\ part[k] = jobs[i] /\ part[l] = jobs[j]
  BY KeptParts
<1> HIDE DEF part
<1>2. DOMAIN part \subseteq Int /\ I \subseteq Int
  BY <1>1
<1>3. ASSUME NEW k \in DOMAIN part, NEW l \in DOMAIN part, k < l
      PROVE  part[k].pid # part[l].pid
  <2>1. PICK i \in I, j \in I : i < j /\ part[k] = jobs[i] /\ part[l] = jobs[j]
    BY <1>1, <1>3
  <2>2. i # j
    BY <1>2, <2>1
  <2> QED
    BY <2>1, <2>2 DEF OncePerPid
<1>4. OncePerPid(part)
  <2> SUFFICES ASSUME NEW k \in DOMAIN part, NEW l \in DOMAIN part, part[k].pid = part[l].pid, k # l
               PROVE  FALSE
    BY DEF OncePerPid
  <2>1. k < l \/ l < k
    BY <1>2
  <2> QED
    BY <1>3, <2>1
<1> QED
  BY <1>1, <1>4 DEF part

\* What is saved: a list of jobs that names a pid once, from what was loaded and the
\* operation; the jobs of other pids stay, those that run when it is pruned too, and
\* a job that is added is there.
LEMMA WhatIsSaved ==
  ASSUME NEW jobs \in Seq(JobSet), OncePerPid(jobs), NEW op \in JobOps,
         op.kind # "prune" => op.job \in JobSet
  PROVE  /\ Jobs!Changed(jobs, op) \in Seq(JobSet) /\ OncePerPid(Jobs!Changed(jobs, op))
         /\ \A k \in DOMAIN Jobs!Changed(jobs, op) :
              \/ op.kind # "prune" /\ Jobs!Changed(jobs, op)[k] = op.job
              \/ \E i \in DOMAIN jobs : Jobs!Changed(jobs, op)[k] = jobs[i]
         /\ \A i \in DOMAIN jobs :
              \/ op.kind = "prune" /\ process[jobs[i].pid] # Jobs!NoProcess
              \/ op.kind # "prune" /\ jobs[i].pid # op.job.pid
              => \E k \in DOMAIN Jobs!Changed(jobs, op) : Jobs!Changed(jobs, op)[k] = jobs[i]
         /\ op.kind = "add" => \E k \in DOMAIN Jobs!Changed(jobs, op) : Jobs!Changed(jobs, op)[k] = op.job
<1> DEFINE I == {i \in DOMAIN jobs : jobs[i].pid # op.job.pid}
           rest == Jobs!Without(jobs, op.job.pid)
<1>1. rest = Jobs!Kept(jobs, I)
  BY DEF Jobs!Without
<1>2. /\ rest \in Seq(JobSet) /\ OncePerPid(rest)
      /\ \A k \in DOMAIN rest : \E i \in I : rest[k] = jobs[i]
      /\ \A i \in I : \E k \in DOMAIN rest : rest[k] = jobs[i]
  <2>1. I \in SUBSET DOMAIN jobs
    OBVIOUS
  <2> HIDE DEF I, rest
  <2> QED
    BY <1>1, <2>1, PartOfJobs
<1>3. op.kind \in {"add", "remove", "prune"}
  BY DEF JobOps
<1>4. \A k \in DOMAIN rest : \E i \in DOMAIN jobs : rest[k] = jobs[i] /\ rest[k].pid # op.job.pid
  BY <1>2
<1>5. \A i \in DOMAIN jobs : jobs[i].pid # op.job.pid => \E k \in DOMAIN rest : rest[k] = jobs[i]
  BY <1>2
<1> HIDE DEF I, rest
<1>6. CASE op.kind = "prune"
  <2> DEFINE L == {i \in DOMAIN jobs : Jobs!IsAlive(jobs[i])}
             part == Jobs!Kept(jobs, L)
  <2>1. Jobs!Changed(jobs, op) = part /\ L \in SUBSET DOMAIN jobs
    BY <1>6 DEF Jobs!Changed, Jobs!Survivors
  <2>2. \A i \in DOMAIN jobs : jobs[i] \in JobSet
    OBVIOUS
  <2>3. \A i \in DOMAIN jobs : process[jobs[i].pid] # Jobs!NoProcess => i \in L
    BY <2>2 DEF Jobs!IsAlive, JobSet
  <2> HIDE DEF L
  <2>4. /\ part \in Seq(JobSet) /\ OncePerPid(part)
        /\ \A k \in DOMAIN part : \E i \in L : part[k] = jobs[i]
        /\ \A i \in L : \E k \in DOMAIN part : part[k] = jobs[i]
    BY <2>1, PartOfJobs
  <2> HIDE DEF part
  <2> QED
    BY <1>6, <2>1, <2>3, <2>4
<1>7. CASE op.kind = "remove"
  <2>1. Jobs!Changed(jobs, op) = rest
    BY <1>7 DEF Jobs!Changed, rest
  <2> QED
    BY <1>2, <1>4, <1>5, <1>7, <2>1
<1>8. CASE op.kind = "add"
  <2> DEFINE all == Append(rest, op.job)
  <2>1. Jobs!Changed(jobs, op) = all
    BY <1>8 DEF Jobs!Changed, rest
  <2>2. op.job \in JobSet
    BY <1>8
  <2>3. /\ all \in Seq(JobSet) /\ DOMAIN all = 1..(Len(rest) + 1) /\ DOMAIN rest = 1..Len(rest)
        /\ Len(rest) \in Nat
        /\ \A k \in 1..Len(rest) : all[k] = rest[k]
        /\ all[Len(rest) + 1] = op.job
    BY <1>2, <2>2
  <2> HIDE DEF all
  <2>4. \A k \in DOMAIN all : (k \in DOMAIN rest /\ all[k] = rest[k]) \/ (k = Len(rest) + 1 /\ all[k] = op.job)
    BY <2>3
  <2>5. OncePerPid(all)
    <3>1. \A k \in DOMAIN rest : rest[k].pid # op.job.pid
      BY <1>4
    <3>2. \A k, l \in DOMAIN rest : rest[k].pid = rest[l].pid => k = l
      BY <1>2 DEF OncePerPid
    <3> QED
      BY <2>4, <3>1, <3>2 DEF OncePerPid
  <2>6. \A k \in DOMAIN rest : k \in DOMAIN all /\ all[k] = rest[k]
    BY <2>3
  <2>7. Len(rest) + 1 \in DOMAIN all
    BY <2>3
  <2> QED
    BY <1>4, <1>5, <1>8, <2>1, <2>3, <2>4, <2>5, <2>6, <2>7
<1> QED
  BY <1>3, <1>6, <1>7, <1>8

\* While only more scans are exposed, what was sane stays so.
LEMMA ExposureDisturbsNothing ==
  ASSUME UNCHANGED <<process, banner, scans>>, exposed \subseteq exposed'
  PROVE  /\ \A j : Believable(j) => Believable(j)'
         /\ \A u : ScreenIsSane(u) => ScreenIsSane(u)'
         /\ \A p : Wanted(p)' => Wanted(p)
<1>1. \A p : (Trusted(p)' => Trusted(p)) /\ (Wanted(p)' => Wanted(p))
  BY DEF Trusted, Wanted
<1>2. \A j : /\ Believable(j) => Believable(j)'
             /\ ToldToStop(j) => ToldToStop(j)'
  BY <1>1 DEF Believable, ToldToStop
<1>3. \A u : ViewIsSane(u) => ViewIsSane(u)'
  BY <1>2 DEF ViewIsSane
<1>4. \A u : TodoIsSane(u) => TodoIsSane(u)'
  BY <1>2 DEF TodoIsSane
<1>5. \A u : JobsAreSane(u) => JobsAreSane(u)'
  BY <1>1, <1>2 DEF JobsAreSane
<1> QED
  BY <1>1, <1>2, <1>3, <1>4, <1>5 DEF ScreenIsSane

\* Only a screen changes, which is not in the middle of a save.
LEMMA ScreenStep ==
  ASSUME JobInv, NEW a \in Apps, NEW v \in Views, ScreenIsSane(v), view' = [view EXCEPT ![a] = v],
         UNCHANGED <<process, banner, registry, blank, scans, exposed>>,
         view[a].step = "idle",
         \A i \in DOMAIN view[a].todo : \E k \in DOMAIN v.todo : v.todo[k] = view[a].todo[i]
  PROVE  JobInv'
<1>1. /\ JobTypes /\ RegistryIsSane /\ ScreensAreSane /\ ScansAreRegistered
      /\ view \in [Apps -> Views]
  BY DEF JobInv, JobTypes
<1>2. view' \in [Apps -> Views] /\ view'[a] = v /\ \A b \in Apps : b # a => view'[b] = view[b]
  BY <1>1
<1>3. JobTypes'
  BY <1>1, <1>2 DEF JobTypes
<1>4. RegistryIsSane'
  BY <1>1 DEF RegistryIsSane, Believable, Trusted
<1>5. ScreensAreSane'
  <2>1. \A u : ScreenIsSane(u) => ScreenIsSane(u)'
    BY ExposureDisturbsNothing
  <2>2. ASSUME NEW b \in Apps, NEW u \in Views, u = view'[b]
        PROVE  ScreenIsSane(u)'
    <3>1. ScreenIsSane(u)
      BY <1>1, <1>2, <2>2 DEF ScreensAreSane
    <3> QED
      BY <2>1, <3>1
  <2> QED
    BY <2>2 DEF ScreensAreSane
<1>6. ScansAreRegistered'
  <2>1. \A p \in Pids : Jobs!AboutToRegister(p) => Jobs!AboutToRegister(p)'
    BY <1>2 DEF Jobs!AboutToRegister
  <2>2. \A b \in Apps : view[b].step = "truncated" => view'[b] = view[b]
    BY <1>2
  <2>3. \A p : Wanted(p)' => Wanted(p)
    BY DEF Wanted, Trusted
  <2>4. \A b \in Apps, p \in Pids : view[b].step = "truncated" /\ In(view[b].jobs, p, process[p].scan) =>
          view'[b].step = "truncated" /\ In(view'[b].jobs, p, process'[p].scan)
    BY <2>2
  <2> QED
    BY <1>1, <2>1, <2>3, <2>4 DEF ScansAreRegistered
<1> QED
  BY <1>3, <1>4, <1>5, <1>6 DEF JobInv

\* A screen without anything to do is in no save.
LEMMA IdleWithoutWork ==
  ASSUME JobInv, NEW a \in Apps, view[a].todo = <<>>
  PROVE  view[a].step = "idle"
<1>1. view[a] \in Views /\ ScreenIsSane(view[a])
  BY DEF JobInv, JobTypes, ScreensAreSane
<1> QED
  BY <1>1 DEF ScreenIsSane, JobsAreSane

\* Before the first scan the registry and the screens are empty.
LEMMA JobsInitially == Jobs!Init => JobInv
<1> SUFFICES ASSUME Jobs!Init
             PROVE  JobInv
  OBVIOUS
<1> DEFINE new == Jobs!NewView
<1>1. new \in Views
  BY DEF Jobs!NewView, Views, AnyJob
<1>2. ScreenIsSane(new)
  BY DEF Jobs!NewView, ScreenIsSane, ViewIsSane, TodoIsSane, JobsAreSane, OncePerPid
<1> HIDE DEF new
<1>3. JobTypes
  BY <1>1 DEF Jobs!Init, JobTypes, Processes, new
<1>4. \A a \in Apps : view[a] = new
  BY DEF Jobs!Init, new
<1>5. ScreensAreSane
  BY <1>2, <1>4 DEF ScreensAreSane
<1>6. RegistryIsSane
  <2>1. DOMAIN registry = {} /\ scans = 0 /\ \A p \in Pids : process[p] = Jobs!NoProcess
    BY DEF Jobs!Init
  <2> QED
    BY <2>1, NoScan DEF RegistryIsSane, OncePerPid
<1>7. ScansAreRegistered
  BY DEF Jobs!Init, ScansAreRegistered, Wanted, Trusted
<1> QED
  BY <1>3, <1>5, <1>6, <1>7 DEF JobInv

\* Leaving a screen, and starting a TUI.
LEMMA BackKeepsJobInv ==
  ASSUME JobInv, NEW a \in Apps, Jobs!Back(a) \/ Jobs!Reattach(a)
  PROVE  JobInv'
<1>1. DOMAIN view[a].todo = {} /\ view[a].step = "idle"
  <2>1. view[a].todo = <<>>
    BY DEF Jobs!Back, Jobs!Reattach, Jobs!Ready
  <2> QED
    BY <2>1, IdleWithoutWork
<1>2. CASE Jobs!Back(a)
  <2> DEFINE new == Jobs!NewView
  <2>1. new \in Views
    BY DEF Jobs!NewView, Views, AnyJob
  <2>2. ScreenIsSane(new)
    BY DEF Jobs!NewView, ScreenIsSane, ViewIsSane, TodoIsSane, JobsAreSane, OncePerPid
  <2>3. view' = [view EXCEPT ![a] = new]
    BY <1>2 DEF Jobs!Back
  <2>4. UNCHANGED <<process, banner, registry, blank, scans, exposed>>
    BY <1>2 DEF Jobs!Back
  <2> HIDE DEF new
  <2> QED
    BY <1>1, <2>1, <2>2, <2>3, <2>4, ScreenStep
<1>3. CASE Jobs!Reattach(a)
  <2> DEFINE op == Jobs!Op("prune", Jobs!NoJob, TRUE)
             new == [Jobs!NewView EXCEPT !.todo = <<op>>]
  <2>1. op \in JobOps /\ op.kind = "prune"
    BY DEF Jobs!Op, JobOps, AnyJob
  <2>2. view' = [view EXCEPT ![a] = new]
    BY <1>3 DEF Jobs!Reattach
  <2>3. UNCHANGED <<process, banner, registry, blank, scans, exposed>>
    BY <1>3 DEF Jobs!Reattach
  <2> HIDE DEF op
  <2>4. new \in Views
    <3>1. <<op>> \in Seq(JobOps) /\ Jobs!NewView \in Views
      BY <2>1 DEF Jobs!NewView, Views, AnyJob
    <3> QED
      BY <3>1 DEF Views
  <2>5. ScreenIsSane(new)
    BY <2>1 DEF Jobs!NewView, ScreenIsSane, ViewIsSane, TodoIsSane, JobsAreSane, OncePerPid
  <2> HIDE DEF new
  <2> QED
    BY <1>1, <2>2, <2>3, <2>4, <2>5, ScreenStep
<1> QED
  BY <1>2, <1>3

\* A screen looks at its process.
LEMMA WatchKeepsJobInv ==
  ASSUME JobInv, NEW a \in Apps, Jobs!Attached(a), Jobs!Watch(a)
  PROVE  JobInv'
<1> DEFINE v == view[a]
<1>1. /\ v.todo = <<>> /\ v.step = "idle" /\ v.job # Jobs!NoJob /\ v.says # "complete"
      /\ UNCHANGED <<process, banner, registry, blank, scans, exposed>>
  BY IdleWithoutWork DEF Jobs!Attached, Jobs!Ready, Jobs!Watch
<1>2. JobTypes /\ v \in Views /\ ScreenIsSane(v)
  BY DEF JobInv, JobTypes, ScreensAreSane
<1>3. v.job \in JobSet
  BY <1>1, <1>2 DEF Views, AnyJob
<1>4. /\ v.job.pid \in Pids /\ Believable(v.job)
      /\ v.job.scan \in Nat \ {0}
  BY <1>1, <1>2, <1>3 DEF JobSet, ScreenIsSane, ViewIsSane
<1>5. process[v.job.pid] = Jobs!NoProcess => \A p \in Pids : process[p].scan # v.job.scan
  BY <1>4, NoScan DEF Believable
<1> DEFINE op == Jobs!Op("prune", Jobs!NoJob, FALSE)
<1>6. <<op>> \in Seq(JobOps) /\ op.kind = "prune" /\ ~op.attach
  <2>1. op \in JobOps
    BY DEF Jobs!Op, JobOps, AnyJob
  <2> QED
    BY <2>1 DEF Jobs!Op
<1> HIDE DEF op
<1>7. ASSUME NEW w \in Views, view' = [view EXCEPT ![a] = w],
             w.job = v.job, w.jobs = v.jobs, w.base = v.base, w.step = v.step,
             w.todo = v.todo \/ w.todo = <<op>>,
             w.paused => v.paused \/ process[v.job.pid] = Jobs!NoProcess,
             w.says = "complete" => process[v.job.pid] = Jobs!NoProcess /\ banner[v.job.output] # {}
      PROVE  JobInv'
  <2>1. ViewIsSane(w)
    BY <1>1, <1>2, <1>5, <1>7 DEF ScreenIsSane, ViewIsSane, ToldToStop, Trusted
  <2>2. TodoIsSane(w)
    <3>1. \A i \in DOMAIN w.todo : w.todo[i] = op
      BY <1>1, <1>7
    <3> QED
      BY <1>6, <3>1 DEF TodoIsSane
  <2>3. JobsAreSane(w)
    BY <1>1, <1>2, <1>7 DEF ScreenIsSane, JobsAreSane
  <2>4. DOMAIN view[a].todo = {}
    BY <1>1
  <2>5. ScreenIsSane(w)
    BY <2>1, <2>2, <2>3 DEF ScreenIsSane
  <2> QED
    BY <1>1, <1>7, <2>4, <2>5, ScreenStep
<1>8. CASE Jobs!IsAlive(v.job)
  <2> DEFINE w == [v EXCEPT !.says = "scanning"]
  <2>1. view' = [view EXCEPT ![a] = w]
    BY <1>8 DEF Jobs!Watch, Jobs!Poll
  <2>2. /\ w \in Views /\ w.job = v.job /\ w.jobs = v.jobs /\ w.base = v.base
        /\ w.step = v.step /\ w.todo = v.todo /\ w.paused = v.paused /\ w.says = "scanning"
    BY <1>2 DEF Views
  <2> HIDE DEF w
  <2> QED
    BY <1>7, <2>1, <2>2
<1>9. CASE ~Jobs!IsAlive(v.job)
  <2>1. process[v.job.pid] = Jobs!NoProcess
    BY <1>4, <1>9 DEF Jobs!IsAlive
  <2>2. CASE v.paused
    <3> DEFINE w == [v EXCEPT !.says = "paused"]
    <3>1. view' = [view EXCEPT ![a] = w]
      BY <1>9, <2>2 DEF Jobs!Watch, Jobs!Poll
    <3>2. /\ w \in Views /\ w.job = v.job /\ w.jobs = v.jobs /\ w.base = v.base
          /\ w.step = v.step /\ w.todo = v.todo /\ w.paused = v.paused /\ w.says = "paused"
      BY <1>2 DEF Views
    <3> HIDE DEF w
    <3> QED
      BY <1>7, <3>1, <3>2
  <2>3. CASE ~v.paused /\ Jobs!IsComplete(v.job)
    <3> DEFINE w == [v EXCEPT !.says = "complete", !.todo = <<op>>]
    <3>1. view' = [view EXCEPT ![a] = w] /\ banner[v.job.output] # {}
      BY <1>9, <2>3 DEF Jobs!Watch, Jobs!Poll, Jobs!IsComplete, op
    <3>2. /\ w \in Views /\ w.job = v.job /\ w.jobs = v.jobs /\ w.base = v.base
          /\ w.step = v.step /\ w.todo = <<op>> /\ w.paused = v.paused
      BY <1>2, <1>6 DEF Views
    <3> HIDE DEF w
    <3> QED
      BY <1>7, <2>1, <3>1, <3>2
  <2>4. CASE ~v.paused /\ ~Jobs!IsComplete(v.job)
    <3> DEFINE w == [v EXCEPT !.says = "stopped", !.paused = TRUE]
    <3>1. view' = [view EXCEPT ![a] = w]
      BY <1>9, <2>4 DEF Jobs!Watch, Jobs!Poll
    <3>2. /\ w \in Views /\ w.job = v.job /\ w.jobs = v.jobs /\ w.base = v.base
          /\ w.step = v.step /\ w.todo = v.todo /\ w.says = "stopped"
      BY <1>2 DEF Views
    <3> HIDE DEF w
    <3> QED
      BY <1>7, <2>1, <3>1, <3>2
  <2> QED
    BY <2>2, <2>3, <2>4
<1> QED
  BY <1>8, <1>9

\* A load reads the registry, and what is to be saved is made of it.
LEMMA LoadKeepsJobInv ==
  ASSUME JobInv, NEW a \in Apps, Jobs!LoadJobs(a)
  PROVE  JobInv'
<1> DEFINE v == view[a]
           op == v.todo[1]
           jobs == Jobs!Changed(registry, op)
           w == [v EXCEPT !.step = "loaded", !.base = registry, !.jobs = jobs]
<1>1. /\ JobTypes /\ v \in Views /\ ScreenIsSane(v) /\ RegistryIsSane
      /\ registry \in Seq(JobSet) /\ OncePerPid(registry)
      /\ \A i \in DOMAIN registry : registry[i] \in JobSet /\ Believable(registry[i])
  <2>1. \A i \in DOMAIN registry : registry[i] \in JobSet
    BY DEF JobInv, JobTypes
  <2> QED
    BY <2>1 DEF JobInv, JobTypes, ScreensAreSane, RegistryIsSane
<1>2. /\ v.todo \in Seq(JobOps) /\ v.todo # <<>> /\ Head(v.todo) = op /\ 1 \in DOMAIN v.todo
      /\ v.step = "idle" /\ view' = [view EXCEPT ![a] = w]
      /\ UNCHANGED <<process, banner, registry, blank, scans, exposed>>
  <2>1. v.todo \in Seq(JobOps) /\ v.todo # <<>>
    BY <1>1, ScreenHolds DEF Jobs!LoadJobs
  <2>2. Head(v.todo) = op /\ 1 \in DOMAIN v.todo
    BY <2>1
  <2> QED
    BY <2>1, <2>2 DEF Jobs!LoadJobs
<1>3. /\ op \in JobOps /\ (op.kind # "prune" => op.job \in JobSet /\ Believable(op.job))
      /\ op.kind = "remove" => ToldToStop(op.job)
  <2>1. op \in JobOps
    BY <1>2
  <2>2. /\ op.kind # "prune" => op.job # Jobs!NoJob /\ Believable(op.job)
        /\ op.kind = "remove" => ToldToStop(op.job)
    BY <1>1, <1>2 DEF ScreenIsSane, TodoIsSane
  <2> QED
    BY <2>1, <2>2 DEF JobOps, AnyJob
<1> HIDE DEF op
<1>4. /\ jobs \in Seq(JobSet) /\ OncePerPid(jobs)
      /\ \A k \in DOMAIN jobs : \/ op.kind # "prune" /\ jobs[k] = op.job
                                \/ \E i \in DOMAIN registry : jobs[k] = registry[i]
      /\ \A i \in DOMAIN registry :
           \/ op.kind = "prune" /\ process[registry[i].pid] # Jobs!NoProcess
           \/ op.kind # "prune" /\ registry[i].pid # op.job.pid
           => \E k \in DOMAIN jobs : jobs[k] = registry[i]
      /\ op.kind = "add" => \E k \in DOMAIN jobs : jobs[k] = op.job
  BY <1>1, <1>3, WhatIsSaved
<1> HIDE DEF jobs
<1>5. \A k \in DOMAIN jobs : Believable(jobs[k])
  BY <1>1, <1>3, <1>4
<1>6. /\ w \in Views /\ w.job = v.job /\ w.paused = v.paused /\ w.says = v.says /\ w.todo = v.todo
      /\ w.jobs = jobs /\ w.base = registry /\ w.step = "loaded"
  BY <1>1, <1>4 DEF Views
<1> HIDE DEF w
<1>7. ViewIsSane(w) /\ TodoIsSane(w)
  BY <1>1, <1>6 DEF ScreenIsSane, ViewIsSane, TodoIsSane
<1>8. ASSUME NEW i \in DOMAIN registry, process[registry[i].pid].scan = registry[i].scan,
             Wanted(registry[i].pid)
      PROVE  In(jobs, registry[i].pid, registry[i].scan)
  <2>1. process[registry[i].pid] # Jobs!NoProcess
    BY <1>8 DEF Wanted, Trusted
  <2>2. op.kind \in {"add", "remove", "prune"}
    BY <1>3 DEF JobOps
  <2>3. CASE op.kind = "prune" \/ registry[i].pid # op.job.pid
    <3>1. PICK k \in DOMAIN jobs : jobs[k] = registry[i]
      BY <1>4, <2>1, <2>3
    <3> QED
      BY <1>8, <3>1 DEF In
  <2>4. CASE op.kind = "remove" /\ registry[i].pid = op.job.pid
    BY <1>3, <1>8, <2>4 DEF ToldToStop, Wanted
  <2>5. CASE op.kind = "add" /\ registry[i].pid = op.job.pid
    <3>1. process[op.job.pid].scan = op.job.scan
      BY <1>3, <1>8, <2>5 DEF Believable, Wanted
    <3>2. PICK k \in DOMAIN jobs : jobs[k] = op.job
      BY <1>4, <2>5
    <3> QED
      BY <1>8, <2>5, <3>1, <3>2 DEF In
  <2> QED
    BY <2>2, <2>3, <2>4, <2>5
<1>9. JobsAreSane(w)
  <2>1. \A i \in DOMAIN registry : registry[i].scan <= scans
    BY <1>1 DEF Believable
  <2>2. w.todo # <<>> /\ (w.todo[1].kind = "add" => \E k \in DOMAIN w.jobs : w.jobs[k] = w.todo[1].job)
    BY <1>2, <1>4, <1>6 DEF op
  <2> QED
    BY <1>4, <1>5, <1>6, <1>8, <2>1, <2>2 DEF JobsAreSane
<1>10. \A i \in DOMAIN view[a].todo : \E k \in DOMAIN w.todo : w.todo[k] = view[a].todo[i]
  BY <1>6
<1> QED
  BY <1>2, <1>6, <1>7, <1>9, <1>10, ScreenStep DEF ScreenIsSane

\* The screens after a step that changes one of them and exposes scans.
LEMMA ScreensStaySane ==
  ASSUME JobInv, UNCHANGED <<process, banner, scans>>, exposed \subseteq exposed',
         NEW a \in Apps, NEW w \in Views, ScreenIsSane(w), view' = [view EXCEPT ![a] = w]
  PROVE  /\ view' \in [Apps -> Views] /\ view'[a] = w /\ \A b \in Apps : b # a => view'[b] = view[b]
         /\ ScreensAreSane'
<1>1. view \in [Apps -> Views] /\ ScreensAreSane
  BY DEF JobInv, JobTypes
<1>2. view' \in [Apps -> Views] /\ view'[a] = w /\ \A b \in Apps : b # a => view'[b] = view[b]
  BY <1>1
<1>3. \A u : ScreenIsSane(u) => ScreenIsSane(u)'
  BY ExposureDisturbsNothing
<1>4. ASSUME NEW b \in Apps, NEW u \in Views, u = view'[b]
      PROVE  ScreenIsSane(u)'
  <2>1. ScreenIsSane(u)
    BY <1>1, <1>2, <1>4 DEF ScreensAreSane
  <2> QED
    BY <1>3, <2>1
<1> QED
  BY <1>2, <1>4 DEF ScreensAreSane

\* The file is truncated.
LEMMA TruncateKeepsJobInv ==
  ASSUME JobInv, NEW a \in Apps, Jobs!TruncateJobs(a)
  PROVE  JobInv'
<1> DEFINE v == view[a]
           w == [v EXCEPT !.step = "truncated", !.base = <<>>]
<1>1. /\ JobTypes /\ v \in Views /\ ScreenIsSane(v) /\ RegistryIsSane /\ ScansAreRegistered
      /\ v.base \in Seq(JobSet)
  BY ScreenHolds DEF JobInv, JobTypes, ScreensAreSane
<1>2. /\ v.step = "loaded" /\ registry' = <<>> /\ blank' = TRUE /\ view' = [view EXCEPT ![a] = w]
      /\ UNCHANGED <<process, banner, scans>>
      /\ exposed' = IF registry = v.base THEN exposed ELSE exposed \cup Jobs!ScansNow
  BY DEF Jobs!TruncateJobs
<1>3. /\ w \in Views /\ w.job = v.job /\ w.paused = v.paused /\ w.says = v.says /\ w.todo = v.todo
      /\ w.jobs = v.jobs /\ w.step = "truncated"
  <2>1. <<>> \in Seq(JobSet)
    OBVIOUS
  <2> QED
    BY <1>1, <2>1 DEF Views
<1> HIDE DEF w
<1>4. ScreenIsSane(w)
  <2>1. ViewIsSane(w) /\ TodoIsSane(w)
    BY <1>1, <1>3 DEF ScreenIsSane, ViewIsSane, TodoIsSane
  <2>2. JobsAreSane(w)
    BY <1>1, <1>2, <1>3 DEF ScreenIsSane, JobsAreSane
  <2> QED
    BY <2>1, <2>2 DEF ScreenIsSane
<1>5. exposed \subseteq exposed'
  BY <1>2
<1>6. /\ view' \in [Apps -> Views] /\ view'[a] = w /\ \A b \in Apps : b # a => view'[b] = view[b]
      /\ ScreensAreSane'
  BY <1>2, <1>3, <1>4, <1>5, ScreensStaySane
<1>7. registry' \in Seq(JobSet) /\ DOMAIN registry' = {}
  BY <1>2
<1>8. JobTypes' /\ RegistryIsSane'
  BY <1>1, <1>2, <1>6, <1>7 DEF JobTypes, RegistryIsSane, OncePerPid
<1>9. ScansAreRegistered'
  <2> SUFFICES ASSUME NEW p \in Pids, Wanted(p)', ~Jobs!AboutToRegister(p)'
               PROVE  \E b \in Apps : view'[b].step = "truncated" /\ In(view'[b].jobs, p, process'[p].scan)
    BY DEF ScansAreRegistered
  <2>1. Wanted(p) /\ process'[p] = process[p]
    BY <1>2, <1>5, ExposureDisturbsNothing
  <2>2. ~Jobs!AboutToRegister(p)
    <3>1. \A b \in Apps : view'[b].todo = view[b].todo
      BY <1>3, <1>6
    <3> QED
      BY <3>1 DEF Jobs!AboutToRegister
  <2>3. process[p].scan \in Jobs!ScansNow /\ process[p].scan \notin exposed'
    BY <1>2, <2>1 DEF Jobs!ScansNow, Jobs!Running, Wanted, Trusted
  <2>4. registry = v.base
    BY <1>2, <2>3
  <2>5. CASE In(registry, p, process[p].scan)
    <3>1. PICK i \in DOMAIN v.base : v.base[i].pid = p /\ v.base[i].scan = process[p].scan
      BY <2>4, <2>5 DEF In
    <3>2. In(v.jobs, p, process[p].scan)
      BY <1>1, <1>2, <2>1, <3>1 DEF ScreenIsSane, JobsAreSane
    <3> QED
      BY <1>3, <1>6, <2>1, <3>2
  <2>6. ASSUME NEW b \in Apps, view[b].step = "truncated", In(view[b].jobs, p, process[p].scan)
        PROVE  view'[b].step = "truncated" /\ In(view'[b].jobs, p, process'[p].scan)
    <3>1. b # a
      BY <1>2, <2>6
    <3> QED
      BY <1>6, <2>1, <2>6, <3>1
  <2> QED
    BY <1>1, <2>1, <2>2, <2>5, <2>6 DEF ScansAreRegistered
<1> QED
  BY <1>6, <1>8, <1>9 DEF JobInv

\* The registry gets what was to be saved.
LEMMA WriteKeepsJobInv ==
  ASSUME JobInv, NEW a \in Apps, Jobs!WriteJobs(a)
  PROVE  JobInv'
<1> DEFINE v == view[a]
           op == v.todo[1]
           job == IF op.attach /\ v.jobs # <<>> THEN v.jobs[Len(v.jobs)] ELSE v.job
           w == [v EXCEPT !.todo = Tail(@), !.step = "idle", !.jobs = <<>>, !.job = job]
<1>1. /\ JobTypes /\ v \in Views /\ ScreenIsSane(v) /\ RegistryIsSane /\ ScansAreRegistered
      /\ view \in [Apps -> Views] /\ ViewIsSane(v) /\ TodoIsSane(v) /\ JobsAreSane(v)
  BY DEF JobInv, JobTypes, ScreensAreSane, ScreenIsSane
<1>2. /\ v.todo \in Seq(JobOps) /\ v.jobs \in Seq(JobSet) /\ v.job \in AnyJob
      /\ \A i \in DOMAIN v.todo : v.todo[i] \in JobOps
      /\ \A i \in DOMAIN v.jobs : v.jobs[i] \in JobSet
  BY <1>1, ScreenHolds
<1>3. v.step = "truncated" /\ v.todo # <<>>
  BY <1>1 DEF Jobs!WriteJobs, JobsAreSane
<1>4. /\ Head(v.todo) = op /\ 1 \in DOMAIN v.todo
      /\ Tail(v.todo) \in Seq(JobOps)
      /\ \A i \in DOMAIN Tail(v.todo) : i + 1 \in DOMAIN v.todo /\ Tail(v.todo)[i] = v.todo[i + 1]
      /\ \A i \in DOMAIN v.todo : i # 1 => i - 1 \in DOMAIN Tail(v.todo) /\ Tail(v.todo)[i - 1] = v.todo[i]
  <2>1. ASSUME NEW R, NEW s \in Seq(R), s # <<>>
        PROVE  /\ Head(s) = s[1] /\ 1 \in DOMAIN s /\ Tail(s) \in Seq(R)
               /\ \A i \in DOMAIN Tail(s) : i + 1 \in DOMAIN s /\ Tail(s)[i] = s[i + 1]
               /\ \A i \in DOMAIN s : i # 1 => i - 1 \in DOMAIN Tail(s) /\ Tail(s)[i - 1] = s[i]
    BY <2>1
  <2> QED
    BY <1>2, <1>3, <2>1
<1>5. /\ registry' = v.jobs \/ registry' = <<>>
      /\ blank => registry' = v.jobs
      /\ blank' = FALSE /\ view' = [view EXCEPT ![a] = w]
      /\ UNCHANGED <<process, banner, scans>>
      /\ exposed \subseteq exposed'
      /\ ~blank => exposed' = exposed \cup Jobs!ScansNow
  BY <1>4 DEF Jobs!WriteJobs
<1>6. op.attach => v.says # "complete" /\ ~v.paused
  BY <1>1, <1>4 DEF TodoIsSane
<1>7. job \in AnyJob /\ (job = v.job \/ (op.attach /\ job \in JobSet /\ Believable(job)))
  <2>1. v.jobs # <<>> => Len(v.jobs) \in DOMAIN v.jobs
    BY <1>2
  <2>2. v.jobs # <<>> => v.jobs[Len(v.jobs)] \in JobSet /\ Believable(v.jobs[Len(v.jobs)])
    BY <1>1, <1>2, <2>1 DEF JobsAreSane
  <2> QED
    BY <1>2, <2>2 DEF AnyJob
<1> HIDE DEF job, op
<1>8. /\ w.job = job /\ w.paused = v.paused /\ w.says = v.says /\ w.todo = Tail(v.todo)
      /\ w.step = "idle" /\ w.jobs = <<>> /\ w \in Views
  <2>1. <<>> \in Seq(JobSet)
    OBVIOUS
  <2> QED
    BY <1>1, <1>4, <1>7, <2>1 DEF Views
<1> HIDE DEF w
<1>9. ScreenIsSane(w)
  <2>1. ViewIsSane(w)
    BY <1>1, <1>6, <1>7, <1>8 DEF ViewIsSane
  <2>2. TodoIsSane(w)
    BY <1>1, <1>4, <1>8 DEF TodoIsSane
  <2>3. JobsAreSane(w)
    BY <1>8 DEF JobsAreSane, OncePerPid
  <2> QED
    BY <2>1, <2>2, <2>3 DEF ScreenIsSane
<1>10. /\ view' \in [Apps -> Views] /\ view'[a] = w /\ \A b \in Apps : b # a => view'[b] = view[b]
       /\ ScreensAreSane'
  BY <1>5, <1>8, <1>9, ScreensStaySane
<1>11. registry' \in Seq(JobSet) /\ OncePerPid(registry') /\ \A i \in DOMAIN registry' : Believable(registry'[i])
  <2>1. CASE registry' = v.jobs
    BY <1>1, <1>2, <2>1 DEF JobsAreSane
  <2>2. CASE registry' = <<>>
    BY <2>2 DEF OncePerPid
  <2> QED
    BY <1>5, <2>1, <2>2
<1>12. JobTypes'
  BY <1>1, <1>5, <1>10, <1>11 DEF JobTypes
<1>13. RegistryIsSane'
  <2>1. \A j : Believable(j) => Believable(j)'
    BY <1>5, ExposureDisturbsNothing
  <2>2. ASSUME NEW j \in JobSet, NEW i \in DOMAIN registry', registry'[i] = j
        PROVE  Believable(j)'
    BY <1>11, <2>1, <2>2
  <2>3. OncePerPid(registry)'
    BY <1>11 DEF OncePerPid
  <2> QED
    BY <1>1, <1>5, <2>2, <2>3 DEF RegistryIsSane
<1>14. ScansAreRegistered'
  <2> SUFFICES ASSUME NEW p \in Pids, Wanted(p)', ~Jobs!AboutToRegister(p)'
               PROVE  \/ In(registry', p, process'[p].scan)
                      \/ \E b \in Apps : view'[b].step = "truncated" /\ In(view'[b].jobs, p, process'[p].scan)
    BY DEF ScansAreRegistered
  <2>1. Wanted(p) /\ process'[p] = process[p]
    BY <1>5, ExposureDisturbsNothing
  <2>2. process[p].scan \in Jobs!ScansNow /\ process[p].scan \notin exposed'
    BY <1>5, <2>1 DEF Jobs!ScansNow, Jobs!Running, Wanted, Trusted
  <2>3. blank /\ registry' = v.jobs /\ registry = <<>>
    BY <1>1, <1>5, <2>2 DEF RegistryIsSane
  <2>4. CASE op.kind = "add" /\ op.job.pid = p
    <3>1. PICK k \in DOMAIN v.jobs : v.jobs[k] = op.job
      BY <1>1, <1>3, <2>4 DEF JobsAreSane, op
    <3>2. op.job.scan = process[p].scan
      BY <1>1, <2>1, <2>4, <3>1 DEF JobsAreSane, Believable, Wanted
    <3> QED
      BY <2>1, <2>3, <2>4, <3>1, <3>2 DEF In
  <2>5. CASE op.kind # "add" \/ op.job.pid # p
    <3>1. ~Jobs!AboutToRegister(p)
      <4> SUFFICES ASSUME NEW b \in Apps, NEW i \in DOMAIN view[b].todo,
                          view[b].todo[i].kind = "add", view[b].todo[i].job.pid = p
                   PROVE  FALSE
        BY DEF Jobs!AboutToRegister
      <4>1. CASE b # a
        BY <1>10, <4>1 DEF Jobs!AboutToRegister
      <4>2. CASE b = a
        <5>1. i # 1
          BY <2>5, <4>2 DEF op
        <5>2. /\ i - 1 \in DOMAIN view'[a].todo
              /\ view'[a].todo[i - 1] = view[b].todo[i]
          BY <1>4, <1>8, <1>10, <4>2, <5>1
        <5> QED
          BY <5>2 DEF Jobs!AboutToRegister
      <4> QED
        BY <4>1, <4>2
    <3>2. ~In(registry, p, process[p].scan)
      BY <2>3 DEF In
    <3>3. PICK b \in Apps : view[b].step = "truncated" /\ In(view[b].jobs, p, process[p].scan)
      BY <1>1, <2>1, <3>1, <3>2 DEF ScansAreRegistered
    <3> QED
      BY <1>10, <2>1, <2>3, <3>3
  <2> QED
    BY <2>4, <2>5
<1> QED
  BY <1>10, <1>12, <1>13, <1>14 DEF JobInv

\* A TUI dies.
LEMMA KillKeepsJobInv ==
  ASSUME JobInv, NEW a \in Apps, Jobs!KillApp(a)
  PROVE  JobInv'
<1> DEFINE v == view[a]
           w == Jobs!NewView
<1>1. /\ JobTypes /\ v \in Views /\ RegistryIsSane /\ ScansAreRegistered /\ TodoIsSane(v)
      /\ view \in [Apps -> Views]
  BY DEF JobInv, JobTypes, ScreensAreSane, ScreenIsSane
<1>2. /\ view' = [view EXCEPT ![a] = w] /\ UNCHANGED <<process, banner, registry, blank, scans>>
      /\ exposed \subseteq exposed'
      /\ \A i \in DOMAIN v.todo : v.todo[i].kind = "add" => v.todo[i].job.scan \in exposed'
      /\ v.step = "truncated" => Jobs!ScansNow \subseteq exposed'
  BY DEF Jobs!KillApp
<1>3. w \in Views /\ w.step = "idle"
  BY DEF Jobs!NewView, Views, AnyJob
<1>4. ScreenIsSane(w)
  BY DEF Jobs!NewView, ScreenIsSane, ViewIsSane, TodoIsSane, JobsAreSane, OncePerPid
<1> HIDE DEF w
<1>5. /\ view' \in [Apps -> Views] /\ view'[a] = w /\ \A b \in Apps : b # a => view'[b] = view[b]
      /\ ScreensAreSane'
  BY <1>2, <1>3, <1>4, ScreensStaySane
<1>6. JobTypes'
  BY <1>1, <1>2, <1>5 DEF JobTypes
<1>7. RegistryIsSane'
  <2>1. \A j : Believable(j) => Believable(j)'
    BY <1>2, ExposureDisturbsNothing
  <2> QED
    BY <1>1, <1>2, <2>1 DEF RegistryIsSane, OncePerPid
<1>8. ScansAreRegistered'
  <2> SUFFICES ASSUME NEW p \in Pids, Wanted(p)', ~Jobs!AboutToRegister(p)'
               PROVE  \/ In(registry', p, process'[p].scan)
                      \/ \E b \in Apps : view'[b].step = "truncated" /\ In(view'[b].jobs, p, process'[p].scan)
    BY DEF ScansAreRegistered
  <2>1. Wanted(p) /\ process'[p] = process[p] /\ process[p].scan \notin exposed'
    BY <1>2, ExposureDisturbsNothing DEF Wanted, Trusted
  <2>2. process[p].scan \in Jobs!ScansNow
    BY <2>1 DEF Jobs!ScansNow, Jobs!Running, Wanted, Trusted
  <2>3. ~Jobs!AboutToRegister(p)
    <3> SUFFICES ASSUME NEW b \in Apps, NEW i \in DOMAIN view[b].todo,
                        view[b].todo[i].kind = "add", view[b].todo[i].job.pid = p
                 PROVE  FALSE
      BY DEF Jobs!AboutToRegister
    <3>1. CASE b # a
      BY <1>5, <3>1 DEF Jobs!AboutToRegister
    <3>2. CASE b = a
      <4>1. Believable(v.todo[i].job) /\ v.todo[i].job.scan \in exposed'
        BY <1>1, <1>2, <3>2 DEF TodoIsSane
      <4>2. process[p].scan = v.todo[i].job.scan
        BY <2>1, <3>2, <4>1 DEF Believable, Wanted
      <4> QED
        BY <2>1, <4>1, <4>2
    <3> QED
      BY <3>1, <3>2
  <2>4. ASSUME NEW b \in Apps, view[b].step = "truncated", In(view[b].jobs, p, process[p].scan)
        PROVE  view'[b].step = "truncated" /\ In(view'[b].jobs, p, process'[p].scan)
    <3>1. b # a
      BY <1>2, <2>1, <2>2, <2>4
    <3> QED
      BY <1>5, <2>1, <2>4, <3>1
  <2> QED
    BY <1>1, <1>2, <2>1, <2>3, <2>4 DEF ScansAreRegistered
<1> QED
  BY <1>5, <1>6, <1>7, <1>8 DEF JobInv

\* What a screen holds is known: a pid that it names is recycled if it is taken again.
LEMMA UnknownIsNew ==
  ASSUME JobTypes, NEW q \in Pids, ~Jobs!Known(q)
  PROVE  /\ \A i \in DOMAIN registry : registry[i].pid # q
         /\ \A b \in Apps : /\ view[b].job.pid # q
                            /\ \A i \in DOMAIN view[b].todo : view[b].todo[i].job.pid # q
                            /\ \A i \in DOMAIN view[b].jobs : view[b].jobs[i].pid # q
  BY DEF Jobs!Known

\* A scan is started, and its screen is about to register it.
LEMMA PopenKeepsJobInv ==
  ASSUME JobInv, NEW a \in Apps, NEW q \in Pids, NEW o \in Catalogs, NEW w \in Views,
         Jobs!Popen(q, o), view' = [view EXCEPT ![a] = w], UNCHANGED <<banner, registry, blank>>,
         DOMAIN view[a].todo = {},
         w.job = Jobs!NewJob(q, o), ~w.paused, w.says # "complete", w.step = "idle", w.jobs = <<>>,
         \E k \in DOMAIN w.todo : w.todo[k].kind = "add" /\ w.todo[k].job = Jobs!NewJob(q, o),
         \A k \in DOMAIN w.todo :
           /\ ~w.todo[k].attach
           /\ \/ w.todo[k].kind = "add" /\ w.todo[k].job = Jobs!NewJob(q, o)
              \/ /\ w.todo[k].kind = "remove" /\ w.todo[k].job = view[a].job
                 /\ view[a].job # Jobs!NoJob /\ view[a].paused
  PROVE  JobInv'
<1> DEFINE new == [output |-> o, scan |-> scans + 1, signal |-> "none"]
<1>1. /\ JobTypes /\ RegistryIsSane /\ ScreensAreSane /\ ScansAreRegistered
      /\ view \in [Apps -> Views] /\ scans \in Nat /\ process \in [Pids -> Processes]
  BY DEF JobInv, JobTypes
<1>2. /\ process[q] = Jobs!NoProcess
      /\ process' = [process EXCEPT ![q] = new]
      /\ scans' = scans + 1
      /\ exposed \subseteq exposed' /\ (scans + 1 \in exposed' \/ ~Jobs!Known(q))
  BY DEF Jobs!Popen
<1>3. new \in Processes /\ new.scan = scans + 1 /\ new # Jobs!NoProcess
  BY <1>1, NoScan DEF Processes
<1> HIDE DEF new
<1>4. /\ process' \in [Pids -> Processes] /\ process'[q] = new
      /\ \A p \in Pids : p # q => process'[p] = process[p]
  BY <1>1, <1>2, <1>3
<1>5. PICK job \in JobSet : /\ job = Jobs!NewJob(q, o)
                           /\ job.pid = q /\ job.scan = scans + 1 /\ job # Jobs!NoJob
  BY <1>1, NoScan, PidsAssumption DEF Jobs!NewJob, JobSet
<1>6. view' \in [Apps -> Views] /\ view'[a] = w /\ \A b \in Apps : b # a => view'[b] = view[b]
  BY <1>1
<1>7. JobTypes'
  BY <1>1, <1>2, <1>4, <1>6 DEF JobTypes
<1>8. ASSUME NEW j, scans + 1 \in exposed' \/ j.pid # q
      PROVE  WorldMoves(j)
  BY <1>1, <1>2, <1>3, <1>4, <1>8 DEF WorldMoves
<1>9. scans + 1 \notin exposed' =>
        /\ \A i \in DOMAIN registry : registry[i].pid # q
        /\ \A b \in Apps : /\ view[b].job.pid # q
                           /\ \A i \in DOMAIN view[b].todo : view[b].todo[i].job.pid # q
                           /\ \A i \in DOMAIN view[b].jobs : view[b].jobs[i].pid # q
  BY <1>1, <1>2, UnknownIsNew
<1>10. RegistryIsSane'
  <2>1. ASSUME NEW j \in JobSet, NEW i \in DOMAIN registry, registry[i] = j
        PROVE  Believable(j)'
    <3>1. Believable(j) /\ WorldMoves(j)
      BY <1>1, <1>8, <1>9, <2>1 DEF RegistryIsSane
    <3> QED
      BY <1>1, <1>7, <3>1, BelievableStays
  <2>2. \A j \in JobSet : (\E i \in DOMAIN registry : registry[i] = j) => Believable(j)'
    BY <2>1
  <2>3. \A p \in Pids : process'[p].scan <= scans'
    BY <1>1, <1>2, <1>3, <1>4, RunningHasScan DEF RegistryIsSane
  <2> QED
    BY <1>1, <2>2, <2>3 DEF RegistryIsSane, OncePerPid
<1>11. Believable(job)'
  <2>1. \A p \in Pids : process'[p].scan = scans + 1 => p = q
    BY <1>1, <1>4, RunningHasScan DEF RegistryIsSane
  <2> QED
    BY <1>1, <1>2, <1>3, <1>4, <1>5, <2>1 DEF Believable, Trusted
<1>12. ASSUME NEW b \in Apps, NEW u \in Views, u = view[b]
       PROVE  ScreenIsSane(u)'
  <2>1. ScreenIsSane(u)
    BY <1>1, <1>12 DEF ScreensAreSane
  <2>2. \A j \in JobSet : j = u.job \/ (\E i \in DOMAIN u.todo : u.todo[i].job = j)
                             \/ (\E i \in DOMAIN u.jobs : u.jobs[i] = j) => WorldMoves(j)
    BY <1>8, <1>9, <1>12
  <2>3. ASSUME NEW j \in JobSet, NEW p \in Pids, j.scan <= scans, process'[p].scan = j.scan
        PROVE  process[p].scan = j.scan /\ (Wanted(p)' => Wanted(p))
    <3>1. j.scan \in Nat /\ j.scan # scans + 1
      BY <1>1, <2>3 DEF JobSet
    <3>2. process'[p] = process[p]
      BY <1>3, <1>4, <2>3, <3>1
    <3> QED
      BY <1>2, <2>3, <3>2 DEF Wanted, Trusted
  <2>4. \A c \in Catalogs : banner[c] \subseteq banner'[c]
    OBVIOUS
  <2>5. scans <= scans'
    BY <1>1, <1>2
  <2> QED
    BY <1>1, <1>7, <2>1, <2>2, <2>3, <2>4, <2>5, ScreenStays
<1>13. ScreenIsSane(w)'
  <2>1. ViewIsSane(w)'
    BY <1>5, <1>11 DEF ViewIsSane
  <2>2. PICK u \in Views : u = view[a]
    BY <1>1
  <2>3. ScreenIsSane(u)'
    BY <1>12, <2>2
  <2>4. u.job # Jobs!NoJob /\ u.paused => Believable(u.job)' /\ ToldToStop(u.job)'
    BY <2>3 DEF ScreenIsSane, ViewIsSane
  <2>5. \A k \in DOMAIN w.todo :
          \/ w.todo[k].kind = "add" /\ w.todo[k].job = job /\ ~w.todo[k].attach
          \/ /\ w.todo[k].kind = "remove" /\ w.todo[k].job = u.job /\ ~w.todo[k].attach
             /\ u.job # Jobs!NoJob /\ u.paused
    BY <1>5, <2>2
  <2>6. TodoIsSane(w)'
    BY <1>5, <1>11, <2>4, <2>5 DEF TodoIsSane
  <2>7. DOMAIN w.jobs = {}
    OBVIOUS
  <2>8. JobsAreSane(w)'
    BY <2>7 DEF JobsAreSane, OncePerPid
  <2> QED
    BY <2>1, <2>8, <2>6 DEF ScreenIsSane
<1>14. ScreensAreSane'
  <2> SUFFICES ASSUME NEW b \in Apps, NEW u \in Views, u = view'[b]
               PROVE  ScreenIsSane(u)'
    BY DEF ScreensAreSane
  <2>1. CASE b = a
    BY <1>6, <1>13, <2>1
  <2>2. CASE b # a
    BY <1>6, <1>12, <2>2
  <2> QED
    BY <2>1, <2>2
<1>15. view[a].step = "idle"
  <2>1. view[a] \in Views /\ ScreenIsSane(view[a])
    BY <1>1 DEF ScreensAreSane
  <2>2. view[a].step # "idle" => view[a].todo # <<>>
    BY <2>1 DEF ScreenIsSane, JobsAreSane
  <2>3. view[a].todo = <<>>
    BY <2>1, ScreenHolds
  <2> QED
    BY <2>2, <2>3
<1>16. ScansAreRegistered'
  <2> SUFFICES ASSUME NEW p \in Pids, Wanted(p)', ~Jobs!AboutToRegister(p)'
               PROVE  \/ In(registry, p, process'[p].scan)
                      \/ \E b \in Apps : view'[b].step = "truncated" /\ In(view'[b].jobs, p, process'[p].scan)
    BY DEF ScansAreRegistered
  <2>1. p # q
    BY <1>5, <1>6 DEF Jobs!AboutToRegister
  <2>2. process'[p] = process[p] /\ Wanted(p)
    BY <1>2, <1>4, <2>1 DEF Wanted, Trusted
  <2>3. ~Jobs!AboutToRegister(p)
    BY <1>6 DEF Jobs!AboutToRegister
  <2>4. \A b \in Apps : view[b].step = "truncated" => view'[b] = view[b]
    BY <1>6, <1>15
  <2> QED
    BY <1>1, <2>2, <2>3, <2>4 DEF ScansAreRegistered
<1> QED
  BY <1>7, <1>10, <1>14, <1>16 DEF JobInv

\* A screen starts a scan, or resumes one that it has paused.
LEMMA SpawnKeepsJobInv ==
  ASSUME JobInv, NEW a \in Apps, NEW q \in Pids, NEW o \in Catalogs, Jobs!SpawnScan(a, q, o)
  PROVE  JobInv'
<1> DEFINE job == Jobs!NewJob(q, o)
           op == Jobs!Op("add", job, FALSE)
           w == [Jobs!NewView EXCEPT !.job = job, !.todo = <<op>>]
<1>1. /\ Jobs!Popen(q, o) /\ view' = [view EXCEPT ![a] = w] /\ UNCHANGED <<banner, registry, blank>>
      /\ view[a].todo = <<>>
  BY DEF Jobs!SpawnScan, Jobs!Ready
<1>2. job \in JobSet
  BY DEF JobInv, JobTypes, Jobs!NewJob, JobSet
<1>3. op \in JobOps /\ op.kind = "add" /\ op.job = job /\ ~op.attach
  BY <1>2 DEF Jobs!Op, JobOps, AnyJob
<1> HIDE DEF op, job
<1>4. /\ w \in Views /\ w.job = job /\ ~w.paused /\ w.says # "complete" /\ w.step = "idle"
      /\ w.jobs = <<>> /\ w.todo = <<op>>
  <2>1. Jobs!NewView \in Views /\ ~Jobs!NewView.paused /\ Jobs!NewView.says # "complete"
        /\ Jobs!NewView.step = "idle" /\ Jobs!NewView.jobs = <<>>
    BY DEF Jobs!NewView, Views, AnyJob
  <2>2. <<op>> \in Seq(JobOps) /\ job \in AnyJob
    BY <1>2, <1>3 DEF AnyJob
  <2> QED
    BY <2>1, <2>2 DEF Views
<1> HIDE DEF w
<1>5. DOMAIN view[a].todo = {}
  BY <1>1
<1>6. 1 \in DOMAIN w.todo /\ \A k \in DOMAIN w.todo : w.todo[k] = op
  BY <1>4
<1> QED
  BY <1>1, <1>3, <1>4, <1>5, <1>6, PopenKeepsJobInv DEF job

\* A paused scan that is resumed is a new process, which the screen is about to register.
LEMMA ResumeKeepsJobInv ==
  ASSUME JobInv, NEW a \in Apps, NEW q \in Pids, Jobs!Attached(a), Jobs!ResumeJob(a, q)
  PROVE  JobInv'
<1> DEFINE o == view[a].job.output
           job == Jobs!NewJob(q, o)
           old == Jobs!Op("remove", view[a].job, FALSE)
           new == Jobs!Op("add", job, FALSE)
           w == [Jobs!NewView EXCEPT !.job = job, !.todo = <<old, new>>]
<1>1. /\ Jobs!Popen(q, o) /\ view' = [view EXCEPT ![a] = w] /\ UNCHANGED <<banner, registry, blank>>
      /\ view[a].todo = <<>> /\ view[a].paused /\ view[a].job # Jobs!NoJob
  BY DEF Jobs!ResumeJob, Jobs!Attached, Jobs!Ready
<1>2. view[a].job \in JobSet
  BY <1>1, ScreenHolds DEF JobInv, JobTypes, AnyJob
<1>3. o \in Catalogs /\ job \in JobSet
  BY <1>2 DEF JobInv, JobTypes, Jobs!NewJob, JobSet
<1>4. /\ new \in JobOps /\ new.kind = "add" /\ new.job = job /\ ~new.attach
      /\ old \in JobOps /\ old.kind = "remove" /\ old.job = view[a].job /\ ~old.attach
  BY <1>2, <1>3 DEF Jobs!Op, JobOps, AnyJob
<1> HIDE DEF new, old, job
<1>5. /\ w \in Views /\ w.job = job /\ ~w.paused /\ w.says # "complete" /\ w.step = "idle"
      /\ w.jobs = <<>> /\ w.todo = <<old, new>>
  <2>1. Jobs!NewView \in Views /\ ~Jobs!NewView.paused /\ Jobs!NewView.says # "complete"
        /\ Jobs!NewView.step = "idle" /\ Jobs!NewView.jobs = <<>>
    BY DEF Jobs!NewView, Views, AnyJob
  <2>2. <<old, new>> \in Seq(JobOps) /\ job \in AnyJob
    BY <1>3, <1>4 DEF AnyJob
  <2> QED
    BY <2>1, <2>2 DEF Views
<1> HIDE DEF w
<1>6. DOMAIN view[a].todo = {}
  BY <1>1
<1>7. 2 \in DOMAIN w.todo /\ w.todo[2] = new /\ \A k \in DOMAIN w.todo : w.todo[k] = old \/ w.todo[k] = new
  BY <1>5
<1> HIDE DEF o
<1> QED
  BY <1>1, <1>3, <1>4, <1>5, <1>6, <1>7, PopenKeepsJobInv DEF job

\* A screen signals the process of its job.
LEMMA SendKeepsJobInv ==
  ASSUME JobInv, NEW a \in Apps, NEW signal \in {"INT", "TERM"}, Jobs!Attached(a), Jobs!Send(a, signal)
  PROVE  JobInv'
<1> DEFINE v == view[a]
           q == v.job.pid
           w == [v EXCEPT !.paused = TRUE]
<1>1. /\ JobTypes /\ RegistryIsSane /\ ScreensAreSane /\ ScansAreRegistered
      /\ view \in [Apps -> Views] /\ scans \in Nat /\ process \in [Pids -> Processes]
  BY DEF JobInv, JobTypes
<1>2. /\ q \in Pids /\ process[q] # Jobs!NoProcess /\ v.todo = <<>> /\ v.job # Jobs!NoJob
      /\ process' = [process EXCEPT ![q].signal = signal]
      /\ view' = [view EXCEPT ![a].paused = TRUE]
      /\ UNCHANGED <<banner, registry, blank, scans, exposed>>
  BY DEF Jobs!Send, Jobs!IsAlive, Jobs!Attached, Jobs!Ready
<1> DEFINE told == [process[q] EXCEPT !.signal = signal]
<1>3. told \in Processes /\ told.scan = process[q].scan /\ told.signal = signal /\ told # Jobs!NoProcess
  <2>1. process[q] \in [output : Catalogs, scan : Nat \ {0}, signal : {"none", "INT", "TERM"}]
    BY <1>1, <1>2 DEF Processes
  <2>2. /\ told \in [output : Catalogs, scan : Nat \ {0}, signal : {"none", "INT", "TERM"}]
        /\ told.scan = process[q].scan /\ told.signal = signal
    BY <2>1
  <2>3. told.scan # 0
    BY <2>2
  <2> HIDE DEF told
  <2> QED
    BY <2>2, <2>3, NoScan DEF Processes
<1>4. /\ process' \in [Pids -> Processes] /\ process'[q] = told
      /\ \A p \in Pids : p # q => process'[p] = process[p]
  <2>1. process' = [process EXCEPT ![q] = told]
    BY <1>1, <1>2
  <2> HIDE DEF told, q
  <2> QED
    BY <1>1, <1>2, <1>3, <2>1
<1>5. /\ view' \in [Apps -> Views] /\ view'[a] = w /\ \A b \in Apps : b # a => view'[b] = view[b]
      /\ w.job = v.job /\ w.says = v.says /\ w.todo = v.todo /\ w.step = v.step
      /\ w.jobs = v.jobs /\ w.base = v.base
  <2>1. v \in Views
    BY <1>1
  <2>2. /\ w \in Views /\ w.job = v.job /\ w.says = v.says /\ w.todo = v.todo /\ w.step = v.step
        /\ w.jobs = v.jobs /\ w.base = v.base
    BY <2>1 DEF Views
  <2>3. view' = [view EXCEPT ![a] = w]
    BY <1>1, <1>2
  <2> HIDE DEF w, v
  <2> QED
    BY <1>1, <2>2, <2>3
<1> HIDE DEF told
<1>6. JobTypes'
  BY <1>1, <1>2, <1>4, <1>5 DEF JobTypes
<1>7. \A j : WorldMoves(j)
  BY <1>1, <1>2, <1>3, <1>4 DEF WorldMoves
<1>8. \A p \in Pids : process'[p].scan = process[p].scan
  BY <1>3, <1>4
<1>9. RegistryIsSane'
  <2>1. ASSUME NEW j \in JobSet, NEW i \in DOMAIN registry, registry[i] = j
        PROVE  Believable(j)'
    <3>1. Believable(j) /\ WorldMoves(j)
      BY <1>1, <1>7, <2>1 DEF RegistryIsSane
    <3> QED
      BY <1>1, <1>6, <3>1, BelievableStays
  <2> QED
    BY <1>1, <1>2, <1>8, <2>1 DEF RegistryIsSane, OncePerPid
<1>10. ASSUME NEW b \in Apps, NEW u \in Views, u = view[b]
       PROVE  ScreenIsSane(u)'
  <2>1. ScreenIsSane(u)
    BY <1>1, <1>10 DEF ScreensAreSane
  <2>2. \A c \in Catalogs : banner[c] \subseteq banner'[c]
    BY <1>2
  <2>3. scans <= scans'
    BY <1>1, <1>2
  <2>4. \A j \in JobSet : \A p \in Pids : j.scan <= scans /\ process'[p].scan = j.scan =>
          process[p].scan = j.scan /\ (Wanted(p)' => Wanted(p))
    BY <1>2, <1>3, <1>4, <1>8 DEF Wanted, Trusted
  <2> QED
    BY <1>1, <1>6, <1>7, <2>1, <2>2, <2>3, <2>4, ScreenStays
<1>11. PICK u \in Views, x \in Views : u = v /\ x = w
  BY <1>1, <1>5
<1>12. ScreenIsSane(x)'
  <2>1. /\ x.job = u.job /\ x.says = u.says /\ x.todo = u.todo /\ x.step = u.step
        /\ x.jobs = u.jobs /\ x.base = u.base /\ u.job # Jobs!NoJob
        /\ DOMAIN x.todo = {} /\ process'[u.job.pid].signal # "none"
    BY <1>2, <1>3, <1>4, <1>5, <1>11
  <2>2. ScreenIsSane(u)'
    BY <1>10, <1>11
  <2>3. ViewIsSane(x)'
    BY <2>1, <2>2 DEF ScreenIsSane, ViewIsSane, ToldToStop
  <2>4. TodoIsSane(x)' /\ JobsAreSane(x)'
    BY <2>1, <2>2 DEF ScreenIsSane, TodoIsSane, JobsAreSane
  <2> QED
    BY <2>3, <2>4 DEF ScreenIsSane
<1>13. ScreensAreSane'
  <2> SUFFICES ASSUME NEW b \in Apps, NEW y \in Views, y = view'[b]
               PROVE  ScreenIsSane(y)'
    BY DEF ScreensAreSane
  <2>1. CASE b = a
    BY <1>5, <1>11, <1>12, <2>1
  <2>2. CASE b # a
    BY <1>5, <1>10, <2>2
  <2> QED
    BY <2>1, <2>2
<1>14. ScansAreRegistered'
  <2> SUFFICES ASSUME NEW p \in Pids, Wanted(p)', ~Jobs!AboutToRegister(p)'
               PROVE  \/ In(registry, p, process'[p].scan)
                      \/ \E b \in Apps : view'[b].step = "truncated" /\ In(view'[b].jobs, p, process'[p].scan)
    BY <1>2 DEF ScansAreRegistered
  <2>1. p # q
    BY <1>3, <1>4 DEF Wanted
  <2>2. process'[p] = process[p] /\ Wanted(p)
    BY <1>2, <1>4, <2>1 DEF Wanted, Trusted
  <2>3. \A b \in Apps : view'[b].todo = view[b].todo /\ view'[b].step = view[b].step /\ view'[b].jobs = view[b].jobs
    BY <1>5
  <2>4. ~Jobs!AboutToRegister(p)
    BY <2>3 DEF Jobs!AboutToRegister
  <2> QED
    BY <1>1, <2>2, <2>3, <2>4 DEF ScansAreRegistered
<1> QED
  BY <1>6, <1>9, <1>13, <1>14 DEF JobInv

\* A scan ends.
LEMMA EndKeepsJobInv ==
  ASSUME JobInv, NEW q \in Pids, Jobs!Ends(q)
  PROVE  JobInv'
<1>1. /\ JobTypes /\ RegistryIsSane /\ ScreensAreSane /\ ScansAreRegistered
      /\ view \in [Apps -> Views] /\ scans \in Nat /\ process \in [Pids -> Processes]
      /\ banner \in [Catalogs -> SUBSET Nat]
  BY DEF JobInv, JobTypes
<1>2. /\ process' = [process EXCEPT ![q] = Jobs!NoProcess]
      /\ UNCHANGED <<registry, blank, view, scans, exposed>>
      /\ \/ banner' = [banner EXCEPT ![process[q].output] = @ \cup {process[q].scan}]
         \/ banner' = banner
  BY DEF Jobs!Ends
<1>3. /\ process' \in [Pids -> Processes] /\ process'[q] = Jobs!NoProcess
      /\ \A p \in Pids : p # q => process'[p] = process[p]
  <2>1. Jobs!NoProcess \in Processes
    BY DEF Processes
  <2> QED
    BY <1>1, <1>2, <2>1
<1>4. banner' \in [Catalogs -> SUBSET Nat] /\ \A c \in Catalogs : banner[c] \subseteq banner'[c]
  <2>1. process[q].scan \in Nat
    BY <1>1, RunningHasScan
  <2>2. PICK o, s : s = process[q].scan /\ o = process[q].output
    OBVIOUS
  <2>3. banner' = [banner EXCEPT ![o] = @ \cup {s}] \/ banner' = banner
    BY <1>2, <2>2
  <2>4. s \in Nat
    BY <2>1, <2>2
  <2> QED
    BY <1>1, <2>3, <2>4
<1>5. JobTypes'
  BY <1>1, <1>2, <1>3, <1>4 DEF JobTypes
<1>6. \A j : WorldMoves(j)
  BY <1>1, <1>2, <1>3 DEF WorldMoves
<1>7. RegistryIsSane'
  <2>1. ASSUME NEW j \in JobSet, NEW i \in DOMAIN registry, registry[i] = j
        PROVE  Believable(j)'
    <3>1. Believable(j) /\ WorldMoves(j)
      BY <1>1, <1>6, <2>1 DEF RegistryIsSane
    <3> QED
      BY <1>1, <1>5, <3>1, BelievableStays
  <2>2. \A p \in Pids : process'[p].scan <= scans
    BY <1>1, <1>3, NoScan DEF RegistryIsSane
  <2> QED
    BY <1>1, <1>2, <2>1, <2>2 DEF RegistryIsSane, OncePerPid
<1>8. ScreensAreSane'
  <2> SUFFICES ASSUME NEW b \in Apps, NEW u \in Views, u = view'[b]
               PROVE  ScreenIsSane(u)'
    BY DEF ScreensAreSane
  <2>1. ScreenIsSane(u)
    BY <1>1, <1>2 DEF ScreensAreSane
  <2>2. scans <= scans'
    BY <1>1, <1>2
  <2>3. \A j \in JobSet : \A p \in Pids : j.scan <= scans /\ process'[p].scan = j.scan =>
          process[p].scan = j.scan /\ (Wanted(p)' => Wanted(p))
    BY <1>2, <1>3, NoScan DEF JobSet, Wanted, Trusted
  <2> QED
    BY <1>1, <1>4, <1>5, <1>6, <2>1, <2>2, <2>3, ScreenStays
<1>9. ScansAreRegistered'
  <2>1. \A p \in Pids : Jobs!AboutToRegister(p)' <=> Jobs!AboutToRegister(p)
    BY <1>2 DEF Jobs!AboutToRegister
  <2>2. \A p \in Pids : Wanted(p)' => Wanted(p) /\ process'[p] = process[p]
    BY <1>2, <1>3 DEF Wanted, Trusted
  <2> QED
    BY <1>1, <1>2, <2>1, <2>2 DEF ScansAreRegistered
<1> QED
  BY <1>5, <1>7, <1>8, <1>9 DEF JobInv

\* JobInv is kept by every step.
LEMMA JobStep == JobInv /\ [Jobs!Next]_Jobs!vars => JobInv'
<1> SUFFICES ASSUME JobInv, [Jobs!Next]_Jobs!vars
             PROVE  JobInv'
  OBVIOUS
<1>1. CASE \E a \in Apps : \/ Jobs!LoadJobs(a) \/ Jobs!TruncateJobs(a) \/ Jobs!WriteJobs(a)
                           \/ Jobs!Back(a) \/ Jobs!Reattach(a) \/ Jobs!KillApp(a)
  BY <1>1, LoadKeepsJobInv, TruncateKeepsJobInv, WriteKeepsJobInv, BackKeepsJobInv, KillKeepsJobInv
<1>2. CASE \E a \in Apps, p \in Pids, o \in Catalogs : Jobs!SpawnScan(a, p, o)
  BY <1>2, SpawnKeepsJobInv
<1>3. CASE \E a \in Apps, p \in Pids : Jobs!Attached(a) /\ Jobs!ResumeJob(a, p)
  BY <1>3, ResumeKeepsJobInv
<1>4. CASE \E a \in Apps : Jobs!Attached(a) /\ (Jobs!Pause(a) \/ Jobs!CancelScan(a))
  BY <1>4, SendKeepsJobInv DEF Jobs!Pause, Jobs!CancelScan
<1>5. CASE \E a \in Apps : Jobs!Attached(a) /\ Jobs!Watch(a)
  BY <1>5, WatchKeepsJobInv
<1>6. CASE \E p \in Pids : Jobs!Ends(p)
  BY <1>6, EndKeepsJobInv
<1>7. CASE UNCHANGED Jobs!vars
  <2>1. /\ UNCHANGED <<process, banner, registry, blank, view, scans, exposed>>
    BY <1>7 DEF Jobs!vars
  <2>2. JobTypes' /\ RegistryIsSane'
    BY <2>1 DEF JobInv, JobTypes, RegistryIsSane, OncePerPid, Believable, Trusted
  <2>3. ScreensAreSane'
    BY <2>1, ExposureDisturbsNothing DEF JobInv, ScreensAreSane
  <2>4. ScansAreRegistered'
    BY <2>1 DEF JobInv, ScansAreRegistered, Wanted, Trusted, Jobs!AboutToRegister
  <2> QED
    BY <2>2, <2>3, <2>4 DEF JobInv
<1> QED
  BY <1>1, <1>2, <1>3, <1>4, <1>5, <1>6, <1>7 DEF Jobs!Next

\* JobInv implies what the run checks.
LEMMA JobInvSuffices == JobInv => JobInvariant
<1> SUFFICES ASSUME JobInv
             PROVE  Jobs!RunningIsRegistered /\ Jobs!CompleteMeansEnded
  BY DEF JobInvariant, Jobs!JobInvariant
<1>1. Jobs!RunningIsRegistered
  <2>1. \A jobs, p : OncePerPid(jobs) /\ In(jobs, p, process[p].scan) => Jobs!Lists(jobs, p)
    BY DEF OncePerPid, In, Jobs!Lists
  <2>2. OncePerPid(registry) /\ \A a \in Apps : OncePerPid(view[a].jobs)
    BY DEF JobInv, JobTypes, RegistryIsSane, ScreensAreSane, ScreenIsSane, JobsAreSane
  <2> QED
    BY <2>1, <2>2 DEF JobInv, ScansAreRegistered, Wanted, Trusted, Jobs!RunningIsRegistered, Jobs!Running
<1>2. \A a \in Apps : view[a] \in Views /\ ScreenIsSane(view[a])
  BY DEF JobInv, JobTypes, ScreensAreSane
<1>3. Jobs!CompleteMeansEnded
  BY <1>2 DEF ScreenIsSane, ViewIsSane, Jobs!CompleteMeansEnded
<1> QED
  BY <1>1, <1>3

\* What the desk does to the variables of the scan jobs is a behaviour of theirs.
LEMMA DeskRunsTheJobs == DeskSpec => Jobs!Spec
<1>1. DeskInit => Jobs!Init
  BY DEF DeskInit
<1>2. [DeskNext]_deskVars => [Jobs!Next]_Jobs!vars
  BY DEF DeskNext, deskVars, jobsVars, Jobs!vars
<1> QED
  BY <1>1, <1>2, PTL DEF DeskSpec, Jobs!Spec

\* However many terminal interfaces load, change, truncate and write the registry
\* without a lock, and whenever one of them dies: a scan that runs, that nobody has told
\* to stop and that is not about to be registered is in the registry, or in what is
\* about to be written there, once, unless a save that overlapped another, a TUI's
\* death or a recycled pid exposed this scan; and a screen that says "complete" has
\* seen its scan's process gone and a banner in its log (scanjobs.py,
\* tui/screens/scan.py).
THEOREM RunningScansAreFound == DeskSpec => []JobInvariant
  BY JobsInitially, JobStep, JobInvSuffices, DeskRunsTheJobs, PTL DEF Jobs!Spec
=============================================================================
