----------------------------- MODULE PipelineProofs -----------------------------
(***************************************************************************)
(* Proofs about the ingestion pipeline, for any number of feeders, files   *)
(* and chains and any faults.                                              *)
(***************************************************************************)
EXTENDS IngestionPipeline, FiniteSetTheorems, TLAPS

\* An UPDATE writes a row, whose status is the old one or the new one.
LEMMA UpdatedType ==
  ASSUME NEW row \in LogRow, NEW seen \in LogRow, NEW new \in LogRow
  PROVE  /\ Updated(row, seen, new) \in LogRow
         /\ Updated(row, seen, new).status \in {row.status, new.status}
  BY DEF Updated, LogRow

\* The rows that feeders and chains write are rows.
LEMMA RowTypes ==
  /\ NoRow \in LogRow /\ Pending \in LogRow
  /\ [status |-> "failed", error |-> TRUE] \in LogRow
  /\ \A seen \in LogRow : /\ Requeued(seen) = Pending
                          /\ [seen EXCEPT !.status = "success"] \in LogRow
                          /\ \A e \in BOOLEAN : [seen EXCEPT !.error = e] \in LogRow
  BY DEF NoRow, Pending, Requeued, LogRow, Statuses

FeederState == [step : FeederSteps, file : Files, seen : LogRow]
ChainState == [stage : Stages, hash : Hashes, known : BOOLEAN, seen : LogRow]

\* A chain that goes on stays a chain.
LEMMA AdvanceType ==
  ASSUME NEW c \in Chains, NEW from, NEW to \in Stages,
         chain \in [Chains -> ChainState], Advance(c, from, to)
  PROVE  chain' \in [Chains -> ChainState]
  BY DEF Advance, ChainState

\* A commit of load_to_postgres leaves rows in the log and chains in the catalogue.
LEMMA LoadedType ==
  ASSUME TypeOK, NEW c \in Chains, Loaded(c)
  PROVE  log' \in [Hashes -> LogRow] /\ catalogue' \in [Hashes -> SUBSET Chains]
<1>1. chain[c].hash \in Hashes /\ chain[c].seen \in LogRow
  BY DEF TypeOK
<1>2. \A row \in LogRow :
        Updated(row, chain[c].seen, [chain[c].seen EXCEPT !.status = "success"]) \in LogRow
  BY <1>1, RowTypes, UpdatedType
<1> QED
  BY <1>1, <1>2 DEF TypeOK, Loaded

\* No step breaks the types.
LEMMA TypeStep == TypeOK /\ [Next]_vars => TypeOK'
<1> SUFFICES ASSUME TypeOK, [Next]_vars
             PROVE  TypeOK'
  OBVIOUS
<1> USE DEF FeederState, ChainState
<1>1. ASSUME NEW p \in Feeders, NEW f \in Files, Decide(p, f)
      PROVE  TypeOK'
  <2>1. log[HashOf[f]] \in LogRow
    BY HashAssumption DEF TypeOK
  <2>2. [step |-> "decided", file |-> f, seen |-> log[HashOf[f]]] \in FeederState
    BY <2>1 DEF FeederSteps
  <2>3. feeder' \in [Feeders -> FeederState]
    BY <1>1, <2>2 DEF TypeOK, Decide
  <2> QED
    BY <1>1, <2>3 DEF TypeOK, Decide
<1>2. ASSUME NEW p \in Feeders, CommitLog(p)
      PROVE  TypeOK'
  <2>1. HashOf[feeder[p].file] \in Hashes /\ feeder[p].seen \in LogRow
    BY HashAssumption DEF TypeOK
  <2>2. \A row \in LogRow : Updated(row, feeder[p].seen, Requeued(feeder[p].seen)) \in LogRow
    BY <2>1, RowTypes, UpdatedType
  <2>3. log' \in [Hashes -> LogRow]
    BY <1>2, <2>1, <2>2, RowTypes DEF TypeOK, CommitLog
  <2>4. feeder' \in [Feeders -> FeederState]
    BY <1>2 DEF TypeOK, CommitLog, FeederSteps
  <2> QED
    BY <1>2, <2>3, <2>4 DEF TypeOK, CommitLog
<1>3. ASSUME NEW p \in Feeders, Trigger(p) \/ TriggerFails(p)
      PROVE  TypeOK'
  <2>1. feeder' \in [Feeders -> FeederState]
    BY <1>3 DEF TypeOK, Trigger, TriggerFails, FeederSteps
  <2>2. chain' \in [Chains -> ChainState]
    <3>1. HashOf[feeder[p].file] \in Hashes
      BY HashAssumption DEF TypeOK
    <3>2. ASSUME NEW c \in Chains,
                 chain' = [chain EXCEPT ![c].stage = "standardize",
                                        ![c].hash = HashOf[feeder[p].file]]
          PROVE  chain' \in [Chains -> ChainState]
      <4>1. chain' = [chain EXCEPT ![c] = [@ EXCEPT !.stage = "standardize",
                                                    !.hash = HashOf[feeder[p].file]]]
        BY <3>2 DEF TypeOK
      <4>2. [chain[c] EXCEPT !.stage = "standardize", !.hash = HashOf[feeder[p].file]] \in ChainState
        BY <3>1 DEF TypeOK, Stages, ActiveStages
      <4> QED
        BY <4>1, <4>2 DEF TypeOK
    <3>3. CASE UNCHANGED chain
      BY <3>3 DEF TypeOK
    <3> QED
      BY <1>3, <3>2, <3>3 DEF Trigger, TriggerFails
  <2> QED
    BY <1>3, <2>1, <2>2 DEF TypeOK, Trigger, TriggerFails, Fault
<1>4. ASSUME NEW c \in Chains, Standardize(c) \/ Validate(c) \/ WorkerDies(c)
      PROVE  TypeOK'
  <2>1. chain' \in [Chains -> ChainState]
    BY <1>4 DEF TypeOK, Standardize, Validate, WorkerDies, Advance, Stages, ActiveStages
  <2> QED
    BY <1>4, <2>1 DEF TypeOK, Standardize, Validate, WorkerDies, Fault
<1>5. ASSUME NEW c \in Chains, CheckCatalogue(c) \/ FindLog(c) \/ FindLogAgain(c)
      PROVE  TypeOK'
  <2>1. chain[c].hash \in Hashes
    BY DEF TypeOK
  <2>2. log[chain[c].hash] \in LogRow
    BY <2>1 DEF TypeOK
  <2>3. chain' \in [Chains -> ChainState]
    BY <1>5, <2>2 DEF TypeOK, CheckCatalogue, FindLog, FindLogAgain, Stages, ActiveStages
  <2> QED
    BY <1>5, <2>3 DEF TypeOK, CheckCatalogue, FindLog, FindLogAgain
<1>6. ASSUME NEW c \in Chains, CommitLoad(c) \/ LoadFails(c)
      PROVE  TypeOK'
  <2>1. chain' \in [Chains -> ChainState]
    BY <1>6 DEF TypeOK, CommitLoad, LoadFails, Advance, Stages, ActiveStages
  <2>2. log' \in [Hashes -> LogRow] /\ catalogue' \in [Hashes -> SUBSET Chains]
    BY <1>6, LoadedType DEF TypeOK, CommitLoad, LoadFails
  <2> QED
    BY <1>6, <2>1, <2>2 DEF TypeOK, CommitLoad, LoadFails, Fault
<1>7. ASSUME NEW c \in Chains, RecordFailure(c)
      PROVE  TypeOK'
  <2>1. chain' \in [Chains -> ChainState]
    BY <1>7 DEF TypeOK, RecordFailure, Advance, Stages, ActiveStages
  <2>2. chain[c].hash \in Hashes /\ chain[c].seen \in LogRow /\ chain[c].seen.error \in BOOLEAN
    BY DEF TypeOK, LogRow
  <2>3. \A row \in LogRow, e \in BOOLEAN :
          Updated(row, [chain[c].seen EXCEPT !.error = e], [status |-> "failed", error |-> TRUE])
            \in LogRow
    BY <2>2, RowTypes, UpdatedType
  <2>4. PICK e \in BOOLEAN :
          log' = [log EXCEPT ![chain[c].hash] =
                    IF chain[c].seen.status = "none" THEN @
                    ELSE Updated(@, [chain[c].seen EXCEPT !.error = e],
                                 [status |-> "failed", error |-> TRUE])]
    BY <1>7, <2>2 DEF RecordFailure
  <2>5. log' \in [Hashes -> LogRow]
    BY <2>2, <2>3, <2>4 DEF TypeOK
  <2> QED
    BY <1>7, <2>1, <2>5 DEF TypeOK, RecordFailure
<1>8. CASE UNCHANGED vars
  BY <1>8 DEF TypeOK, vars
<1> QED
  BY <1>1, <1>2, <1>3, <1>4, <1>5, <1>6, <1>7, <1>8 DEF Next

\* Every reachable state of the pipeline has the declared types.
THEOREM TypeInvariant == Spec => []TypeOK
<1>1. Init => TypeOK
  <2>1. (CHOOSE f \in Files : TRUE) \in Files /\ (CHOOSE h \in Hashes : TRUE) \in Hashes
    BY HashAssumption
  <2> QED
    BY <2>1, RowTypes DEF Init, TypeOK, FeederSteps, Stages
<1> QED
  BY <1>1, TypeStep, PTL DEF Spec

-----------------------------------------------------------------------------
\* A chain that found its content in the catalogue was right and stays right.
KnownIsCatalogued ==
  \A c \in Chains :
    (chain[c].stage \in {"checked", "found"} /\ chain[c].known) => catalogue[chain[c].hash] # {}

\* After a commit of load_to_postgres the content is catalogued and no other log row has
\* changed.
LEMMA LoadedCatalogues ==
  ASSUME TypeOK, KnownIsCatalogued, NEW c \in Chains, Loaded(c), chain[c].stage = "found"
  PROVE  /\ catalogue'[chain[c].hash] # {}
         /\ \A h \in Hashes : catalogue[h] \subseteq catalogue'[h]
         /\ \A h \in Hashes \ {chain[c].hash} : log'[h] = log[h]
<1>1. chain[c].hash \in Hashes
  BY DEF TypeOK
<1>2. catalogue' = [catalogue EXCEPT ![chain[c].hash] = IF chain[c].known THEN @ ELSE @ \cup {c}]
  BY DEF Loaded
<1>3. catalogue'[chain[c].hash] # {}
  BY <1>1, <1>2 DEF TypeOK, KnownIsCatalogued
<1>4. \A h \in Hashes : catalogue[h] \subseteq catalogue'[h]
  BY <1>2 DEF TypeOK
<1>5. \A h \in Hashes \ {chain[c].hash} : log'[h] = log[h]
  BY DEF Loaded, TypeOK
<1> QED
  BY <1>3, <1>4, <1>5

\* No success in the log without its row in the catalogue, whatever the feeders
\* and the chains write over each other (_load_to_postgres).
THEOREM SuccessStaysCatalogued == Spec => []SuccessIsCatalogued
<1> DEFINE Catalogued == SuccessIsCatalogued /\ KnownIsCatalogued
<1>1. Init => Catalogued
  BY DEF Init, SuccessIsCatalogued, KnownIsCatalogued, NoRow
<1>2. TypeOK /\ Catalogued /\ [Next]_vars => Catalogued'
  <2> SUFFICES ASSUME TypeOK, Catalogued, [Next]_vars
               PROVE  Catalogued'
    OBVIOUS
  <2>1. ASSUME NEW p \in Feeders, NEW f \in Files, Decide(p, f)
        PROVE  Catalogued'
    BY <2>1 DEF Decide, SuccessIsCatalogued, KnownIsCatalogued
  <2>2. ASSUME NEW p \in Feeders, CommitLog(p)
        PROVE  Catalogued'
    <3>1. HashOf[feeder[p].file] \in Hashes /\ feeder[p].seen \in LogRow
      BY HashAssumption DEF TypeOK
    <3>2. \A row \in LogRow :
            Updated(row, feeder[p].seen, Requeued(feeder[p].seen)).status \in {row.status, "pending"}
      <4>1. \A row \in LogRow : Updated(row, feeder[p].seen, Pending).status \in {row.status, Pending.status}
        BY <3>1, RowTypes, UpdatedType
      <4> QED
        BY <3>1, <4>1, RowTypes DEF Pending
    <3>3. \A h \in Hashes : log'[h].status = "success" => log[h].status = "success"
      BY <2>2, <3>1, <3>2 DEF CommitLog, TypeOK, Pending
    <3> QED
      BY <2>2, <3>3 DEF CommitLog, SuccessIsCatalogued, KnownIsCatalogued
  <2>3. ASSUME NEW p \in Feeders, Trigger(p) \/ TriggerFails(p)
        PROVE  Catalogued'
    <3>1. \A c \in Chains : chain'[c].stage \in {"checked", "found"} => chain'[c] = chain[c]
      BY <2>3 DEF Trigger, TriggerFails, TypeOK
    <3>2. UNCHANGED <<log, catalogue>>
      BY <2>3 DEF Trigger, TriggerFails
    <3> QED
      BY <3>1, <3>2 DEF SuccessIsCatalogued, KnownIsCatalogued
  <2>4. ASSUME NEW c \in Chains, Standardize(c) \/ Validate(c) \/ WorkerDies(c) \/ FindLogAgain(c)
        PROVE  Catalogued'
    <3>1. \A d \in Chains : chain'[d].stage \in {"checked", "found"} => chain'[d] = chain[d]
      BY <2>4 DEF Standardize, Validate, WorkerDies, FindLogAgain, Advance, TypeOK
    <3>2. UNCHANGED <<log, catalogue>>
      BY <2>4 DEF Standardize, Validate, WorkerDies, FindLogAgain
    <3> QED
      BY <3>1, <3>2 DEF SuccessIsCatalogued, KnownIsCatalogued
  <2>5. ASSUME NEW c \in Chains, CheckCatalogue(c) \/ FindLog(c)
        PROVE  Catalogued'
    <3>1. UNCHANGED <<log, catalogue>>
      BY <2>5 DEF CheckCatalogue, FindLog
    <3>2. \A d \in Chains \ {c} : chain'[d] = chain[d]
      BY <2>5 DEF CheckCatalogue, FindLog, TypeOK
    <3>3. /\ chain'[c].hash = chain[c].hash
          /\ chain'[c].known => catalogue[chain[c].hash] # {}
      BY <2>5 DEF CheckCatalogue, FindLog, TypeOK, KnownIsCatalogued
    <3> QED
      BY <3>1, <3>2, <3>3 DEF SuccessIsCatalogued, KnownIsCatalogued
  <2>6. ASSUME NEW c \in Chains, CommitLoad(c) \/ LoadFails(c)
        PROVE  Catalogued'
    <3>1. \/ Loaded(c) /\ chain[c].stage = "found"
          \/ UNCHANGED <<log, catalogue>>
      BY <2>6 DEF CommitLoad, LoadFails, Advance
    <3>2. \A d \in Chains : /\ chain'[d].hash = chain[d].hash
                            /\ chain'[d].stage \in {"checked", "found"} => chain'[d] = chain[d]
      BY <2>6 DEF CommitLoad, LoadFails, Advance, TypeOK
    <3>3. \A d \in Chains : chain[d].hash \in Hashes
      BY DEF TypeOK
    <3>4. CASE Loaded(c) /\ chain[c].stage = "found"
      BY <3>2, <3>3, <3>4, LoadedCatalogues DEF SuccessIsCatalogued, KnownIsCatalogued
    <3>5. CASE UNCHANGED <<log, catalogue>>
      BY <3>2, <3>5 DEF SuccessIsCatalogued, KnownIsCatalogued
    <3> QED
      BY <3>1, <3>4, <3>5
  <2>7. ASSUME NEW c \in Chains, RecordFailure(c)
        PROVE  Catalogued'
    <3>1. chain[c].hash \in Hashes /\ chain[c].seen \in LogRow /\ chain[c].seen.error \in BOOLEAN
      BY DEF TypeOK, LogRow
    <3>2. \A row \in LogRow, e \in BOOLEAN :
            Updated(row, [chain[c].seen EXCEPT !.error = e], [status |-> "failed", error |-> TRUE]).status
              \in {row.status, "failed"}
      <4>1. \A e \in BOOLEAN : [chain[c].seen EXCEPT !.error = e] \in LogRow
        BY <3>1, RowTypes
      <4> QED
        BY <4>1, RowTypes, UpdatedType
    <3>3. PICK e \in BOOLEAN :
            log' = [log EXCEPT ![chain[c].hash] =
                      IF chain[c].seen.status = "none" THEN @
                      ELSE Updated(@, [chain[c].seen EXCEPT !.error = e],
                                   [status |-> "failed", error |-> TRUE])]
      BY <2>7, <3>1 DEF RecordFailure
    <3>5. \A h \in Hashes : log'[h].status = "success" => log[h].status = "success"
      BY <3>1, <3>2, <3>3 DEF TypeOK
    <3>4. \A d \in Chains : chain'[d].stage \in {"checked", "found"} => chain'[d] = chain[d]
      BY <2>7 DEF RecordFailure, Advance, TypeOK
    <3> QED
      BY <2>7, <3>5, <3>4 DEF RecordFailure, SuccessIsCatalogued, KnownIsCatalogued
  <2>8. CASE UNCHANGED vars
    BY <2>8 DEF vars, SuccessIsCatalogued, KnownIsCatalogued
  <2> QED
    BY <2>1, <2>2, <2>3, <2>4, <2>5, <2>6, <2>7, <2>8 DEF Next
<1> QED
  BY <1>1, <1>2, TypeInvariant, PTL DEF Spec

-----------------------------------------------------------------------------
(* One dispatcher feeds the pipeline.                                      *)

\* A single dispatch callback and no FileScanner: two feeders that read the same
\* row both queue it, and a scanner queues what is in flight.
SoleDispatcher == Scanners = {} /\ \A p, q \in Dispatchers : p = q

Succeeded == [status |-> "success", error |-> FALSE]

\* No chain works on h.
Resting(h) == \A c \in Chains : Active(c) => chain[c].hash # h

\* What the log and the catalogue hold for a chain, stage by stage: nobody else
\* writes them while it is under way, so what it has read is what is there.
ChainRow(c) ==
  LET h == chain[c].hash
      stage == chain[c].stage
  IN  /\ stage \in {"standardize", "validate", "load", "checked", "found"} => log[h] = Pending
      /\ stage \in {"failing", "reporting"} => log[h] \in {Pending, Succeeded}
      /\ stage \in {"found", "reporting"} => chain[c].seen = log[h]
      /\ stage \in {"checked", "found"} => (chain[c].known <=> catalogue[h] # {})

\* What a feeder has decided still holds when it commits and when it sends.
FeederRow(p) ==
  LET h == HashOf[feeder[p].file]
  IN  /\ feeder[p].step = "decided" => /\ Resting(h)
                                       /\ feeder[p].seen = log[h]
                                       /\ log[h].status \in {"none", "failed"}
      /\ feeder[p].step = "committed" => Resting(h) /\ log[h] = Pending

OneRow(h) == catalogue[h] = {} \/ \E c \in Chains : catalogue[h] = {c}

SoleInv ==
  /\ OneChainPerHash
  /\ \A c \in Chains : ChainRow(c)
  /\ \A p \in Feeders : FeederRow(p)
  /\ \A h \in Hashes : OneRow(h)
  /\ CleanSuccess

\* A step of a chain under way that touches the rows of its own content only.
LEMMA ChainStepKeeps ==
  ASSUME TypeOK, SoleInv, NEW c \in Chains, NEW h \in Hashes,
         Active(c), chain[c].hash = h, chain'[c].hash = h,
         feeder' = feeder,
         \A d \in Chains \ {c} : chain'[d] = chain[d],
         \A j \in Hashes \ {h} : log'[j] = log[j] /\ catalogue'[j] = catalogue[j],
         ChainRow(c)', OneRow(h)', log'[h].status = "success" => ~log'[h].error
  PROVE  SoleInv'
<1>1. \A d \in Chains \ {c} : Active(d)' <=> Active(d)
  BY DEF Active
<1>2. \A d \in Chains \ {c} : Active(d) => chain[d].hash \in Hashes \ {h}
  BY DEF TypeOK, SoleInv, OneChainPerHash
<1>3. OneChainPerHash'
  BY <1>1, <1>2 DEF SoleInv, OneChainPerHash
<1>4. ASSUME NEW d \in Chains
      PROVE  ChainRow(d)'
  <2>1. CASE d = c
    BY <2>1
  <2>2. CASE d # c /\ Active(d)
    <3>1. /\ chain'[d] = chain[d] /\ chain[d].hash \in Hashes \ {h} /\ ChainRow(d)
      BY <1>2, <2>2 DEF SoleInv
    <3> QED
      BY <3>1 DEF ChainRow
  <2>3. CASE d # c /\ ~Active(d)
    <3>1. chain'[d] = chain[d]
      BY <2>3
    <3> QED
      BY <2>3, <3>1 DEF ChainRow, Active, ActiveStages
  <2> QED
    BY <2>1, <2>2, <2>3
<1>5. ASSUME NEW p \in Feeders
      PROVE  FeederRow(p)'
  <2> DEFINE j == HashOf[feeder[p].file]
  <2>1. FeederRow(p) /\ j \in Hashes
    BY HashAssumption DEF SoleInv, TypeOK
  <2>2. CASE feeder[p].step \in {"decided", "committed"}
    <3>1. Resting(j) /\ j # h
      BY <2>1, <2>2 DEF FeederRow, Resting
    <3>2. log'[j] = log[j]
      BY <2>1, <3>1
    <3>3. \A d \in Chains : Active(d)' => chain'[d].hash # j
      BY <1>1, <3>1 DEF Resting
    <3> QED
      BY <2>1, <3>2, <3>3 DEF FeederRow, Resting
  <2>3. CASE feeder[p].step \notin {"decided", "committed"}
    BY <2>3 DEF FeederRow
  <2> QED
    BY <2>2, <2>3
<1>6. \A j \in Hashes : OneRow(j)'
  BY DEF SoleInv, OneRow
<1>7. CleanSuccess'
  BY DEF SoleInv, CleanSuccess
<1> QED
  BY <1>3, <1>4, <1>5, <1>6, <1>7 DEF SoleInv

\* A transaction that loads a content turns its pending row into a clean success
\* with one catalogue row.
LEMMA LoadedRow ==
  ASSUME TypeOK, SoleInv, NEW c \in Chains, NEW h \in Hashes,
         chain[c].hash = h, chain[c].stage = "found", Loaded(c)
  PROVE  /\ log' = [log EXCEPT ![h] = Succeeded]
         /\ \A j \in Hashes \ {h} : catalogue'[j] = catalogue[j]
         /\ \E d \in Chains : catalogue'[h] = {d}
<1>1. /\ log[h] = Pending /\ chain[c].seen = Pending
      /\ chain[c].known <=> catalogue[h] # {}
      /\ OneRow(h)
  BY DEF SoleInv, ChainRow
<1>2. Updated(Pending, Pending, [Pending EXCEPT !.status = "success"]) = Succeeded
  BY DEF Updated, Pending, Succeeded
<1>3. log' = [log EXCEPT ![h] = Succeeded]
  <2>1. log' = [log EXCEPT ![h] = IF Pending.status = "none" THEN @
                                  ELSE Updated(@, Pending, [Pending EXCEPT !.status = "success"])]
    BY <1>1 DEF Loaded
  <2>2. Pending.status # "none"
    BY DEF Pending
  <2> QED
    BY <1>1, <1>2, <2>1, <2>2
<1>4. catalogue' = [catalogue EXCEPT ![h] = IF chain[c].known THEN @ ELSE @ \cup {c}]
  BY DEF Loaded
<1>5. /\ \A j \in Hashes \ {h} : catalogue'[j] = catalogue[j]
      /\ catalogue'[h] = IF chain[c].known THEN catalogue[h] ELSE catalogue[h] \cup {c}
  BY <1>4 DEF TypeOK
<1> QED
  BY <1>1, <1>3, <1>5 DEF OneRow

\* A recorded failure leaves a failed row with its message, whether or not the
\* message had to be written.
LEMMA FailedRow ==
  ASSUME TypeOK, SoleInv, NEW c \in Chains, NEW h \in Hashes,
         chain[c].hash = h, RecordFailure(c)
  PROVE  /\ chain[c].stage = "reporting"
         /\ log' = [log EXCEPT ![h] = [status |-> "failed", error |-> TRUE]]
<1> DEFINE failed == [status |-> "failed", error |-> TRUE]
<1>1. chain[c].stage = "reporting"
  BY DEF RecordFailure, Advance
<1>2. log[h] \in {Pending, Succeeded} /\ chain[c].seen = log[h]
  BY <1>1 DEF SoleInv, ChainRow
<1>3. PICK same \in {FALSE, log[h].error} :
        log' = [log EXCEPT ![h] =
                  IF log[h].status = "none" THEN @
                  ELSE Updated(@, [log[h] EXCEPT !.error = same], failed)]
  <2>1. \E same \in {FALSE, chain[c].seen.error} :
          log' = [log EXCEPT ![chain[c].hash] =
                    IF chain[c].seen.status = "none" THEN @
                    ELSE Updated(@, [chain[c].seen EXCEPT !.error = same], failed)]
    BY Zenon DEF RecordFailure
  <2> HIDE DEF failed
  <2> QED
    BY <1>2, <2>1, Zenon
<1>4. same = FALSE
  <2>1. log[h].error = FALSE
    BY <1>2 DEF Pending, Succeeded
  <2> QED
    BY <2>1
<1>5. Updated(log[h], [log[h] EXCEPT !.error = FALSE], failed) = failed
  BY <1>2 DEF Updated, Pending, Succeeded
<1>6. log[h].status # "none"
  BY <1>2 DEF Pending, Succeeded
<1> QED
  BY <1>1, <1>3, <1>4, <1>5, <1>6

\* A feeder that commits queues a content nobody works on.
LEMMA QueuedRow ==
  ASSUME TypeOK, SoleInv, NEW p \in Feeders, NEW h \in Hashes,
         h = HashOf[feeder[p].file], CommitLog(p)
  PROVE  /\ Resting(h) /\ log[h].status \in {"none", "failed"}
         /\ log' = [log EXCEPT ![h] = Pending]
         /\ feeder' = [feeder EXCEPT ![p].step = "committed"]
         /\ catalogue' = catalogue /\ chain' = chain
<1>1. /\ feeder[p].step = "decided" /\ Resting(h) /\ feeder[p].seen = log[h]
      /\ log[h].status \in {"none", "failed"} /\ log[h] \in LogRow
  BY DEF CommitLog, SoleInv, FeederRow, TypeOK
<1>2. Updated(log[h], log[h], Pending) = Pending
  BY <1>1 DEF Updated, Pending, LogRow
<1> QED
  BY <1>1, <1>2 DEF CommitLog, Requeued

\* Decide, CommitLog, Trigger and TriggerFails, by the only dispatcher.
LEMMA FeederStep ==
  ASSUME SoleDispatcher, TypeOK, SoleInv, NEW p \in Feeders,
         \/ \E f \in Files : Decide(p, f)
         \/ CommitLog(p)
         \/ Trigger(p)
         \/ TriggerFails(p)
  PROVE  SoleInv'
<1>0. /\ \A q \in Feeders : q = p
      /\ p \notin Scanners
      /\ \A f \in Files : HashOf[f] \in Hashes
      /\ feeder[p].file \in Files /\ feeder[p].seen \in LogRow
  BY HashAssumption DEF SoleDispatcher, Feeders, TypeOK
<1> DEFINE h == HashOf[feeder[p].file]
<1>1. ASSUME NEW f \in Files, Decide(p, f)
      PROVE  SoleInv'
  <2>1. /\ log' = log /\ chain' = chain /\ catalogue' = catalogue
        /\ feeder'[p].step = "decided" /\ feeder'[p].file = f
        /\ feeder'[p].seen = log[HashOf[f]]
    BY <1>1 DEF Decide, TypeOK
  <2>2. log[HashOf[f]].status \in {"none", "failed"}
    BY <1>0, <1>1 DEF Decide, Skipped, TypeOK, LogRow, Statuses
  <2>3. Resting(HashOf[f])
    <3>1. ASSUME NEW c \in Chains, Active(c), chain[c].hash = HashOf[f]
          PROVE  FALSE
      <4>1. log[HashOf[f]] \in {Pending, Succeeded}
        BY <3>1 DEF SoleInv, ChainRow, Active, ActiveStages
      <4> QED
        BY <2>2, <4>1 DEF Pending, Succeeded
    <3> QED
      BY <3>1 DEF Resting
  <2>4. FeederRow(p)'
    BY <2>1, <2>2, <2>3 DEF FeederRow, Resting, Active
  <2> QED
    BY <1>0, <2>1, <2>4 DEF SoleInv, OneChainPerHash, ChainRow, OneRow, CleanSuccess, Active
<1>2. CASE CommitLog(p)
  <2>1. h \in Hashes
    BY <1>0
  <2>2. Resting(h) /\ log[h].status \in {"none", "failed"}
    BY <1>2, <2>1, QueuedRow
  <2>3. /\ log' = [log EXCEPT ![h] = Pending]
        /\ feeder' = [feeder EXCEPT ![p].step = "committed"]
        /\ catalogue' = catalogue /\ chain' = chain
    BY <1>2, <2>1, QueuedRow
  <2>4. /\ feeder'[p].step = "committed" /\ feeder'[p].file = feeder[p].file
        /\ log'[h] = Pending /\ \A j \in Hashes \ {h} : log'[j] = log[j]
    BY <2>1, <2>3 DEF TypeOK
  <2>5. FeederRow(p)'
    BY <2>2, <2>3, <2>4 DEF FeederRow, Resting, Active
  <2>6. ASSUME NEW c \in Chains
        PROVE  ChainRow(c)'
    <3>1. CASE Active(c)
      <4>1. ChainRow(c) /\ chain[c].hash \in Hashes \ {h}
        BY <2>2, <3>1 DEF SoleInv, Resting, TypeOK
      <4> QED
        BY <2>3, <2>4, <4>1 DEF ChainRow
    <3>2. CASE ~Active(c)
      BY <2>3, <3>2 DEF ChainRow, Active, ActiveStages
    <3> QED
      BY <3>1, <3>2
  <2>7. CleanSuccess'
    BY <2>1, <2>4 DEF SoleInv, CleanSuccess, Pending
  <2> QED
    BY <1>0, <2>3, <2>5, <2>6, <2>7 DEF SoleInv, OneChainPerHash, OneRow, Active
<1>3. CASE Trigger(p)
  <2>1. PICK c \in Chains :
          /\ chain[c].stage = "unused"
          /\ chain' = [chain EXCEPT ![c].stage = "standardize", ![c].hash = h]
    BY <1>3 DEF Trigger
  <2>2. /\ feeder[p].step = "committed" /\ Resting(h) /\ log[h] = Pending
        /\ feeder'[p].step = "idle" /\ log' = log /\ catalogue' = catalogue
    BY <1>3 DEF Trigger, SoleInv, FeederRow, TypeOK
  <2>3. /\ chain'[c].stage = "standardize" /\ chain'[c].hash = h
        /\ \A d \in Chains \ {c} : chain'[d] = chain[d]
    BY <2>1 DEF TypeOK
  <2>4. OneChainPerHash'
    <3>1. \A d \in Chains \ {c} : Active(d)' => Active(d) /\ chain'[d].hash # h
      BY <2>2, <2>3 DEF Active, Resting
    <3> QED
      BY <2>3, <3>1 DEF SoleInv, OneChainPerHash
  <2>5. \A d \in Chains : ChainRow(d)'
    <3>1. ChainRow(c)'
      BY <2>2, <2>3 DEF ChainRow
    <3>2. \A d \in Chains \ {c} : ChainRow(d)'
      BY <2>2, <2>3 DEF SoleInv, ChainRow
    <3> QED
      BY <3>1, <3>2
  <2>6. FeederRow(p)'
    BY <2>2 DEF FeederRow
  <2> QED
    BY <1>0, <2>2, <2>4, <2>5, <2>6 DEF SoleInv, OneRow, CleanSuccess
<1>4. CASE TriggerFails(p)
  <2>1. feeder'[p].step = "idle" /\ log' = log /\ catalogue' = catalogue /\ chain' = chain
    BY <1>4 DEF TriggerFails, TypeOK
  <2>2. FeederRow(p)'
    BY <2>1 DEF FeederRow
  <2> QED
    BY <1>0, <2>1, <2>2 DEF SoleInv, OneChainPerHash, ChainRow, OneRow, CleanSuccess, Active
<1> QED
  BY <1>1, <1>2, <1>3, <1>4

\* With one callback as the only feeder, SoleInv is kept by every step.
LEMMA SoleStep ==
  ASSUME SoleDispatcher
  PROVE  TypeOK /\ SoleInv /\ [Next]_vars => SoleInv'
<1> SUFFICES ASSUME TypeOK, SoleInv, [Next]_vars
             PROVE  SoleInv'
  OBVIOUS
<1>a. ASSUME NEW c \in Chains, Active(c),
             feeder' = feeder, log' = log, catalogue' = catalogue,
             \A d \in Chains \ {c} : chain'[d] = chain[d],
             chain'[c].hash = chain[c].hash, ChainRow(c)'
      PROVE  SoleInv'
  <2>1. PICK h \in Hashes : h = chain[c].hash
    BY DEF TypeOK
  <2>2. OneRow(h)' /\ (log'[h].status = "success" => ~log'[h].error)
    BY <1>a DEF SoleInv, OneRow, CleanSuccess
  <2> QED
    BY <1>a, <2>1, <2>2, ChainStepKeeps
<1>1. ASSUME NEW p \in Feeders,
             \/ \E f \in Files : Decide(p, f)
             \/ CommitLog(p)
             \/ Trigger(p)
             \/ TriggerFails(p)
      PROVE  SoleInv'
  BY <1>1, FeederStep
<1>2. ASSUME NEW c \in Chains, Standardize(c) \/ Validate(c) \/ WorkerDies(c)
      PROVE  SoleInv'
  <2>1. /\ Active(c) /\ feeder' = feeder /\ log' = log /\ catalogue' = catalogue
        /\ \A d \in Chains \ {c} : chain'[d] = chain[d]
        /\ chain'[c].hash = chain[c].hash
        /\ chain'[c].stage \in {"validate", "load", "ended"}
        /\ chain'[c].stage # "ended" => chain[c].stage \in {"standardize", "validate"}
    BY <1>2 DEF Standardize, Validate, WorkerDies, Advance, Active, ActiveStages, TypeOK
  <2>2. ChainRow(c)'
    BY <2>1 DEF SoleInv, ChainRow
  <2> QED
    BY <1>a, <2>1, <2>2
<1>3. ASSUME NEW c \in Chains, CheckCatalogue(c) \/ FindLog(c) \/ FindLogAgain(c)
      PROVE  SoleInv'
  <2>1. /\ Active(c) /\ feeder' = feeder /\ log' = log /\ catalogue' = catalogue
        /\ \A d \in Chains \ {c} : chain'[d] = chain[d]
        /\ chain'[c].hash = chain[c].hash
    BY <1>3 DEF CheckCatalogue, FindLog, FindLogAgain, Active, ActiveStages, TypeOK
  <2>2. ChainRow(c)
    BY DEF SoleInv
  <2>3. CASE CheckCatalogue(c)
    <3>1. /\ chain[c].stage = "load" /\ chain'[c].stage = "checked"
          /\ chain'[c].known = (catalogue[chain[c].hash] # {})
      BY <2>3 DEF CheckCatalogue, TypeOK
    <3> QED
      BY <1>a, <2>1, <2>2, <3>1 DEF ChainRow
  <2>4. CASE FindLog(c)
    <3>1. /\ chain[c].stage = "checked" /\ chain'[c].stage = "found"
          /\ chain'[c].seen = log[chain[c].hash] /\ chain'[c].known = chain[c].known
      BY <2>4 DEF FindLog, TypeOK
    <3> QED
      BY <1>a, <2>1, <2>2, <3>1 DEF ChainRow
  <2>5. CASE FindLogAgain(c)
    <3>1. /\ chain[c].stage = "failing" /\ chain'[c].stage = "reporting"
          /\ chain'[c].seen = log[chain[c].hash]
      BY <2>5 DEF FindLogAgain, TypeOK
    <3> QED
      BY <1>a, <2>1, <2>2, <3>1 DEF ChainRow
  <2> QED
    BY <1>3, <2>3, <2>4, <2>5
<1>4. ASSUME NEW c \in Chains, NEW to \in {"ended", "failing"},
             Advance(c, "found", to), Loaded(c), feeder' = feeder
      PROVE  SoleInv'
  <2>1. PICK h \in Hashes : h = chain[c].hash
    BY DEF TypeOK
  <2>2. /\ chain[c].stage = "found" /\ chain'[c].stage = to /\ chain'[c].hash = h
        /\ \A d \in Chains \ {c} : chain'[d] = chain[d]
    BY <1>4, <2>1 DEF Advance, TypeOK
  <2>3. /\ log' = [log EXCEPT ![h] = Succeeded]
        /\ \A j \in Hashes \ {h} : catalogue'[j] = catalogue[j]
        /\ \E d \in Chains : catalogue'[h] = {d}
    BY <1>4, <2>1, <2>2, LoadedRow
  <2>4. log'[h] = Succeeded /\ \A j \in Hashes \ {h} : log'[j] = log[j]
    BY <2>3 DEF TypeOK
  <2>5. ChainRow(c)'
    BY <2>2, <2>4 DEF ChainRow
  <2>6. OneRow(h)' /\ (log'[h].status = "success" => ~log'[h].error)
    BY <2>3, <2>4 DEF OneRow, Succeeded
  <2>7. Active(c)
    BY <2>2 DEF Active, ActiveStages
  <2> QED
    BY <1>4, <2>1, <2>2, <2>3, <2>4, <2>5, <2>6, <2>7, ChainStepKeeps
<1>5. ASSUME NEW c \in Chains, CommitLoad(c) \/ LoadFails(c)
      PROVE  SoleInv'
  <2>1. CASE CommitLoad(c) \/ (Advance(c, "found", "failing") /\ Loaded(c) /\ feeder' = feeder)
    BY <1>4, <2>1 DEF CommitLoad
  <2>2. CASE /\ \E stage \in {"load", "checked", "found"} : Advance(c, stage, "failing")
             /\ UNCHANGED <<log, catalogue, feeder>>
    <3>1. /\ Active(c) /\ chain[c].stage \in {"load", "checked", "found"}
          /\ \A d \in Chains \ {c} : chain'[d] = chain[d]
          /\ chain'[c].hash = chain[c].hash /\ chain'[c].stage = "failing"
      BY <2>2 DEF Advance, Active, ActiveStages, TypeOK
    <3>2. ChainRow(c)'
      BY <2>2, <3>1 DEF SoleInv, ChainRow
    <3> QED
      BY <1>a, <2>2, <3>1, <3>2
  <2> QED
    BY <1>5, <2>1, <2>2 DEF LoadFails
<1>6. ASSUME NEW c \in Chains, RecordFailure(c)
      PROVE  SoleInv'
  <2>1. PICK h \in Hashes : h = chain[c].hash
    BY DEF TypeOK
  <2>2. /\ chain[c].stage = "reporting" /\ chain'[c].stage = "ended" /\ chain'[c].hash = h
        /\ \A d \in Chains \ {c} : chain'[d] = chain[d]
        /\ feeder' = feeder /\ catalogue' = catalogue
    BY <1>6, <2>1 DEF RecordFailure, Advance, TypeOK
  <2>3. log' = [log EXCEPT ![h] = [status |-> "failed", error |-> TRUE]]
    BY <1>6, <2>1, FailedRow
  <2>4. log'[h].status = "failed" /\ \A j \in Hashes \ {h} : log'[j] = log[j]
    BY <2>3 DEF TypeOK
  <2>5. ChainRow(c)' /\ OneRow(h)' /\ Active(c)
    BY <2>2 DEF ChainRow, OneRow, SoleInv, Active, ActiveStages
  <2> QED
    BY <2>1, <2>2, <2>4, <2>5, ChainStepKeeps
<1>7. CASE UNCHANGED vars
  BY <1>7 DEF vars, SoleInv, OneChainPerHash, ChainRow, FeederRow, Resting, OneRow,
              CleanSuccess, Active
<1> QED
  BY <1>1, <1>2, <1>3, <1>5, <1>6, <1>7 DEF Next

\* With one callback as the only feeder, SoleInv always holds.
LEMMA SoleInvariant ==
  ASSUME SoleDispatcher
  PROVE  Spec => [](TypeOK /\ SoleInv)
<1>1. Init => SoleInv
  BY DEF Init, SoleInv, OneChainPerHash, ChainRow, FeederRow, OneRow, CleanSuccess, NoRow,
         Active, ActiveStages
<1> QED
  BY <1>1, SoleStep, TypeInvariant, PTL DEF Spec

\* With one dispatcher, a content is worked on by one chain at a time, gets one
\* catalogue row however many attempts it takes, and a success carries no message
\* of an earlier attempt (the callback queues failed and unknown contents only,
\* and clears the message when it does).
THEOREM OneDispatcherOneRow ==
  ASSUME SoleDispatcher
  PROVE  Spec => []ContentInvariant
<1>1. SoleInv => ContentInvariant
  <2> SUFFICES ASSUME SoleInv, NEW h \in Hashes
               PROVE  Cardinality(catalogue[h]) <= 1
    BY DEF SoleInv, ContentInvariant, CatalogueUnique
  <2>1. CASE catalogue[h] = {}
    <3>1. Cardinality({}) = 0
      BY FS_EmptySet
    <3> QED
      BY <2>1, <3>1
  <2>2. ASSUME NEW c \in Chains, catalogue[h] = {c}
        PROVE  Cardinality(catalogue[h]) <= 1
    <3>1. Cardinality({c}) = 1
      BY FS_Singleton
    <3> QED
      BY <2>2, <3>1
  <2> QED
    BY <2>1, <2>2 DEF SoleInv, OneRow
<1> QED
  BY <1>1, SoleInvariant, PTL

-----------------------------------------------------------------------------
(* The log implements its life cycle.                                      *)

\* The abstract state, as the refinement mapping of Lifecycle reads it.
StatusOf == [h \in Hashes |-> log[h].status]
RowsPerHash == [h \in Hashes |-> Cardinality(catalogue[h])]
InExcept(c) == chain[c].stage \in {"failing", "reporting"}
Undoing(h) == \E c \in Chains : chain[c].hash = h /\ InExcept(c)
Doubtful == {h \in Hashes : log[h].status = "success" /\ Undoing(h)}

\* A chain under way is the only one that can be undoing its content.
LEMMA UndoingIsOwn ==
  ASSUME TypeOK, SoleInv, NEW c \in Chains, NEW h \in Hashes,
         Active(c), chain[c].hash = h, chain'[c].hash = h,
         \A d \in Chains \ {c} : chain'[d] = chain[d]
  PROVE  /\ Undoing(h) <=> InExcept(c)
         /\ Undoing(h)' <=> InExcept(c)'
         /\ \A j \in Hashes \ {h} : Undoing(j)' <=> Undoing(j)
<1>1. \A d \in Chains \ {c} : chain[d].hash = h => ~InExcept(d)
  BY DEF SoleInv, OneChainPerHash, Active, ActiveStages, InExcept
<1>2. \A d \in Chains \ {c} : InExcept(d)' <=> InExcept(d)
  BY DEF InExcept
<1> QED
  BY <1>1, <1>2 DEF Undoing

\* A step that changes neither table, nor who undoes a success, is invisible.
LEMMA InvisibleStep ==
  ASSUME log' = log, catalogue' = catalogue,
         \A h \in Hashes : log[h].status = "success" => (Undoing(h)' <=> Undoing(h))
  PROVE  UNCHANGED Lifecycle!vars
<1>1. StatusOf' = StatusOf /\ RowsPerHash' = RowsPerHash
  BY DEF StatusOf, RowsPerHash
<1>2. Doubtful' = Doubtful
  BY DEF Doubtful
<1> QED
  BY <1>1, <1>2 DEF Lifecycle!vars, StatusOf, RowsPerHash, Doubtful, Undoing, InExcept

\* With one callback as the only feeder, every step is one of the life cycle or changes
\* nothing it sees.
LEMMA LifecycleStep ==
  ASSUME SoleDispatcher
  PROVE  TypeOK /\ SoleInv /\ [Next]_vars => [Lifecycle!Next]_(Lifecycle!vars)
<1> SUFFICES ASSUME TypeOK, SoleInv, [Next]_vars
             PROVE  Lifecycle!Next \/ UNCHANGED Lifecycle!vars
  OBVIOUS
<1> USE DEF InExcept
<1>1. ASSUME NEW p \in Feeders,
             (\E f \in Files : Decide(p, f)) \/ Trigger(p) \/ TriggerFails(p)
      PROVE  UNCHANGED Lifecycle!vars
  <2>1. log' = log /\ catalogue' = catalogue
    BY <1>1 DEF Decide, Trigger, TriggerFails
  <2>2. \A c \in Chains : \/ chain'[c] = chain[c]
                          \/ ~InExcept(c) /\ ~InExcept(c)'
    BY <1>1 DEF Decide, Trigger, TriggerFails, TypeOK
  <2>3. \A h \in Hashes : Undoing(h)' <=> Undoing(h)
    BY <2>2 DEF Undoing
  <2> QED
    BY <2>1, <2>3, InvisibleStep
<1>2. ASSUME NEW p \in Feeders, CommitLog(p)
      PROVE  Lifecycle!Next
  <2>1. PICK h \in Hashes : h = HashOf[feeder[p].file]
    BY HashAssumption DEF TypeOK
  <2>2. /\ log[h].status \in {"none", "failed"}
        /\ log' = [log EXCEPT ![h] = Pending]
        /\ catalogue' = catalogue /\ chain' = chain
    BY <1>2, <2>1, QueuedRow
  <2>3. \A j \in Hashes : log'[j].status = IF j = h THEN "pending" ELSE log[j].status
    BY <2>2 DEF TypeOK, Pending
  <2>4. /\ StatusOf' = [StatusOf EXCEPT ![h] = "pending"]
        /\ StatusOf[h] \in {"none", "failed"}
        /\ RowsPerHash' = RowsPerHash
    BY <2>2, <2>3 DEF StatusOf, RowsPerHash
  <2>5. Doubtful' = Doubtful
    BY <2>2, <2>3 DEF Doubtful, Undoing
  <2>6. Lifecycle!Queue(h)
    BY <2>4, <2>5 DEF Lifecycle!Queue, StatusOf, RowsPerHash, Doubtful, Undoing
  <2> QED
    BY <2>6 DEF Lifecycle!Next
<1>3. ASSUME NEW c \in Chains,
             \/ Standardize(c)
             \/ Validate(c)
             \/ CheckCatalogue(c)
             \/ FindLog(c)
             \/ FindLogAgain(c)
      PROVE  UNCHANGED Lifecycle!vars
  <2>1. /\ log' = log /\ catalogue' = catalogue
        /\ \A d \in Chains \ {c} : chain'[d] = chain[d]
        /\ chain'[c].hash = chain[c].hash
    BY <1>3 DEF Standardize, Validate, CheckCatalogue, FindLog, FindLogAgain, Advance, TypeOK
  <2>2. InExcept(c)' <=> InExcept(c)
    BY <1>3 DEF Standardize, Validate, CheckCatalogue, FindLog, FindLogAgain, Advance, TypeOK
  <2>3. \A h \in Hashes : Undoing(h)' <=> Undoing(h)
    BY <2>1, <2>2 DEF Undoing
  <2> QED
    BY <2>1, <2>3, InvisibleStep
<1>4. ASSUME NEW c \in Chains, NEW to \in {"ended", "failing"},
             Advance(c, "found", to), Loaded(c)
      PROVE  Lifecycle!Next
  <2>1. PICK h \in Hashes : h = chain[c].hash
    BY DEF TypeOK
  <2>2. /\ Active(c) /\ chain[c].stage = "found" /\ chain'[c].stage = to /\ chain'[c].hash = h
        /\ \A d \in Chains \ {c} : chain'[d] = chain[d]
    BY <1>4, <2>1 DEF Advance, TypeOK, Active, ActiveStages
  <2>3. /\ log' = [log EXCEPT ![h] = Succeeded]
        /\ \A j \in Hashes \ {h} : catalogue'[j] = catalogue[j]
        /\ \E d \in Chains : catalogue'[h] = {d}
    BY <1>4, <2>1, <2>2, LoadedRow
  <2>4. log[h].status = "pending"
    BY <2>1, <2>2 DEF SoleInv, ChainRow, Pending
  <2>5. \A j \in Hashes : log'[j].status = IF j = h THEN "success" ELSE log[j].status
    BY <2>3 DEF TypeOK, Succeeded
  <2>6. StatusOf[h] = "pending" /\ StatusOf' = [StatusOf EXCEPT ![h] = "success"]
    BY <2>4, <2>5 DEF StatusOf
  <2>7. RowsPerHash' = [RowsPerHash EXCEPT ![h] = 1]
    <3>1. Cardinality(catalogue'[h]) = 1
      BY <2>3, FS_Singleton
    <3> QED
      BY <2>3, <3>1 DEF RowsPerHash
  <2>8. Doubtful' \in {Doubtful, Doubtful \cup {h}}
    <3>1. \A j \in Hashes \ {h} : j \in Doubtful' <=> j \in Doubtful
      BY <2>1, <2>2, <2>5, UndoingIsOwn DEF Doubtful
    <3>2. h \notin Doubtful
      BY <2>4 DEF Doubtful
    <3>3. Doubtful' \subseteq Hashes /\ Doubtful \subseteq Hashes
      BY DEF Doubtful
    <3> QED
      BY <3>1, <3>2, <3>3
  <2>9. Lifecycle!Succeed(h)
    BY <2>6, <2>7, <2>8 DEF Lifecycle!Succeed, StatusOf, RowsPerHash, Doubtful, Undoing
  <2> QED
    BY <2>9 DEF Lifecycle!Next
<1>5. ASSUME NEW c \in Chains,
             \E stage \in {"load", "checked", "found"} : Advance(c, stage, "failing"),
             log' = log, catalogue' = catalogue
      PROVE  UNCHANGED Lifecycle!vars
  <2>1. PICK h \in Hashes : h = chain[c].hash
    BY DEF TypeOK
  <2>2. /\ Active(c) /\ chain[c].stage \in {"load", "checked", "found"}
        /\ chain'[c].hash = h
        /\ \A d \in Chains \ {c} : chain'[d] = chain[d]
    BY <1>5, <2>1 DEF Advance, TypeOK, Active, ActiveStages
  <2>3. log[h].status = "pending"
    BY <2>1, <2>2 DEF SoleInv, ChainRow, Pending
  <2>4. \A j \in Hashes \ {h} : Undoing(j)' <=> Undoing(j)
    BY <2>1, <2>2, UndoingIsOwn
  <2> QED
    BY <1>5, <2>3, <2>4, InvisibleStep
<1>6. ASSUME NEW c \in Chains, CommitLoad(c) \/ LoadFails(c)
      PROVE  Lifecycle!Next \/ UNCHANGED Lifecycle!vars
  BY <1>4, <1>5, <1>6 DEF CommitLoad, LoadFails
<1>7. ASSUME NEW c \in Chains, NEW h \in Hashes, h = chain[c].hash, InExcept(c),
             chain'[c].hash = h, chain'[c].stage = "ended",
             \A d \in Chains \ {c} : chain'[d] = chain[d]
      PROVE  /\ \A j \in Hashes \ {h} : Undoing(j)' <=> Undoing(j)
             /\ Undoing(h) /\ ~Undoing(h)'
             /\ log[h].status \in {"pending", "success"}
  <2>1. Active(c)
    BY <1>7 DEF Active, ActiveStages
  <2>2. ~InExcept(c)'
    BY <1>7
  <2>3. log[h].status \in {"pending", "success"}
    BY <1>7 DEF SoleInv, ChainRow, Pending, Succeeded
  <2> QED
    BY <1>7, <2>1, <2>2, <2>3, UndoingIsOwn
<1>8. ASSUME NEW c \in Chains, RecordFailure(c)
      PROVE  Lifecycle!Next
  <2>1. PICK h \in Hashes : h = chain[c].hash
    BY DEF TypeOK
  <2>2. /\ InExcept(c) /\ chain'[c].hash = h /\ chain'[c].stage = "ended"
        /\ \A d \in Chains \ {c} : chain'[d] = chain[d]
        /\ catalogue' = catalogue
    BY <1>8, <2>1 DEF RecordFailure, Advance, TypeOK
  <2>3. log' = [log EXCEPT ![h] = [status |-> "failed", error |-> TRUE]]
    BY <1>8, <2>1, FailedRow
  <2>4. \A j \in Hashes : log'[j].status = IF j = h THEN "failed" ELSE log[j].status
    BY <2>3 DEF TypeOK
  <2>5. /\ \A j \in Hashes \ {h} : Undoing(j)' <=> Undoing(j)
        /\ Undoing(h) /\ ~Undoing(h)'
        /\ log[h].status \in {"pending", "success"}
    BY <1>7, <2>1, <2>2
  <2>6. /\ StatusOf' = [StatusOf EXCEPT ![h] = "failed"]
        /\ StatusOf[h] = log[h].status
        /\ RowsPerHash' = RowsPerHash
    BY <2>2, <2>4 DEF StatusOf, RowsPerHash
  <2>7. Doubtful' = Doubtful \ {h} /\ (h \in Doubtful <=> log[h].status = "success")
    BY <2>4, <2>5 DEF Doubtful
  <2>8. CASE log[h].status = "pending"
    <3>1. Doubtful' = Doubtful
      BY <2>7, <2>8
    <3>2. Lifecycle!Fail(h)
      BY <2>6, <2>8, <3>1 DEF Lifecycle!Fail, StatusOf, RowsPerHash, Doubtful, Undoing
    <3> QED
      BY <3>2 DEF Lifecycle!Next
  <2>9. CASE log[h].status = "success"
    <3>1. Lifecycle!Retract(h)
      BY <2>6, <2>7, <2>9 DEF Lifecycle!Retract, StatusOf, RowsPerHash, Doubtful, Undoing
    <3> QED
      BY <3>1 DEF Lifecycle!Next
  <2> QED
    BY <2>5, <2>8, <2>9
<1>9. ASSUME NEW c \in Chains, WorkerDies(c)
      PROVE  Lifecycle!Next \/ UNCHANGED Lifecycle!vars
  <2>1. PICK h \in Hashes : h = chain[c].hash
    BY DEF TypeOK
  <2>2. /\ Active(c) /\ chain'[c].hash = h /\ chain'[c].stage = "ended"
        /\ \A d \in Chains \ {c} : chain'[d] = chain[d]
        /\ log' = log /\ catalogue' = catalogue
    BY <1>9, <2>1 DEF WorkerDies, TypeOK, Active
  <2>3. CASE ~InExcept(c)
    <3>1. \A j \in Hashes : Undoing(j)' <=> Undoing(j)
      BY <2>1, <2>2, <2>3, UndoingIsOwn
    <3> QED
      BY <2>2, <3>1, InvisibleStep
  <2>4. CASE InExcept(c) /\ log[h].status # "success"
    <3>1. \A j \in Hashes \ {h} : Undoing(j)' <=> Undoing(j)
      BY <1>7, <2>1, <2>2, <2>4
    <3> QED
      BY <2>2, <2>4, <3>1, InvisibleStep
  <2>5. CASE InExcept(c) /\ log[h].status = "success"
    <3>1. /\ \A j \in Hashes \ {h} : Undoing(j)' <=> Undoing(j)
          /\ Undoing(h) /\ ~Undoing(h)'
      BY <1>7, <2>1, <2>2, <2>5
    <3>2. Doubtful' = Doubtful \ {h} /\ h \in Doubtful
      BY <2>2, <2>5, <3>1 DEF Doubtful
    <3>3. StatusOf' = StatusOf /\ RowsPerHash' = RowsPerHash
      BY <2>2 DEF StatusOf, RowsPerHash
    <3>4. Lifecycle!Retract(h)
      BY <3>2, <3>3 DEF Lifecycle!Retract, StatusOf, RowsPerHash, Doubtful, Undoing
    <3> QED
      BY <3>4 DEF Lifecycle!Next
  <2> QED
    BY <2>3, <2>4, <2>5
<1>10. CASE UNCHANGED vars
  BY <1>10, InvisibleStep DEF vars, Undoing
<1> QED
  BY <1>1, <1>2, <1>3, <1>6, <1>8, <1>9, <1>10 DEF Next

\* Fed by one dispatcher, the log is the life cycle models.py describes: queued,
\* then success or failure; success puts one row in the catalogue and is final
\* once its commit is acknowledged.
THEOREM LogFollowsLifecycle ==
  ASSUME SoleDispatcher
  PROVE  Spec => ImplementsLifecycle
<1>1. Init => Lifecycle!Init
  <2> SUFFICES ASSUME Init
               PROVE  Lifecycle!Init
    OBVIOUS
  <2>1. \A h \in Hashes : log[h].status = "none" /\ catalogue[h] = {}
    BY DEF Init, NoRow
  <2>2. Cardinality({}) = 0
    BY FS_EmptySet
  <2> QED
    BY <2>1, <2>2 DEF Lifecycle!Init
<1> QED
  BY <1>1, LifecycleStep, SoleInvariant, PTL DEF Spec, ImplementsLifecycle, Lifecycle!Spec

=============================================================================
