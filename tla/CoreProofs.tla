------------------------------ MODULE CoreProofs ------------------------------
(***************************************************************************)
(* Proofs about one station's ingestion core.                              *)
(* Mode machine (SignalHistory): its flags stay consistent, its streaks    *)
(* are runs of received signals, its transitions need the evidence the     *)
(* thresholds ask for, and what a row says about its sample is true.       *)
(* Core (IngestionCore): events describe what was received, strong motion  *)
(* is reported, no second of motion is integrated twice and an open event  *)
(* ends in a row, for every threshold, any gap limit, any failing INSERTs  *)
(* and samples lost in any places.                                         *)
(***************************************************************************)
EXTENDS IngestionCore, SignalHistory, FiniteSetTheorems, TLAPS

USE ThresholdAssumption, ForceAssumption

\* ---- the mode machine

\* Every variable keeps its type under any signals.
LEMMA HistoryTypes == HistorySpec => []HistoryTypeOK
<1>1. HistoryInit => HistoryTypeOK
  <2>1. ASSUME HistoryInit PROVE ModeTypeOK
    BY <2>1 DEF HistoryInit, ModeInit, ModeTypeOK, Modes
  <2>2. ASSUME HistoryInit PROVE signals \in Seq(Signals)
    BY <2>2 DEF HistoryInit
  <2> QED
    BY <2>1, <2>2 DEF HistoryTypeOK
<1>2. HistoryTypeOK /\ [HistoryNext]_historyVars => HistoryTypeOK'
  <2> SUFFICES ASSUME HistoryTypeOK, [HistoryNext]_historyVars
               PROVE  HistoryTypeOK'
    OBVIOUS
  <2> USE DEF HistoryTypeOK, ModeTypeOK, Modes
  <2>1. ASSUME NEW signal \in Signals, Receive(signal)
        PROVE  HistoryTypeOK'
    <3>1. signals' \in Seq(Signals)
      BY <2>1 DEF Receive
    <3>2. Identical \/ HighVelocity \/ LowVelocity
      BY <2>1 DEF Receive, UpdateMode
    <3>3. mode' \in Modes
      BY <3>2 DEF Identical, HighVelocity, LowVelocity
    <3>4. badStreak' \in Nat /\ goodStreak' \in Nat /\ suspectStreak' \in Nat
      BY <3>2 DEF Identical, HighVelocity, LowVelocity
    <3>5. freeze' \in BOOLEAN
      BY <3>2 DEF Identical, HighVelocity, LowVelocity
    <3> QED
      BY <3>1, <3>3, <3>4, <3>5
  <2>2. CASE UNCHANGED historyVars
    BY <2>2 DEF historyVars
  <2> QED
    BY <2>1, <2>2 DEF HistoryNext
<1> QED
  BY <1>1, <1>2, PTL DEF HistorySpec

\* The flags of _update_mode agree with each other whatever signals arrive and
\* whatever the thresholds are.
THEOREM ModeStaysConsistent == HistorySpec => []ModeConsistent
<1>1. HistoryInit => ModeConsistent
  BY DEF HistoryInit, ModeInit, ModeConsistent
<1>2. HistoryTypeOK /\ ModeConsistent /\ [HistoryNext]_historyVars => ModeConsistent'
  <2> SUFFICES ASSUME HistoryTypeOK, ModeConsistent, [HistoryNext]_historyVars
               PROVE  ModeConsistent'
    OBVIOUS
  <2> USE DEF HistoryTypeOK, ModeTypeOK, Modes, ModeConsistent
  <2>1. CASE Identical
    BY <2>1 DEF Identical
  <2>2. CASE HighVelocity
    BY <2>2 DEF HighVelocity
  <2>3. CASE LowVelocity
    BY <2>3 DEF LowVelocity
  <2>4. CASE UNCHANGED historyVars
    BY <2>4 DEF historyVars
  <2> QED
    BY <2>1, <2>2, <2>3, <2>4 DEF HistoryNext, Receive, UpdateMode
<1> QED
  BY <1>1, <1>2, HistoryTypes, PTL DEF HistorySpec

\* One more signal of the same kind lengthens a run by one.
LEMMA RunGrows ==
  ASSUME NEW seq \in Seq(Signals), NEW n \in Nat, NEW signal \in Signals,
         EndsWith(seq, n, signal)
  PROVE  EndsWith(Append(seq, signal), n + 1, signal)
  BY DEF EndsWith

\* The streak counters are lengths of runs that really end the history.
THEOREM StreaksStayRuns == HistorySpec => []StreaksAreRuns
<1>1. HistoryInit => StreaksAreRuns
  BY DEF HistoryInit, ModeInit, StreaksAreRuns, EndsWith
<1>2. HistoryTypeOK /\ StreaksAreRuns /\ [HistoryNext]_historyVars => StreaksAreRuns'
  <2> SUFFICES ASSUME HistoryTypeOK, StreaksAreRuns, [HistoryNext]_historyVars
               PROVE  StreaksAreRuns'
    OBVIOUS
  <2> USE DEF HistoryTypeOK, ModeTypeOK
  <2>1. \A seq \in Seq(Signals), signal \in Signals : EndsWith(seq, 0, signal)
    BY DEF EndsWith
  <2>2. ASSUME NEW signal \in Signals, Receive(signal)
        PROVE  StreaksAreRuns'
    <3>1. signals' \in Seq(Signals) /\ signals' = Append(signals, signal)
      BY <2>2 DEF Receive
    <3>2. CASE signal = "IDENTICAL" /\ Identical
      <4>1. goodStreak' = 0 /\ suspectStreak' = 0
        BY <3>2 DEF Identical
      <4>2. badStreak' = 0 \/ badStreak' = badStreak + 1
        BY <3>2 DEF Identical
      <4>3. EndsWith(signals', badStreak + 1, "IDENTICAL")
        BY <3>1, <3>2, RunGrows DEF StreaksAreRuns
      <4> QED
        BY <2>1, <3>1, <4>1, <4>2, <4>3 DEF StreaksAreRuns, Signals
    <3>3. CASE signal = "HIGH_VEL_NEQ" /\ HighVelocity
      <4>1. badStreak' = 0 /\ suspectStreak' = 0
        BY <3>3 DEF HighVelocity
      <4>2. goodStreak' = 0 \/ goodStreak' = goodStreak + 1
        BY <3>3 DEF HighVelocity
      <4>3. EndsWith(signals', goodStreak + 1, "HIGH_VEL_NEQ")
        BY <3>1, <3>3, RunGrows DEF StreaksAreRuns
      <4> QED
        BY <2>1, <3>1, <4>1, <4>2, <4>3 DEF StreaksAreRuns, Signals
    <3>4. CASE signal = "LOW_VEL_NEQ" /\ LowVelocity
      <4>1. badStreak' = 0 /\ goodStreak' = 0
        BY <3>4 DEF LowVelocity
      <4>2. suspectStreak' = 0 \/ suspectStreak' = suspectStreak + 1
        BY <3>4 DEF LowVelocity
      <4>3. EndsWith(signals', suspectStreak + 1, "LOW_VEL_NEQ")
        BY <3>1, <3>4, RunGrows DEF StreaksAreRuns
      <4> QED
        BY <2>1, <3>1, <4>1, <4>2, <4>3 DEF StreaksAreRuns, Signals
    <3> QED
      BY <2>2, <3>2, <3>3, <3>4 DEF Receive, UpdateMode
  <2>3. CASE UNCHANGED historyVars
    BY <2>3 DEF historyVars, StreaksAreRuns
  <2> QED
    BY <2>2, <2>3 DEF HistoryNext
<1> QED
  BY <1>1, <1>2, HistoryTypes, PTL DEF HistorySpec

\* The mode changes only after an unbroken run of as many signals as the
\* threshold of that transition.
THEOREM ModeNeedsEvidence == HistorySpec => ModeChangesOnEvidence
<1> DEFINE Evidence ==
      /\ (mode = "RECEIVER" /\ mode' = "MANUAL") =>
            \/ EndsWith(signals', StreakThreshold, "IDENTICAL")
            \/ EndsWith(signals', SuspectThreshold, "LOW_VEL_NEQ")
      /\ (mode = "MANUAL" /\ mode' = "RECEIVER") =>
            EndsWith(signals', GoodThreshold, "HIGH_VEL_NEQ")
<1>1. HistoryTypeOK /\ StreaksAreRuns /\ ModeConsistent /\ [HistoryNext]_historyVars
        => [Evidence]_historyVars
  <2> SUFFICES ASSUME HistoryTypeOK, StreaksAreRuns, ModeConsistent, HistoryNext
               PROVE  Evidence
    OBVIOUS
  <2> USE DEF HistoryTypeOK, ModeTypeOK
  <2>1. PICK signal \in Signals : Receive(signal)
    BY DEF HistoryNext
  <2>2. signals' = Append(signals, signal)
    BY <2>1 DEF Receive
  <2>3. CASE signal = "IDENTICAL" /\ Identical
    <3>1. EndsWith(signals', badStreak + 1, "IDENTICAL")
      BY <2>2, <2>3, RunGrows DEF StreaksAreRuns
    <3>2. (mode = "RECEIVER" /\ mode' = "MANUAL") => badStreak + 1 = StreakThreshold
      BY <2>3 DEF Identical, ModeConsistent
    <3>3. ~(mode = "MANUAL" /\ mode' = "RECEIVER")
      BY <2>3 DEF Identical
    <3> QED
      BY <3>1, <3>2, <3>3
  <2>4. CASE signal = "HIGH_VEL_NEQ" /\ HighVelocity
    <3>1. EndsWith(signals', goodStreak + 1, "HIGH_VEL_NEQ")
      BY <2>2, <2>4, RunGrows DEF StreaksAreRuns
    <3>2. (mode = "MANUAL" /\ mode' = "RECEIVER") => goodStreak + 1 = GoodThreshold
      BY <2>4 DEF HighVelocity, ModeConsistent
    <3>3. ~(mode = "RECEIVER" /\ mode' = "MANUAL")
      BY <2>4 DEF HighVelocity
    <3> QED
      BY <3>1, <3>2, <3>3
  <2>5. CASE signal = "LOW_VEL_NEQ" /\ LowVelocity
    <3>1. EndsWith(signals', suspectStreak + 1, "LOW_VEL_NEQ")
      BY <2>2, <2>5, RunGrows DEF StreaksAreRuns
    <3>2. (mode = "RECEIVER" /\ mode' = "MANUAL") => suspectStreak + 1 = SuspectThreshold
      BY <2>5 DEF LowVelocity, ModeConsistent
    <3>3. ~(mode = "MANUAL" /\ mode' = "RECEIVER")
      BY <2>5 DEF LowVelocity
    <3> QED
      BY <3>1, <3>2, <3>3
  <2> QED
    BY <2>1, <2>3, <2>4, <2>5 DEF Receive, UpdateMode
<1> QED
  BY <1>1, HistoryTypes, StreaksStayRuns, ModeStaysConsistent, PTL
     DEF HistorySpec, ModeChangesOnEvidence


-----------------------------------------------------------------------------

\* While a core trusts its receiver its streaks are whole runs: the signals end with
\* no more identical or suspect ones than were counted.
RunsAreWhole ==
  mode = "RECEIVER" =>
    \A n \in Nat : /\ EndsWith(signals, n, "IDENTICAL") => n <= badStreak
                   /\ EndsWith(signals, n, "LOW_VEL_NEQ") => n <= suspectStreak

\* After one more signal a run of some kind is one longer than before, if the
\* signal is of that kind, and empty otherwise.
LEMMA RunOfNext ==
  ASSUME NEW seq \in Seq(Signals), NEW signal \in Signals, NEW kind \in Signals, NEW n \in Nat,
         EndsWith(Append(seq, signal), n, kind)
  PROVE  /\ n # 0 => signal = kind
         /\ n # 0 => EndsWith(seq, n - 1, kind)
<1>1. /\ Len(seq) \in Nat /\ Len(Append(seq, signal)) = Len(seq) + 1
      /\ Append(seq, signal)[Len(seq) + 1] = signal
      /\ \A i \in 1..Len(seq) : Append(seq, signal)[i] = seq[i]
  OBVIOUS
<1>2. ASSUME n # 0
      PROVE  signal = kind
  BY <1>1, <1>2 DEF EndsWith
<1>3. ASSUME n # 0
      PROVE  EndsWith(seq, n - 1, kind)
  <2>1. n - 1 <= Len(seq)
    BY <1>1, <1>3 DEF EndsWith
  <2>2. ASSUME NEW i \in (Len(seq) - (n - 1) + 1)..Len(seq)
        PROVE  seq[i] = kind
    <3>1. i \in 1..Len(seq)
      BY <1>1, <2>1
    <3>2. i \in (Len(Append(seq, signal)) - n + 1)..Len(Append(seq, signal))
      BY <1>1, <3>1
    <3> QED
      BY <1>1, <3>1, <3>2 DEF EndsWith
  <2> QED
    BY <2>1, <2>2 DEF EndsWith
<1> QED
  BY <1>2, <1>3

\* Whether the latest signal was of some kind.
LEMMA LatestSignal ==
  ASSUME NEW seq \in Seq(Signals), NEW signal \in Signals, NEW kind \in Signals
  PROVE  EndsWith(Append(seq, signal), 1, kind) <=> signal = kind
<1>1. /\ Len(seq) \in Nat /\ Len(Append(seq, signal)) = Len(seq) + 1
      /\ Append(seq, signal)[Len(seq) + 1] = signal
  OBVIOUS
<1> QED
  BY <1>1 DEF EndsWith

\* Streaks stay whole and the freeze stays tied to the latest signal.
LEMMA RunsStep ==
  ASSUME HistoryTypeOK, RunsAreWhole, FrozenOnScintillation, [HistoryNext]_historyVars
  PROVE  RunsAreWhole' /\ FrozenOnScintillation'
<1> USE DEF HistoryTypeOK, ModeTypeOK, Modes
<1>1. ASSUME NEW signal \in Signals, Receive(signal)
      PROVE  RunsAreWhole' /\ FrozenOnScintillation'
  <2>1. signals \in Seq(Signals) /\ signals' = Append(signals, signal)
    BY <1>1 DEF Receive
  <2>2. \A kind \in Signals : EndsWith(signals', 1, kind) <=> signal = kind
    BY <2>1, LatestSignal
  <2>3. ASSUME NEW kind \in Signals, NEW n \in Nat, EndsWith(signals', n, kind), n # 0
        PROVE  signal = kind /\ EndsWith(signals, n - 1, kind) /\ n - 1 \in Nat
    BY <2>1, <2>3, RunOfNext
  <2>4. FrozenOnScintillation'
    <3>1. CASE signal = "IDENTICAL" /\ Identical
      BY <2>2, <3>1 DEF Identical, FrozenOnScintillation, Signals
    <3>2. CASE signal = "HIGH_VEL_NEQ" /\ HighVelocity
      BY <2>2, <3>2 DEF HighVelocity, FrozenOnScintillation, Signals
    <3>3. CASE signal = "LOW_VEL_NEQ" /\ LowVelocity
      BY <2>2, <3>3 DEF LowVelocity, FrozenOnScintillation, Signals
    <3> QED
      BY <1>1, <3>1, <3>2, <3>3 DEF Receive, UpdateMode
  <2>5. ASSUME mode' = "RECEIVER", NEW n \in Nat, EndsWith(signals', n, "IDENTICAL")
        PROVE  n <= badStreak'
    <3>1. badStreak' \in Nat
      BY <1>1 DEF Receive, UpdateMode, Identical, HighVelocity, LowVelocity
    <3>2. CASE n # 0
      <4>1. signal = "IDENTICAL" /\ EndsWith(signals, n - 1, "IDENTICAL") /\ n - 1 \in Nat
        BY <2>3, <2>5, <3>2 DEF Signals
      <4>2. mode = "RECEIVER" /\ badStreak' = badStreak + 1
        BY <1>1, <2>5, <4>1 DEF Receive, UpdateMode, Identical
      <4> QED
        BY <4>1, <4>2 DEF RunsAreWhole
    <3> QED
      BY <3>1, <3>2
  <2>6. ASSUME mode' = "RECEIVER", NEW n \in Nat, EndsWith(signals', n, "LOW_VEL_NEQ")
        PROVE  n <= suspectStreak'
    <3>1. suspectStreak' \in Nat
      BY <1>1 DEF Receive, UpdateMode, Identical, HighVelocity, LowVelocity
    <3>2. CASE n # 0
      <4>1. signal = "LOW_VEL_NEQ" /\ EndsWith(signals, n - 1, "LOW_VEL_NEQ") /\ n - 1 \in Nat
        BY <2>3, <2>6, <3>2 DEF Signals
      <4>2. mode = "RECEIVER" /\ suspectStreak' = suspectStreak + 1
        BY <1>1, <2>6, <4>1 DEF Receive, UpdateMode, LowVelocity
      <4> QED
        BY <4>1, <4>2 DEF RunsAreWhole
    <3> QED
      BY <3>1, <3>2
  <2> QED
    BY <2>4, <2>5, <2>6 DEF RunsAreWhole
<1>2. CASE UNCHANGED historyVars
  BY <1>2 DEF historyVars, RunsAreWhole, FrozenOnScintillation
<1> QED
  BY <1>1, <1>2 DEF HistoryNext

\* What a row says about its sample is true for every history of signals and all
\* thresholds: its label, the mode it rests on and whether it was integrated.
THEOREM RowsTellTheTruth == HistorySpec => []RowInvariant
<1>1. HistoryInit => RunsAreWhole /\ FrozenOnScintillation
  BY DEF HistoryInit, ModeInit, RunsAreWhole, FrozenOnScintillation, EndsWith
<1>2. HistoryTypeOK /\ RunsAreWhole /\ FrozenOnScintillation /\ [HistoryNext]_historyVars
        => RunsAreWhole' /\ FrozenOnScintillation'
  BY RunsStep
<1>3. HistoryTypeOK /\ RunsAreWhole /\ FrozenOnScintillation /\ ModeConsistent /\ StreaksAreRuns
        => RowInvariant
  <2> SUFFICES ASSUME HistoryTypeOK, RunsAreWhole, FrozenOnScintillation, ModeConsistent,
                      StreaksAreRuns
               PROVE  NoBadRunTrusted /\ LabelIsHonest
    BY DEF RowInvariant
  <2>1. NoBadRunTrusted
    BY DEF RunsAreWhole, ModeConsistent, NoBadRunTrusted, HistoryTypeOK, ModeTypeOK
  <2>2. ASSUME EndsWith(signals, 1, "LOW_VEL_NEQ")
        PROVE  DisplacementSource # "RECEIVER"
    BY <2>2 DEF RunsAreWhole, DisplacementSource, HistoryTypeOK, ModeTypeOK, Modes
  <2>3. ASSUME DisplacementSource = "RECEIVER_SUSPECT"
        PROVE  EndsWith(signals, 1, "LOW_VEL_NEQ")
    <3>1. suspectStreak \in Nat /\ suspectStreak # 0
      BY <2>3 DEF DisplacementSource, HistoryTypeOK, ModeTypeOK
    <3>2. EndsWith(signals, suspectStreak, "LOW_VEL_NEQ") /\ Len(signals) \in Nat
      BY DEF StreaksAreRuns, HistoryTypeOK
    <3> QED
      BY <3>1, <3>2 DEF EndsWith
  <2> QED
    BY <2>1, <2>2, <2>3 DEF LabelIsHonest
<1> QED
  BY <1>1, <1>2, <1>3, HistoryTypes, ModeStaysConsistent, StreaksStayRuns, PTL DEF HistorySpec

\* ---- the core

USE CoreAssumption

\* Appending an element of a set keeps a sequence over that set.
LEMMA AppendIsSeq ==
  ASSUME NEW S, NEW seq \in Seq(S), NEW e \in S
  PROVE  /\ Append(seq, e) \in Seq(S)
         /\ Len(Append(seq, e)) = Len(seq) + 1
         /\ \A i \in 1..Len(seq) : Append(seq, e)[i] = seq[i]
         /\ Append(seq, e)[Len(seq) + 1] = e
  OBVIOUS

\* Any signal keeps the types of the mode machine.
LEMMA ModeTypes ==
  ASSUME ModeTypeOK, NEW signal, UpdateMode(signal)
  PROVE  ModeTypeOK'
<1> USE DEF ModeTypeOK, Modes
<1>1. Identical \/ HighVelocity \/ LowVelocity
  BY DEF UpdateMode
<1>2. mode' \in Modes
  BY <1>1 DEF Identical, HighVelocity, LowVelocity
<1>3. badStreak' \in Nat /\ goodStreak' \in Nat /\ suspectStreak' \in Nat
  BY <1>1 DEF Identical, HighVelocity, LowVelocity
<1>4. freeze' \in BOOLEAN
  BY <1>1 DEF Identical, HighVelocity, LowVelocity
<1> QED
  BY <1>2, <1>3, <1>4

\* The row of an open event that describes what was received is a proper row.
LEMMA RowOfOpenEvent ==
  ASSUME TypeOK, OpenEventIsReal, eventActive, NEW t \in Time
  PROVE  EventRow(t) \in Event
<1>1. eventStart \in Time
  BY DEF TypeOK, OpenEventIsReal
<1>2. peakVelocity \in Speeds
  BY DEF TypeOK, OpenEventIsReal
<1>3. peakDisplacement \in Sizes \cup {0}
  BY DEF TypeOK
<1>4. t - eventStart \in Int
  BY <1>1 DEF Time
<1> QED
  BY <1>1, <1>2, <1>3, <1>4 DEF EventRow, Event

\* What one velocity sentence does to the open event and to the table: the event
\* begins, grows, ends in a row, or its INSERT fails with or without a row.
LEMMA VelocityShape ==
  ASSUME NEW t, NEW v, HandleVelocity(t, v)
  PROVE  \/ EventBegins(t, v)
         \/ EventGrows(v)
         \/ NoEvent(v)
         \/ EventEnds(t, v)
         \/ EventWriteRaises(t, v)
  BY DEF HandleVelocity

\* A velocity sentence moves the integrator on, or fails and leaves it alone.
LEMMA VelocityIntegrates ==
  ASSUME NEW t, NEW v, HandleVelocity(t, v)
  PROVE  Integrate(t) \/ UNCHANGED <<integral, lastTime>>
  BY DEF HandleVelocity

\* Every velocity sentence keeps the types of what the core holds of the event.
LEMMA EventTypes ==
  ASSUME TypeOK, OpenEventIsReal, NEW t \in Time, NEW v \in Speeds, HandleVelocity(t, v)
  PROVE  /\ eventActive' \in BOOLEAN
         /\ eventStart' \in Time \cup {None}
         /\ peakVelocity' \in Speeds \cup {0}
         /\ peakDisplacement' \in Sizes \cup {0}
         /\ events' \in Seq(Event)
         /\ eventFaults' \in [FaultOutcomes -> Nat]
<1>a. events \in Seq(Event)
  BY DEF TypeOK
<1> USE DEF TypeOK
<1>1. CASE EventBegins(t, v)
  BY <1>1 DEF EventBegins
<1>2. CASE EventGrows(v)
  BY <1>2 DEF EventGrows
<1>3. CASE NoEvent(v)
  BY <1>3 DEF NoEvent, eventVars
<1>4. CASE EventEnds(t, v)
  <2>1. EventRow(t) \in Event
    BY <1>4, RowOfOpenEvent DEF EventEnds
  <2>2. Append(events, EventRow(t)) \in Seq(Event)
    BY <1>a, <2>1, AppendIsSeq
  <2>3. events' \in Seq(Event)
    BY <1>4, <2>2 DEF EventEnds
  <2>4. UNCHANGED <<eventStart, peakVelocity, peakDisplacement, eventFaults>> /\ eventActive' = FALSE
    BY <1>4 DEF EventEnds
  <2> QED
    BY <2>3, <2>4
<1>5. CASE EventWriteRaises(t, v)
  <2>1. EventRow(t) \in Event
    BY <1>5, RowOfOpenEvent DEF EventWriteRaises
  <2>4. Append(events, EventRow(t)) \in Seq(Event)
    BY <1>a, <2>1, AppendIsSeq
  <2>2. events' \in Seq(Event)
    BY <1>a, <1>5, <2>4 DEF EventWriteRaises
  <2>3. eventFaults' \in [FaultOutcomes -> Nat]
    <3>1. PICK outcome \in FaultOutcomes : eventFaults' = [eventFaults EXCEPT ![outcome] = @ + 1]
      BY <1>5 DEF EventWriteRaises, WriteRaises
    <3>2. eventFaults[outcome] + 1 \in Nat
      OBVIOUS
    <3> QED
      BY <3>1, <3>2
  <2> QED
    BY <1>5, <2>2, <2>3 DEF EventWriteRaises
<1> QED
  BY <1>1, <1>2, <1>3, <1>4, <1>5, VelocityShape

\* The integrator's counters and its time keep their types.
LEMMA IntegralTypes ==
  ASSUME TypeOK, NEW t \in Time, NEW v, HandleVelocity(t, v)
  PROVE  lastTime' \in Time \cup {None} /\ integral' \in [Time -> Nat]
<1> USE DEF TypeOK
<1>1. CASE Integrate(t)
  <2>1. \A s \in Time : integral[s] \in Nat /\ integral[s] + 1 \in Nat
    OBVIOUS
  <2> QED
    BY <1>1, <2>1 DEF Integrate
<1>2. CASE UNCHANGED <<integral, lastTime>>
  BY <1>2
<1> QED
  BY <1>1, <1>2, VelocityIntegrates
\* A displacement sentence, any signal it gives included, keeps every type.
LEMMA DisplacementTypes ==
  ASSUME TypeOK, NEW same \in BOOLEAN, NEW d \in Sizes, HandleDisplacement(same, d)
  PROVE  ModeTypeOK' /\ peakDisplacement' \in Sizes \cup {0}
<1>1. ModeTypeOK'
  <2>1. CASE UNCHANGED modeVars
    BY <2>1 DEF TypeOK, ModeTypeOK, modeVars
  <2>2. CASE \E v \in lastSpeed : UpdateMode(Classify(same, v))
    BY <2>2, ModeTypes DEF TypeOK
  <2> QED
    BY <2>1, <2>2 DEF HandleDisplacement
<1>2. peakDisplacement' \in Sizes \cup {0}
  BY DEF HandleDisplacement, TypeOK
<1> QED
  BY <1>1, <1>2

-----------------------------------------------------------------------------

\* Until the caster replays, samples come in order: nothing known is later than
\* the clock, stored events ended by then, the open one follows them, and no
\* second after the integrator's time was integrated.
InOrder ==
  replays = 0 =>
    /\ \A t \in strong : t <= clock
    /\ lastTime <= clock
    /\ \A s \in Time : /\ integral[s] <= 1
                       /\ s > lastTime => integral[s] = 0

\* Until the caster replays, every stored event ended by the clock.
EventsEnded ==
  replays = 0 => \A i \in 1..Len(events) : events[i].start + events[i].duration <= clock

\* The inductive invariant: the events, the report of strong motion, and the order
\* of what is known.
CoreInv == EventInvariant /\ StrongMotionReported /\ InOrder /\ EventsEnded

\* The core starts with nothing known.
LEMMA InitCore ==
  ASSUME Init
  PROVE  CoreInv
<1>1. ModeTypeOK
  BY DEF Init, ModeInit, ModeTypeOK, Modes
<1>2. Cardinality({}) = 0
  BY FS_EmptySet
<1>3. /\ lastSpeed \subseteq Speeds /\ Cardinality(lastSpeed) <= 1
      /\ integral \in [Time -> Nat]
      /\ eventFaults \in [FaultOutcomes -> Nat]
      /\ events \in Seq(Event) /\ Len(events) = 0
  BY <1>2 DEF Init
<1>4. TypeOK
  BY <1>1, <1>3 DEF Init, TypeOK, None
<1>5. EventsDisjoint /\ OpenEventIsReal /\ StrongMotionReported /\ EventsEnded
  BY <1>3 DEF Init, EventsDisjoint, OpenEventIsReal, StrongMotionReported, EventsEnded
<1>6. InOrder
  BY DEF Init, InOrder, None
<1> QED
  BY <1>4, <1>5, <1>6 DEF CoreInv, EventInvariant

\* Every step keeps the types.
LEMMA TypeStep ==
  ASSUME TypeOK, OpenEventIsReal, [Next]_vars
  PROVE  TypeOK'
<1>1. CASE NextVelocity
  <2>1. PICK t \in Time, v \in Speeds :
          /\ clock' = t /\ HandleVelocity(t, v) /\ UNCHANGED boundVars
    BY <1>1 DEF NextVelocity
  <2>2. UNCHANGED modeVars /\ lastSpeed' = {v}
    BY <2>1 DEF HandleVelocity
  <2>3. strong' \subseteq Time
    BY <2>1 DEF HandleVelocity, TypeOK
  <2>4. Cardinality({v}) = 1
    BY FS_Singleton
  <2>5. ModeTypeOK'
    BY <2>2 DEF TypeOK, ModeTypeOK, modeVars
  <2>6. lastSpeed' \subseteq Speeds /\ Cardinality(lastSpeed') <= 1
    BY <2>2, <2>4
  <2>7. /\ eventActive' \in BOOLEAN
        /\ eventStart' \in Time \cup {None}
        /\ peakVelocity' \in Speeds \cup {0}
        /\ peakDisplacement' \in Sizes \cup {0}
        /\ events' \in Seq(Event)
        /\ eventFaults' \in [FaultOutcomes -> Nat]
    BY <2>1, EventTypes
  <2>8. lastTime' \in Time \cup {None} /\ integral' \in [Time -> Nat]
    BY <2>1, IntegralTypes
  <2>9. clock' \in Time \cup {0} /\ replays' \in Nat /\ rows' \in Nat
    BY <2>1 DEF boundVars, TypeOK
  <2> QED
    BY <2>3, <2>5, <2>6, <2>7, <2>8, <2>9 DEF TypeOK
<1>2. CASE Reconnect
  <2>1. clock' \in Time \cup {0}
    BY <1>2 DEF Reconnect, TypeOK, Time
  <2>2. replays' \in Nat
    BY <1>2 DEF Reconnect, TypeOK
  <2>3. UNCHANGED <<modeVars, eventVars, lastTime, lastSpeed, integral, rows, strong>>
    BY <1>2 DEF Reconnect
  <2> QED
    BY <2>1, <2>2, <2>3 DEF TypeOK, ModeTypeOK, modeVars, eventVars
<1>3. CASE NextDisplacement
  <2>1. PICK same \in BOOLEAN, d \in Sizes : HandleDisplacement(same, d)
    BY <1>3 DEF NextDisplacement
  <2>2. ModeTypeOK' /\ peakDisplacement' \in Sizes \cup {0}
    BY <2>1, DisplacementTypes
  <2>3. UNCHANGED <<eventActive, eventStart, peakVelocity, events, eventFaults,
                    lastTime, lastSpeed, integral, strong, clock, replays>>
    BY <1>3, <2>1 DEF HandleDisplacement, NextDisplacement
  <2>4. rows' \in Nat
    BY <1>3 DEF NextDisplacement, TypeOK
  <2> QED
    BY <2>2, <2>3, <2>4 DEF TypeOK
<1>4. CASE UNCHANGED vars
  BY <1>4 DEF vars, TypeOK, ModeTypeOK, modeVars, eventVars, boundVars
<1> QED
  BY <1>1, <1>2, <1>3, <1>4 DEF Next

\* A velocity sentence keeps the open event real.
LEMMA VelocityKeepsEventReal ==
  ASSUME TypeOK, OpenEventIsReal, NEW t \in Time, NEW v \in Speeds, HandleVelocity(t, v)
  PROVE  OpenEventIsReal'
<1> USE DEF OpenEventIsReal
<1>1. strong \subseteq strong' /\ (v > Threshold => t \in strong')
  BY DEF HandleVelocity
<1>2. CASE EventBegins(t, v)
  BY <1>1, <1>2 DEF EventBegins
<1>3. CASE EventGrows(v)
  BY <1>1, <1>3 DEF EventGrows
<1>4. CASE NoEvent(v)
  BY <1>1, <1>4 DEF NoEvent, eventVars
<1>5. CASE EventEnds(t, v)
  BY <1>5 DEF EventEnds
<1>6. CASE EventWriteRaises(t, v)
  BY <1>1, <1>6 DEF EventWriteRaises
<1> QED
  BY <1>2, <1>3, <1>4, <1>5, <1>6, VelocityShape

\* What the events say after one more row of the open event: the rows before are
\* as they were, and the new one runs from the event's start to t.
LEMMA RowAppended ==
  ASSUME TypeOK, OpenEventIsReal, eventActive, NEW t \in Time,
         events' = Append(events, EventRow(t))
  PROVE  /\ Len(events) \in Nat /\ Len(events') = Len(events) + 1
         /\ \A i \in 1..Len(events) : events'[i] = events[i] /\ events[i] \in Event
         /\ events'[Len(events')].start = eventStart
         /\ events'[Len(events')].duration = t - eventStart
         /\ events'[Len(events')].start + events'[Len(events')].duration = t
<1>1. events \in Seq(Event) /\ EventRow(t) \in Event
  BY RowOfOpenEvent DEF TypeOK
<1>2. /\ Len(events) \in Nat /\ Len(events') = Len(events) + 1
      /\ \A i \in 1..Len(events) : events'[i] = events[i] /\ events[i] \in Event
      /\ events'[Len(events')] = EventRow(t)
  BY <1>1, AppendIsSeq
<1>3. eventStart + (t - eventStart) = t
  BY DEF TypeOK, OpenEventIsReal, Time
<1> QED
  BY <1>2, <1>3 DEF EventRow

\* A sample later than all before it keeps the table in order: what is stored
\* ended by then, rows do not overlap and precede the open event.
LEMMA SampleKeepsEvents ==
  ASSUME CoreInv, replays = 0, NEW t \in Time, NEW v \in Speeds, t > clock,
         HandleVelocity(t, v), clock' = t, UNCHANGED replays
  PROVE  EventsEnded' /\ EventsDisjoint'
<1> USE DEF CoreInv, EventInvariant
<1>a. \A i \in 1..Len(events) : events[i] \in Event
  BY DEF TypeOK
<1>b. \A i \in 1..Len(events) : events[i].start \in Int /\ events[i].duration \in Int
  BY <1>a DEF Event, Time
<1>1. /\ \A i \in 1..Len(events) : /\ events[i].start + events[i].duration <= clock
                                   /\ events[i].start + events[i].duration \in Int
      /\ clock \in Int /\ t \in Int
  <2>1. clock \in Int /\ t \in Int
    BY DEF TypeOK, Time
  <2>2. \A i \in 1..Len(events) : events[i].start + events[i].duration \in Int
    BY <1>b
  <2>3. \A i \in 1..Len(events) : events[i].start + events[i].duration <= clock
    BY DEF EventsEnded
  <2> QED
    BY <2>1, <2>2, <2>3
<1>2. CASE UNCHANGED events
  <2>1. EventsEnded'
    BY <1>1, <1>2 DEF EventsEnded
  <2>2. CASE EventBegins(t, v)
    <3>1. /\ ~eventActive /\ eventStart' = t
          /\ UNCHANGED eventFaults
      BY <2>2 DEF EventBegins
    <3>2. \A i \in 1..Len(events) : events[i].start + events[i].duration < t
      BY <1>1
    <3> QED
      BY <1>2, <2>1, <3>1, <3>2 DEF EventsDisjoint
  <2>3. CASE EventGrows(v) \/ NoEvent(v) \/ EventWriteRaises(t, v)
    <3>1. UNCHANGED eventStart /\ (eventActive' => eventActive)
      BY <2>3 DEF EventGrows, NoEvent, eventVars, EventWriteRaises
    <3>2. eventFaults'["stored"] = 0 => eventFaults["stored"] = 0
      BY <2>3 DEF EventGrows, NoEvent, eventVars, EventWriteRaises, WriteRaises, TypeOK,
                  FaultOutcomes
    <3> QED
      BY <1>2, <2>1, <3>1, <3>2 DEF EventsDisjoint
  <2>4. CASE EventEnds(t, v)
    BY <1>2, <2>1, <2>4 DEF EventEnds, EventsDisjoint
  <2> QED
    BY <2>2, <2>3, <2>4, VelocityShape
<1>3. CASE eventActive /\ events' = Append(events, EventRow(t))
  <2>1. /\ Len(events) \in Nat /\ Len(events') = Len(events) + 1
        /\ \A i \in 1..Len(events) : events'[i] = events[i] /\ events[i] \in Event
        /\ events'[Len(events')].start = eventStart
        /\ events'[Len(events')].start + events'[Len(events')].duration = t
    BY <1>3, RowAppended
  <2>2. EventsEnded'
    BY <1>1, <2>1, SMTT(30) DEF EventsEnded
  <2>3. CASE EventEnds(t, v)
    <3>1. ~eventActive' /\ UNCHANGED eventFaults
      BY <2>3 DEF EventEnds
    <3> QED
      BY <1>3, <2>1, <2>2, <3>1 DEF EventsDisjoint
  <2>4. CASE EventWriteRaises(t, v) /\ WriteRaises("stored")
    <3>1. eventFaults'["stored"] # 0
      BY <2>4 DEF WriteRaises, TypeOK, FaultOutcomes
    <3> QED
      BY <2>2, <3>1 DEF EventsDisjoint
  <2>5. CASE UNCHANGED events
    BY <1>2, <2>5
  <2> QED
    BY <2>3, <2>4, <2>5, VelocityShape
       DEF EventBegins, EventGrows, NoEvent, eventVars, EventWriteRaises
<1> QED
  BY <1>2, <1>3, VelocityShape
     DEF EventBegins, EventGrows, NoEvent, eventVars, EventEnds, EventWriteRaises

\* A sample later than all before it leaves no strong motion unreported.
LEMMA SampleKeepsReport ==
  ASSUME CoreInv, replays = 0, NEW t \in Time, NEW v \in Speeds, t > clock,
         HandleVelocity(t, v), UNCHANGED replays
  PROVE  StrongMotionReported'
<1> USE DEF CoreInv, EventInvariant
<1> DEFINE Reported(s) == \E i \in 1..Len(events) : /\ events[i].start <= s
                                                    /\ s < events[i].start + events[i].duration
<1>1. \A s \in strong : s < t
  BY DEF InOrder, TypeOK, Time
<1>2. \A s \in strong : (eventActive /\ eventStart <= s) \/ Reported(s)
  BY DEF StrongMotionReported
<1>3. strong' = strong \/ (v > Threshold /\ strong' = strong \cup {t})
  BY DEF HandleVelocity
<1>4. CASE EventBegins(t, v)
  <2>1. UNCHANGED events /\ ~eventActive /\ eventActive' /\ eventStart' = t
    BY <1>4 DEF EventBegins
  <2> QED
    BY <1>2, <1>3, <2>1 DEF StrongMotionReported, Time
<1>5. CASE EventGrows(v)
  <2>1. UNCHANGED <<events, eventStart>> /\ eventActive /\ eventActive'
    BY <1>5 DEF EventGrows
  <2>2. eventStart <= t
    BY <1>1, <2>1 DEF OpenEventIsReal, TypeOK, Time
  <2> QED
    BY <1>2, <1>3, <2>1, <2>2 DEF StrongMotionReported
<1>6. CASE NoEvent(v)
  <2>1. UNCHANGED <<events, eventStart, eventActive>> /\ v <= Threshold
    BY <1>6 DEF NoEvent, eventVars
  <2>2. strong' = strong
    BY <1>3, <2>1
  <2> QED
    BY <1>2, <2>1, <2>2 DEF StrongMotionReported
<1>7. CASE eventActive /\ v <= Threshold /\ events' = Append(events, EventRow(t))
  <2>1. /\ Len(events) \in Nat /\ Len(events') = Len(events) + 1
        /\ \A i \in 1..Len(events) : events'[i] = events[i]
        /\ events'[Len(events')].start = eventStart
        /\ events'[Len(events')].start + events'[Len(events')].duration = t
    BY <1>7, RowAppended
  <2>2. strong' = strong
    BY <1>3, <1>7
  <2>3. ASSUME NEW s \in strong
        PROVE  \E i \in 1..Len(events') : /\ events'[i].start <= s
                                          /\ s < events'[i].start + events'[i].duration
    <3>1. CASE eventStart <= s
      <4>1. Len(events') \in 1..Len(events')
        BY <2>1
      <4> QED
        BY <1>1, <2>1, <3>1, <4>1
    <3>2. CASE Reported(s)
      BY <2>1, <3>2
    <3> QED
      BY <1>2, <3>1, <3>2
  <2> QED
    BY <2>2, <2>3 DEF StrongMotionReported
<1>8. CASE EventWriteRaises(t, v) /\ UNCHANGED events
  <2>1. UNCHANGED <<events, eventStart, eventActive>> /\ v <= Threshold
    BY <1>8 DEF EventWriteRaises
  <2> QED
    BY <1>2, <1>3, <2>1 DEF StrongMotionReported
<1> QED
  BY <1>4, <1>5, <1>6, <1>7, <1>8, VelocityShape DEF EventEnds, EventWriteRaises

\* A sample later than all before it keeps what is known no later than the clock,
\* and integrates only seconds that were not.
LEMMA SampleKeepsOrder ==
  ASSUME CoreInv, replays = 0, NEW t \in Time, NEW v \in Speeds, t > clock,
         HandleVelocity(t, v), clock' = t, UNCHANGED replays
  PROVE  InOrder'
<1> USE DEF CoreInv, EventInvariant
<1>1. /\ \A s \in strong : s <= clock
      /\ lastTime <= clock
      /\ \A s \in Time : integral[s] <= 1 /\ (s > lastTime => integral[s] = 0)
  BY DEF InOrder
<1>2. clock \in Int /\ t \in Int /\ strong \subseteq Int /\ lastTime \in Int /\ Time \subseteq Int
  BY DEF TypeOK, Time, None
<1>3. \A s \in strong' : s <= clock'
  BY <1>1, <1>2 DEF HandleVelocity
<1>4. CASE UNCHANGED <<integral, lastTime>>
  BY <1>1, <1>2, <1>3, <1>4 DEF InOrder
<1>5. CASE Integrate(t)
  <2>1. lastTime' = t
    BY <1>5 DEF Integrate
  <2>2. ASSUME NEW s \in Time
        PROVE  integral'[s] <= 1 /\ (s > t => integral'[s] = 0)
    <3>1. \/ integral'[s] = integral[s] + 1 /\ lastTime < s /\ s <= t
          \/ integral'[s] = integral[s] /\ ~(lastTime < s /\ s <= t)
          \/ integral'[s] = integral[s]
      BY <1>5 DEF Integrate
    <3> QED
      BY <1>1, <1>2, <3>1
  <2> QED
    BY <1>2, <1>3, <2>1, <2>2 DEF InOrder
<1> QED
  BY <1>4, <1>5, VelocityIntegrates

\* The invariant is inductive.
LEMMA CoreStep ==
  ASSUME CoreInv, [Next]_vars
  PROVE  CoreInv'
<1> USE DEF CoreInv, EventInvariant
<1>1. TypeOK'
  BY TypeStep
<1>2. CASE NextVelocity
  <2>1. PICK t \in Time, v \in Speeds :
          /\ t > clock /\ clock' = t /\ HandleVelocity(t, v) /\ UNCHANGED replays
    BY <1>2 DEF NextVelocity, boundVars
  <2>2. OpenEventIsReal'
    BY <2>1, VelocityKeepsEventReal
  <2>3. CASE replays = 0
    BY <1>1, <2>1, <2>2, <2>3, SampleKeepsEvents, SampleKeepsReport, SampleKeepsOrder
  <2>4. CASE replays # 0
    BY <1>1, <2>1, <2>2, <2>4 DEF EventsDisjoint, StrongMotionReported, InOrder, EventsEnded
  <2> QED
    BY <2>3, <2>4
<1>3. CASE Reconnect
  <2>1. replays' # 0
    BY <1>3 DEF Reconnect, TypeOK
  <2>2. UNCHANGED <<eventActive, eventStart, peakVelocity, strong>>
    BY <1>3 DEF Reconnect, eventVars
  <2> QED
    BY <1>1, <2>1, <2>2
       DEF OpenEventIsReal, EventsDisjoint, StrongMotionReported, InOrder, EventsEnded
<1>4. CASE NextDisplacement \/ UNCHANGED vars
  <2>1. UNCHANGED <<eventActive, eventStart, peakVelocity, events, eventFaults,
                    lastTime, integral, strong, clock, replays>>
    BY <1>4 DEF NextDisplacement, HandleDisplacement, vars, eventVars, boundVars
  <2> QED
    BY <1>1, <2>1
       DEF OpenEventIsReal, EventsDisjoint, StrongMotionReported, InOrder, EventsEnded
<1> QED
  BY <1>2, <1>3, <1>4 DEF Next

\* The inductive invariant holds of every behaviour of the core.
LEMMA CoreInvariant == Spec => []CoreInv
<1>1. Init => CoreInv
  BY InitCore
<1>2. CoreInv /\ [Next]_vars => CoreInv'
  BY CoreStep
<1> QED
  BY <1>1, <1>2, PTL DEF Spec

\* Events, stored and open, describe what was received and do not overlap, for any
\* samples, losses and failing INSERTs, until the caster replays.
THEOREM EventsAreReal == Spec => []EventInvariant
<1>1. CoreInv => EventInvariant
  BY DEF CoreInv
<1> QED
  BY <1>1, CoreInvariant, PTL

\* Every sample above the threshold lies in a stored event or in the open one.
THEOREM NoStrongMotionLost == Spec => []StrongMotionReported
<1>1. CoreInv => StrongMotionReported
  BY DEF CoreInv
<1> QED
  BY <1>1, CoreInvariant, PTL

\* No second of motion is integrated twice, whatever the gap limit and however
\* often the integrator freezes.
THEOREM NothingIntegratedTwice == Spec => []IntegratedAtMostOnce
<1>1. CoreInv => IntegratedAtMostOnce
  BY DEF CoreInv, InOrder, IntegratedAtMostOnce
<1> QED
  BY <1>1, CoreInvariant, PTL

\* An open event is closed only by the step that stores a row of it.
THEOREM EventsEndInRows == Spec => OpenEventEndsInRow
<1> DEFINE Ended == (eventActive /\ ~eventActive') =>
                      \E i \in 1..Len(events') : events'[i].start = eventStart
<1>1. CoreInv /\ [Next]_vars => [Ended]_vars
  <2> SUFFICES ASSUME CoreInv, Next, eventActive, ~eventActive'
               PROVE  \E i \in 1..Len(events') : events'[i].start = eventStart
    OBVIOUS
  <2>1. PICK t \in Time, v \in Speeds : HandleVelocity(t, v)
    BY DEF Next, NextVelocity, Reconnect, NextDisplacement, HandleDisplacement, eventVars
  <2>2. EventEnds(t, v)
    BY <2>1, VelocityShape DEF EventBegins, EventGrows, NoEvent, EventWriteRaises
  <2>3. /\ Len(events') \in 1..Len(events')
        /\ events'[Len(events')].start = eventStart
    BY <2>2, RowAppended DEF EventEnds, CoreInv, EventInvariant
  <2> QED
    BY <2>3
<1> QED
  BY <1>1, CoreInvariant, PTL DEF Spec, OpenEventEndsInRow
=============================================================================
