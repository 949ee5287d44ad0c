----------------------------- MODULE SignalHistory -----------------------------
(***************************************************************************)
(* SignalMode with the signals it has seen as a history variable: what the *)
(* counters and the transitions must mean in terms of what was received.   *)
(***************************************************************************)
EXTENDS SignalMode, Sequences

CONSTANT MaxSignals   \* bound: displacement sentences compared

ASSUME MaxSignalsAssumption == MaxSignals \in Nat

VARIABLE signals      \* every signal so far, oldest first

historyVars == <<mode, badStreak, goodStreak, suspectStreak, freeze, signals>>

HistoryInit == ModeInit /\ signals = <<>>

Receive(signal) ==
  /\ Len(signals) < MaxSignals
  /\ UpdateMode(signal)
  /\ signals' = Append(signals, signal)

HistoryNext == \E signal \in Signals : Receive(signal)
HistorySpec == HistoryInit /\ [][HistoryNext]_historyVars

-----------------------------------------------------------------------------

\* The last n signals were all the given one.
EndsWith(seq, n, signal) ==
  /\ n <= Len(seq)
  /\ \A i \in (Len(seq) - n + 1)..Len(seq) : seq[i] = signal

HistoryTypeOK == ModeTypeOK /\ signals \in Seq(Signals)

\* A streak counts signals that really were received one after the other, with
\* nothing in between: no streak survives a different signal or a mode change.
StreaksAreRuns ==
  /\ EndsWith(signals, badStreak, "IDENTICAL")
  /\ EndsWith(signals, goodStreak, "HIGH_VEL_NEQ")
  /\ EndsWith(signals, suspectStreak, "LOW_VEL_NEQ")

\* The mode changes only on the evidence the thresholds ask for: to MANUAL after
\* an unbroken run of identical or of suspect signals, back to RECEIVER after an
\* unbroken run of strong-motion signals.
ModeChangesOnEvidence ==
  [][/\ (mode = "RECEIVER" /\ mode' = "MANUAL") =>
           \/ EndsWith(signals', StreakThreshold, "IDENTICAL")
           \/ EndsWith(signals', SuspectThreshold, "LOW_VEL_NEQ")
     /\ (mode = "MANUAL" /\ mode' = "RECEIVER") =>
           EndsWith(signals', GoodThreshold, "HIGH_VEL_NEQ")]_historyVars

\* The integrator is frozen exactly while the core integrates and the latest
\* signal was scintillation.
FrozenOnScintillation ==
  freeze <=> mode = "MANUAL" /\ EndsWith(signals, 1, "LOW_VEL_NEQ")

\* A core in RECEIVER mode has not just seen a full run of bad signals: a stuck
\* or noisy receiver is never trusted past its threshold.
NoBadRunTrusted ==
  mode = "RECEIVER" => /\ ~EndsWith(signals, StreakThreshold, "IDENTICAL")
                       /\ ~EndsWith(signals, SuspectThreshold, "LOW_VEL_NEQ")

\* The label of a row never hides a scintillation sample: after one the row is
\* suspect or integrated, and a suspect row always follows one
\* (displacement_source in handle_displacement, after _update_mode).
LabelIsHonest ==
  /\ EndsWith(signals, 1, "LOW_VEL_NEQ") => DisplacementSource # "RECEIVER"
  /\ DisplacementSource = "RECEIVER_SUSPECT" => EndsWith(signals, 1, "LOW_VEL_NEQ")

\* What a row says about its sample is true, whatever the history: its label, the
\* mode it rests on and whether it was integrated.
RowInvariant == HistoryTypeOK /\ FrozenOnScintillation /\ NoBadRunTrusted /\ LabelIsHonest
=============================================================================
