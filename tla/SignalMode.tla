------------------------------ MODULE SignalMode ------------------------------
(***************************************************************************)
(* The smart-integration mode machine of an ingestion core                 *)
(* (services/vadase-rt-monitor/src/domain/processor.py).  Every            *)
(* displacement sentence is compared with the latest velocity and gives    *)
(* one signal; streaks of signals decide whether displacements are taken   *)
(* from the receiver or integrated from velocity, and whether the          *)
(* integrator is frozen.                                                   *)
(***************************************************************************)
EXTENDS Naturals

CONSTANTS
  StreakThreshold,   \* STREAK_THRESHOLD, 5 in the code
  GoodThreshold,     \* GOOD_THRESHOLD, 30
  SuspectThreshold,  \* SUSPECT_THRESHOLD, 3
  ForceIntegration   \* the force_integration argument

ASSUME ThresholdAssumption ==
  /\ StreakThreshold \in Nat \ {0}
  /\ GoodThreshold \in Nat \ {0}
  /\ SuspectThreshold \in Nat \ {0}
ASSUME ForceAssumption == ForceIntegration \in BOOLEAN

VARIABLES mode, badStreak, goodStreak, suspectStreak, freeze

modeVars == <<mode, badStreak, goodStreak, suspectStreak, freeze>>

Signals == {"IDENTICAL", "HIGH_VEL_NEQ", "LOW_VEL_NEQ"}
Modes == {"RECEIVER", "MANUAL"}

ModeInit ==
  /\ mode = IF ForceIntegration THEN "MANUAL" ELSE "RECEIVER"
  /\ badStreak = 0
  /\ goodStreak = 0
  /\ suspectStreak = 0
  /\ freeze = FALSE

Identical ==
  /\ goodStreak' = 0
  /\ suspectStreak' = 0
  /\ \/ /\ mode = "RECEIVER"
        /\ badStreak + 1 >= StreakThreshold
        /\ mode' = "MANUAL"
        /\ badStreak' = 0
        /\ freeze' = FALSE
     \/ /\ mode = "RECEIVER"
        /\ badStreak + 1 < StreakThreshold
        /\ badStreak' = badStreak + 1
        /\ UNCHANGED <<mode, freeze>>
     \/ /\ mode = "MANUAL"
        /\ badStreak' = badStreak + 1
        /\ freeze' = FALSE
        /\ UNCHANGED mode

\* Mutation: strong motion does not unfreeze the integrator.
HighVelocityKeepsFreeze ==
  /\ badStreak' = 0
  /\ suspectStreak' = 0
  /\ goodStreak' = IF mode = "MANUAL" /\ goodStreak + 1 < GoodThreshold
                     THEN goodStreak + 1 ELSE 0
  /\ mode' = IF goodStreak + 1 >= GoodThreshold THEN "RECEIVER" ELSE mode
  /\ UNCHANGED freeze

HighVelocity ==
  /\ badStreak' = 0
  /\ suspectStreak' = 0
  /\ freeze' = FALSE
  /\ \/ /\ mode = "RECEIVER"
        /\ goodStreak' = 0
        /\ UNCHANGED mode
     \/ /\ mode = "MANUAL"
        /\ goodStreak + 1 < GoodThreshold
        /\ goodStreak' = goodStreak + 1
        /\ UNCHANGED mode
     \/ /\ mode = "MANUAL"
        /\ goodStreak + 1 >= GoodThreshold
        /\ mode' = "RECEIVER"
        /\ goodStreak' = 0

LowVelocity ==
  /\ badStreak' = 0
  /\ goodStreak' = 0
  /\ \/ /\ mode = "RECEIVER"
        /\ suspectStreak + 1 < SuspectThreshold
        /\ suspectStreak' = suspectStreak + 1
        /\ UNCHANGED <<mode, freeze>>
     \/ /\ mode = "RECEIVER"
        /\ suspectStreak + 1 >= SuspectThreshold
        /\ mode' = "MANUAL"
        /\ suspectStreak' = 0
        /\ freeze' = TRUE
     \/ /\ mode = "MANUAL"
        /\ suspectStreak' = suspectStreak + 1
        /\ freeze' = TRUE
        /\ UNCHANGED mode

\* Mutations: identical samples ignored in MANUAL mode; scintillation ignored in
\* RECEIVER mode; the two unequal signals swapped.
UpdateModeSkipsManualIdentical(signal) ==
  \/ signal = "IDENTICAL" /\ mode = "RECEIVER" /\ Identical
  \/ signal = "IDENTICAL" /\ mode = "MANUAL" /\ UNCHANGED modeVars
  \/ signal = "HIGH_VEL_NEQ" /\ HighVelocity
  \/ signal = "LOW_VEL_NEQ" /\ LowVelocity
UpdateModeSkipsReceiverLow(signal) ==
  \/ signal = "IDENTICAL" /\ Identical
  \/ signal = "HIGH_VEL_NEQ" /\ HighVelocity
  \/ signal = "LOW_VEL_NEQ" /\ mode = "RECEIVER" /\ UNCHANGED modeVars
  \/ signal = "LOW_VEL_NEQ" /\ mode = "MANUAL" /\ LowVelocity
UpdateModeSwapped(signal) ==
  \/ signal = "IDENTICAL" /\ Identical
  \/ signal = "HIGH_VEL_NEQ" /\ LowVelocity
  \/ signal = "LOW_VEL_NEQ" /\ HighVelocity

\* _update_mode
UpdateMode(signal) ==
  \/ signal = "IDENTICAL" /\ Identical
  \/ signal = "HIGH_VEL_NEQ" /\ HighVelocity
  \/ signal = "LOW_VEL_NEQ" /\ LowVelocity

\* displacement_source of the row the sentence of the latest signal gives.
DisplacementSource ==
  IF mode = "MANUAL" THEN "INTEGRATOR"
  ELSE IF suspectStreak > 0 THEN "RECEIVER_SUSPECT" ELSE "RECEIVER"

ModeNext == \E signal \in Signals : UpdateMode(signal)
ModeSpec == ModeInit /\ [][ModeNext]_modeVars

-----------------------------------------------------------------------------

ModeTypeOK ==
  /\ mode \in Modes
  /\ badStreak \in Nat
  /\ goodStreak \in Nat
  /\ suspectStreak \in Nat
  /\ freeze \in BOOLEAN

\* The flags of _update_mode agree with each other after any signals: a core
\* that trusts its receiver never freezes the integrator, no threshold is ever
\* left reached without the transition it calls for, and at most one of the
\* three streaks runs.
ModeConsistent ==
  /\ mode = "RECEIVER" => /\ ~freeze
                          /\ badStreak < StreakThreshold
                          /\ suspectStreak < SuspectThreshold
                          /\ goodStreak = 0
  /\ goodStreak < GoodThreshold
  /\ badStreak = 0 \/ goodStreak = 0
  /\ badStreak = 0 \/ suspectStreak = 0
  /\ goodStreak = 0 \/ suspectStreak = 0
  /\ freeze => badStreak = 0 /\ goodStreak = 0

=============================================================================
