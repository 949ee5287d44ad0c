----------------------------- MODULE IngestionCore -----------------------------
(***************************************************************************)
(* One station's ingestion core                                            *)
(* (services/vadase-rt-monitor/src/domain/processor.py): the handlers of   *)
(* velocity and displacement sentences, the event detector with its        *)
(* database write, and the velocity integrator.                            *)
(*                                                                         *)
(* A timestamp is a number of seconds, a velocity is its horizontal        *)
(* magnitude.  The integrated displacement is represented by how often     *)
(* each second of motion has been added to it.  The caster sends samples   *)
(* in order, may skip some, and after a reconnect may replay a window it   *)
(* sent before.                                                            *)
(***************************************************************************)
EXTENDS SignalMode, Integers, Sequences, FiniteSets

CONSTANTS
  Threshold,     \* threshold_mm_s
  MaxGap,        \* longest gap between samples that is integrated, 5 s exclusive
  Speeds,        \* velocities a sentence may carry
  Sizes,         \* displacement magnitudes a row may have
  EventFaults,   \* how an event INSERT may fail, a subset of FaultOutcomes
  MaxTime,       \* bound: timestamps are 1..MaxTime
  MaxReplays,    \* bound: replayed windows
  MaxEventFaults,\* bound: failed event INSERTs
  MaxRows        \* bound: displacement sentences

FaultOutcomes == {"notStored", "stored"}

ASSUME CoreAssumption ==
  /\ Threshold \in Nat
  /\ MaxGap \in Nat \ {0}
  /\ Speeds \subseteq Nat
  /\ Sizes \subseteq Nat
  /\ EventFaults \subseteq FaultOutcomes
  /\ MaxTime \in Nat /\ MaxReplays \in Nat /\ MaxEventFaults \in Nat /\ MaxRows \in Nat

Time == 1..MaxTime
None == 0             \* no timestamp yet

VARIABLES
  eventActive, eventStart, peakVelocity, peakDisplacement,
  lastTime,    \* last_velocity_time
  lastSpeed,   \* last_velocity_data, or {} before the first velocity
  integral,    \* how often each second of motion is in disp_east/north/up
  events,      \* rows of vadase_events, in insertion order
  clock,       \* timestamp of the latest sample the caster sent
  eventFaults, \* event INSERTs that raised, by whether the row was stored
  replays,     \* replayed windows
  rows,        \* displacement sentences
  strong       \* history: timestamps of the samples above the threshold

eventVars == <<eventActive, eventStart, peakVelocity, peakDisplacement, events, eventFaults>>
boundVars == <<replays, rows>>
vars == <<modeVars, eventVars, lastTime, lastSpeed, integral, clock, boundVars, strong>>

Init ==
  /\ ModeInit
  /\ eventActive = FALSE
  /\ eventStart = None
  /\ peakVelocity = 0
  /\ peakDisplacement = 0
  /\ lastTime = None
  /\ lastSpeed = {}
  /\ integral = [s \in Time |-> 0]
  /\ events = <<>>
  /\ clock = 0
  /\ replays = 0
  /\ eventFaults = [outcome \in FaultOutcomes |-> 0]
  /\ rows = 0
  /\ strong = {}

-----------------------------------------------------------------------------

\* Mutation: the time moves on only when the gap was not integrated.
IntegrateKeepsTime(t) ==
  LET dt == t - lastTime
      counted == lastTime # None /\ 0 < dt /\ dt < MaxGap /\ ~freeze
  IN  /\ integral' = [s \in Time |-> IF counted /\ lastTime < s /\ s <= t
                                       THEN integral[s] + 1 ELSE integral[s]]
      /\ lastTime' = IF counted THEN lastTime ELSE t

\* Part of handle_velocity after the event check: a gap shorter than MaxGap is
\* added to the integral unless it is frozen; the time always moves on.
Integrate(t) ==
  LET dt == t - lastTime
      counted == lastTime # None /\ 0 < dt /\ dt < MaxGap /\ ~freeze
  IN  /\ integral' = [s \in Time |-> IF counted /\ lastTime < s /\ s <= t
                                       THEN integral[s] + 1 ELSE integral[s]]
      /\ lastTime' = t

EventRow(t) == [start |-> eventStart, peak |-> peakVelocity,
                displacement |-> peakDisplacement, duration |-> t - eventStart]

\* check_event_threshold above the threshold: an event begins or grows.
EventBegins(t, v) ==
  /\ v > Threshold /\ ~eventActive
  /\ eventActive' = TRUE
  /\ eventStart' = t
  /\ peakVelocity' = v
  /\ peakDisplacement' = 0
  /\ UNCHANGED <<events, eventFaults>>

EventGrows(v) ==
  /\ v > Threshold /\ eventActive
  /\ peakVelocity' = IF v > peakVelocity THEN v ELSE peakVelocity
  /\ UNCHANGED <<eventActive, eventStart, peakDisplacement, events, eventFaults>>

NoEvent(v) ==
  /\ v <= Threshold /\ ~eventActive
  /\ UNCHANGED eventVars

\* Mutation: eventActive is not cleared after the INSERT.
EventEndsStaysActive(t, v) ==
  /\ v <= Threshold /\ eventActive
  /\ events' = Append(events, EventRow(t))
  /\ UNCHANGED <<eventActive, eventStart, peakVelocity, peakDisplacement, eventFaults>>

\* The event is over and its INSERT succeeds.
EventEnds(t, v) ==
  /\ v <= Threshold /\ eventActive
  /\ eventActive' = FALSE
  /\ events' = Append(events, EventRow(t))
  /\ UNCHANGED <<eventStart, peakVelocity, peakDisplacement, eventFaults>>

\* write_event_detection raises, with the row stored or not.
WriteRaises(outcome) ==
  /\ outcome \in EventFaults
  /\ eventFaults["notStored"] + eventFaults["stored"] < MaxEventFaults
  /\ eventFaults' = [eventFaults EXCEPT ![outcome] = @ + 1]

\* Mutation: eventActive is cleared before the INSERT.
EventClearedBeforeWrite(t, v) ==
  /\ v <= Threshold /\ eventActive
  /\ WriteRaises("notStored")
  /\ eventActive' = FALSE
  /\ UNCHANGED <<events, eventStart, peakVelocity, peakDisplacement>>

\* The exception leaves handle_velocity before eventActive is cleared.
EventWriteRaises(t, v) ==
  /\ v <= Threshold /\ eventActive
  /\ \/ WriteRaises("notStored") /\ UNCHANGED events
     \/ WriteRaises("stored") /\ events' = Append(events, EventRow(t))
  /\ UNCHANGED <<eventActive, eventStart, peakVelocity, peakDisplacement>>

\* handle_velocity
HandleVelocity(t, v) ==
  /\ lastSpeed' = {v}
  /\ strong' = IF v > Threshold THEN strong \cup {t} ELSE strong
  /\ \/ /\ EventBegins(t, v) \/ EventGrows(v) \/ NoEvent(v) \/ EventEnds(t, v)
        /\ Integrate(t)
     \/ EventWriteRaises(t, v) /\ UNCHANGED <<integral, lastTime>>
  /\ UNCHANGED modeVars

\* _classify_signal; same: do the horizontal components equal the velocity's?
Classify(same, v) ==
  IF same THEN "IDENTICAL"
  ELSE IF v >= Threshold THEN "HIGH_VEL_NEQ" ELSE "LOW_VEL_NEQ"

\* handle_displacement of a sentence that passes the completeness gate; d is
\* the magnitude of the row it writes, from the receiver or the integrator.
HandleDisplacement(same, d) ==
  /\ \/ lastSpeed = {} /\ UNCHANGED modeVars
     \/ \E v \in lastSpeed : UpdateMode(Classify(same, v))
  /\ peakDisplacement' = IF eventActive /\ d > peakDisplacement THEN d ELSE peakDisplacement
  /\ UNCHANGED <<eventActive, eventStart, peakVelocity, events, eventFaults,
                 lastTime, lastSpeed, integral, strong>>

-----------------------------------------------------------------------------

\* The caster's next sample, possibly after samples that were lost.
NextVelocity ==
  \E t \in Time, v \in Speeds :
    /\ t > clock
    /\ clock' = t
    /\ HandleVelocity(t, v)
    /\ UNCHANGED boundVars

\* A reconnect makes the caster send an overlapping window again.
Reconnect ==
  /\ replays < MaxReplays
  /\ \E t \in 0..(clock - 1) : clock' = t
  /\ replays' = replays + 1
  /\ UNCHANGED <<modeVars, eventVars, lastTime, lastSpeed, integral, rows, strong>>

NextDisplacement ==
  /\ rows < MaxRows
  /\ \E same \in BOOLEAN, d \in Sizes : HandleDisplacement(same, d)
  /\ rows' = rows + 1
  /\ UNCHANGED <<clock, replays>>

Next == NextVelocity \/ Reconnect \/ NextDisplacement
Spec == Init /\ [][Next]_vars

-----------------------------------------------------------------------------

Event == [start : Time, peak : Speeds, displacement : Sizes \cup {0}, duration : Int]

TypeOK ==
  /\ ModeTypeOK
  /\ eventActive \in BOOLEAN
  /\ eventStart \in Time \cup {None}
  /\ peakVelocity \in Speeds \cup {0}
  /\ peakDisplacement \in Sizes \cup {0}
  /\ lastTime \in Time \cup {None}
  /\ lastSpeed \subseteq Speeds /\ Cardinality(lastSpeed) <= 1
  /\ integral \in [Time -> Nat]
  /\ events \in Seq(Event)
  /\ clock \in Time \cup {0}
  /\ eventFaults \in [FaultOutcomes -> Nat]
  /\ replays \in Nat /\ rows \in Nat
  /\ strong \subseteq Time

\* The open event describes what was received since it began: its start is a
\* sample above the threshold, and its peak is above the threshold
\* (check_event_threshold, whatever INSERTs failed in between).
OpenEventIsReal ==
  eventActive => eventStart \in strong /\ peakVelocity > Threshold

\* No strong motion goes unreported: every sample above the threshold lies in a
\* stored event or in the one still open, failed INSERTs and retries included.
\* Holds until the caster replays.
StrongMotionReported ==
  replays = 0 =>
    \A t \in strong :
      \/ eventActive /\ eventStart <= t
      \/ \E i \in 1..Len(events) : /\ events[i].start <= t
                                   /\ t < events[i].start + events[i].duration

\* Stored events follow one another without overlap and the open one begins
\* after them, until the caster replays or an INSERT that raises is stored all
\* the same.
EventsDisjoint ==
  (replays = 0 /\ eventFaults["stored"] = 0) =>
    /\ \A i, j \in 1..Len(events) :
         i < j => events[i].start + events[i].duration < events[j].start
    /\ eventActive => \A i \in 1..Len(events) :
         events[i].start + events[i].duration < eventStart

\* No second of motion enters the integrated displacement twice, whatever INSERTs
\* fail, until the caster replays (the time guard of handle_velocity compares
\* with the sample before, so a replayed window is integrated again).
IntegratedAtMostOnce == replays = 0 => \A s \in Time : integral[s] <= 1

\* Once an event INSERT raised, the event stays open until a row of it is
\* stored: an open event never disappears without a row.
OpenEventEndsInRow ==
  [][(eventActive /\ ~eventActive') =>
       \E i \in 1..Len(events') : events'[i].start = eventStart]_vars

\* What the source says of the core and the code does not do.

\* DL-006: a replayed window leaves no duplicate: one row per event.
OneRowPerEvent ==
  \A i, j \in 1..Len(events) : events[i].start = events[j].start => i = j

\* "last_velocity_time still updates unconditionally": after every velocity
\* sentence it is that sentence's timestamp.
LastTimeFollowsSamples == [][clock' > clock => lastTime' = clock']_vars

\* Events, stored and open, describe what was received and never overlap.
EventInvariant == TypeOK /\ EventsDisjoint /\ OpenEventIsReal
=============================================================================
