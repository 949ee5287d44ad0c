--------------------------- MODULE TimescaleAdapter ---------------------------
(***************************************************************************)
(* The TimescaleDB output adapter of the VADASE real-time monitor          *)
(* (services/vadase-rt-monitor/src/adapters/outputs/timescaledb.py).       *)
(*                                                                         *)
(* Every station's consumer writes rows into two in-memory buffers.  A     *)
(* write that fills a batch spawns a fire-and-forget flush task; a         *)
(* periodic task flushes both buffers one after the other; close() cancels *)
(* the periodic task, drains once more and closes the connection pool.     *)
(* All of them run on one event loop, so the code between two awaits is    *)
(* one atomic step: the critical sections of the two asyncio locks contain *)
(* no await and the locks are therefore never contended.                   *)
(*                                                                         *)
(* A row is the ordinal of the write that accepted it.  The database side  *)
(* of an INSERT (Commit) is a step of its own, so a failure or a           *)
(* cancellation may reach the adapter after the rows were stored.          *)
(***************************************************************************)
EXTENDS Naturals, Sequences, FiniteSets

CONSTANTS
  BatchSize,   \* rows that make a write spawn a flush task
  BufferMax,   \* buffer_max_size
  PoolSize,    \* max_size of the asyncpg pool
  Tasks,       \* bound: flush tasks spawned by writes that may exist at once
  MaxWrites,   \* bound: rows accepted per kind
  Faults,      \* database faults that may occur, a subset of FaultKinds
  MaxFaults    \* bound: number of database faults

Kinds == {"velocity", "displacement"}
FaultKinds == {"tooManyConnections", "otherError"}

\* The two coroutines that call _flush_all.
Periodic == "periodic"
Closer == "closer"
Flushers == Tasks \cup {Periodic, Closer}

ASSUME SizeAssumption ==
  /\ BatchSize \in Nat \ {0}
  /\ BufferMax \in Nat \ {0}
  /\ PoolSize \in Nat \ {0}
  /\ MaxFaults \in Nat
ASSUME FlusherAssumption == Tasks \cap {Periodic, Closer} = {}
ASSUME WriteAssumption == MaxWrites \in [Kinds -> Nat]
ASSUME FaultAssumption == Faults \subseteq FaultKinds

VARIABLES
  buffer,    \* _velocity_buffer and _displacement_buffer
  flushing,  \* _velocity_flushing and _displacement_flushing
  dropped,   \* _velocity_dropped and _displacement_dropped
  written,   \* rows accepted so far
  flush,     \* the activation of _flush_velocity / _flush_displacement of each flusher
  closer,    \* how far close() has come
  stored,    \* rows in the two hypertables
  faults     \* database faults of each kind so far

vars == <<buffer, flushing, dropped, written, flush, closer, stored, faults>>

Row == Nat \ {0}

\* "scheduled": the task exists and has not run; "acquiring": the batch is
\* popped and the flush awaits pool.acquire; "executing": it awaits
\* executemany; "committed": the INSERT took effect, the flush has not resumed.
Phases == {"idle", "scheduled", "acquiring", "executing", "committed"}
FlushState == [phase : Phases, kind : Kinds, batch : Seq(Row)]
CloserStates == {"open", "cancelling", "cancelled", "draining", "closed"}

IdleFlush == [phase |-> "idle", kind |-> "velocity", batch |-> <<>>]
Idle(f) == flush[f].phase = "idle"
InFlight(f, k) == /\ flush[f].kind = k
                  /\ flush[f].phase \in {"acquiring", "executing", "committed"}
HoldsConnection(f) == flush[f].phase \in {"executing", "committed"}

Init ==
  /\ buffer = [k \in Kinds |-> <<>>]
  /\ flushing = [k \in Kinds |-> FALSE]
  /\ dropped = [k \in Kinds |-> 0]
  /\ written = [k \in Kinds |-> 0]
  /\ flush = [f \in Flushers |-> IdleFlush]
  /\ closer = "open"
  /\ stored = [k \in Kinds |-> {}]
  /\ faults = [kind \in FaultKinds |-> 0]

-----------------------------------------------------------------------------
(* Pieces shared by the steps of a flush.                                  *)

\* The pool refuses a new acquire from the moment pool.close() is called.
PoolUsable == ~(closer = "draining" /\ Idle(Closer)) /\ closer # "closed"

\* _flush_velocity / _flush_displacement up to its first await.
Popped(k, rows) == [phase |-> "acquiring", kind |-> k, batch |-> rows]

\* _flush_all from the kinds still to visit: velocity before displacement,
\* an empty buffer skipped.
FlushAll(f, kinds, buf, flg) ==
  LET todo == {k \in kinds : buf[k] # <<>>}
      next == IF "velocity" \in todo THEN "velocity" ELSE "displacement"
  IN  \/ /\ todo = {}
         /\ buffer' = buf
         /\ flushing' = flg
         /\ flush' = [flush EXCEPT ![f] = IdleFlush]
      \/ /\ todo # {}
         /\ buffer' = [buf EXCEPT ![next] = <<>>]
         /\ flushing' = [flg EXCEPT ![next] = TRUE]
         /\ flush' = [flush EXCEPT ![f] = Popped(next, buf[next])]

\* What the caller of a flush still has to flush when it returns or raises.
KindsLeft(f) ==
  IF f \in {Periodic, Closer} /\ flush[f].kind = "velocity"
    THEN {"displacement"} ELSE {}

\* The flush of f ends with its buffer holding rows: the finally clause clears
\* the guard, and _flush_all (which swallows the exception) goes on at once.
EndFlush(f, rows) ==
  LET k == flush[f].kind
  IN  FlushAll(f, KindsLeft(f), [buffer EXCEPT ![k] = rows],
               [flushing EXCEPT ![k] = FALSE])

\* Mutation: the batch is not put back at all.
BatchForgotten(f) == buffer[flush[f].kind]

\* extendleft(reversed(batch)).
RestoredUncapped(f) == flush[f].batch \o buffer[flush[f].kind]

\* combined[: buffer_max_size]
Capped(rows) == SubSeq(rows, 1, IF Len(rows) <= BufferMax THEN Len(rows) ELSE BufferMax)

\* Mutations: no cap; the buffer is not cleared before the rows go back.
RestoredWithoutCap(f) == RestoredUncapped(f)
RestoredWithoutClear(f) == buffer[flush[f].kind] \o Capped(RestoredUncapped(f))

RestoredCapped(f) == Capped(RestoredUncapped(f))

-----------------------------------------------------------------------------
(* Operations of the adapter.                                              *)

Overflows(k) == Len(buffer[k]) >= BufferMax
MaybeDropOldest(k) == IF Overflows(k) THEN Tail(buffer[k]) ELSE buffer[k]
ShouldFlush(k, rows) == Len(rows) >= BatchSize /\ ~flushing[k]
Spawn(t, k) ==
  /\ Idle(t)
  /\ flush' = [flush EXCEPT ![t] = [phase |-> "scheduled", kind |-> k, batch |-> <<>>]]

\* The row a write builds from its arguments.
NewRow(k) == written[k] + 1

\* write_velocity / write_displacement.
Write(k) ==
  LET rows == Append(MaybeDropOldest(k), NewRow(k))
  IN  /\ closer # "closed"
      /\ written[k] < MaxWrites[k]
      /\ written' = [written EXCEPT ![k] = @ + 1]
      /\ dropped' = [dropped EXCEPT ![k] = IF Overflows(k) THEN @ + 1 ELSE @]
      /\ buffer' = [buffer EXCEPT ![k] = rows]
      /\ \/ ShouldFlush(k, rows) /\ \E t \in Tasks : Spawn(t, k)
         \/ ~ShouldFlush(k, rows) /\ UNCHANGED flush
      /\ UNCHANGED <<flushing, closer, stored, faults>>

\* First step of a spawned flush task.  An empty buffer ends it at once; so
\* does a pool that is gone, after the rows it popped are put back.
RunTask(t) ==
  LET k == flush[t].kind
  IN  /\ flush[t].phase = "scheduled"
      /\ \/ PoolUsable /\ FlushAll(t, {k}, buffer, [flushing EXCEPT ![k] = FALSE])
         \/ ~PoolUsable /\ EndFlush(t, Capped(buffer[k]))
      /\ UNCHANGED <<dropped, written, closer, stored, faults>>

\* Mutation: an idle periodic task looks at the velocity buffer only.
PeriodicVelocityOnly ==
  /\ closer = "open"
  /\ Idle(Periodic)
  /\ FlushAll(Periodic, {"velocity"}, buffer, flushing)
  /\ UNCHANGED <<dropped, written, closer, stored, faults>>

\* The periodic task wakes from its sleep and calls _flush_all.
PeriodicWake ==
  /\ closer = "open"
  /\ Idle(Periodic)
  /\ FlushAll(Periodic, Kinds, buffer, flushing)
  /\ UNCHANGED <<dropped, written, closer, stored, faults>>

\* The pending cancellation of the periodic task is delivered at its next
\* resumption and precedes everything else it could do.
Resumable(f) == f = Periodic => closer # "cancelling"

\* pool.acquire hands out a connection.
Acquire(f) ==
  /\ flush[f].phase = "acquiring"
  /\ Resumable(f)
  /\ closer # "closed"
  /\ Cardinality({g \in Flushers : HoldsConnection(g)}) < PoolSize
  /\ flush' = [flush EXCEPT ![f].phase = "executing"]
  /\ UNCHANGED <<buffer, flushing, dropped, written, closer, stored, faults>>

\* The database performs the INSERT ... ON CONFLICT DO NOTHING of a batch.
Commit(f) ==
  /\ flush[f].phase = "executing"
  /\ stored' = [stored EXCEPT ![flush[f].kind] =
                  @ \cup {flush[f].batch[i] : i \in 1..Len(flush[f].batch)}]
  /\ flush' = [flush EXCEPT ![f].phase = "committed"]
  /\ UNCHANGED <<buffer, flushing, dropped, written, closer, faults>>

\* executemany returns.
FlushSucceeds(f) ==
  /\ flush[f].phase = "committed"
  /\ Resumable(f)
  /\ EndFlush(f, buffer[flush[f].kind])
  /\ UNCHANGED <<dropped, written, closer, stored, faults>>

Fault(kind) ==
  /\ kind \in Faults
  /\ faults["tooManyConnections"] + faults["otherError"] < MaxFaults
  /\ faults' = [faults EXCEPT ![kind] = @ + 1]

\* acquire raises TooManyConnectionsError: the batch goes back uncapped.
FlushRefused(f) ==
  /\ flush[f].phase = "acquiring"
  /\ Resumable(f)
  /\ Fault("tooManyConnections")
  /\ EndFlush(f, RestoredUncapped(f))
  /\ UNCHANGED <<dropped, written, closer, stored>>

\* acquire times out, executemany raises, or the connection is lost with the
\* outcome unknown: the batch goes back and the tail beyond the cap is cut.
FlushFails(f) ==
  /\ flush[f].phase \in {"acquiring", "executing", "committed"}
  /\ Resumable(f)
  /\ Fault("otherError")
  /\ EndFlush(f, RestoredCapped(f))
  /\ UNCHANGED <<dropped, written, closer, stored>>

\* close() up to `await self._flush_task`.
CloseBegin ==
  /\ closer = "open"
  /\ closer' = "cancelling"
  /\ UNCHANGED <<buffer, flushing, dropped, written, flush, stored, faults>>

\* Mutation: the guard is cleared in the except clauses only.
PeriodicCancelledKeepsGuard ==
  /\ closer = "cancelling"
  /\ closer' = "cancelled"
  /\ flush' = [flush EXCEPT ![Periodic] = IdleFlush]
  /\ UNCHANGED <<buffer, flushing, dropped, written, stored, faults>>

\* CancelledError reaches the periodic task.  Neither except clause of the
\* flush catches it; only the finally clause runs.
PeriodicCancelled ==
  /\ closer = "cancelling"
  /\ closer' = "cancelled"
  /\ flush' = [flush EXCEPT ![Periodic] = IdleFlush]
  /\ flushing' = [k \in Kinds |-> flushing[k] /\ ~InFlight(Periodic, k)]
  /\ UNCHANGED <<buffer, dropped, written, stored, faults>>

\* Mutation: close() first waits until both buffers are empty.
CloseDrainWaitsForEmpty ==
  /\ closer = "cancelled"
  /\ \A k \in Kinds : buffer[k] = <<>>
  /\ closer' = "draining"
  /\ UNCHANGED <<buffer, flushing, flush, dropped, written, stored, faults>>

\* close() resumes and drains both buffers.
CloseDrain ==
  /\ closer = "cancelled"
  /\ closer' = "draining"
  /\ FlushAll(Closer, Kinds, buffer, flushing)
  /\ UNCHANGED <<dropped, written, stored, faults>>

\* pool.close() has waited for the connections that are out; _pool = None.
ClosePool ==
  /\ closer = "draining"
  /\ Idle(Closer)
  /\ \A f \in Flushers : ~HoldsConnection(f)
  /\ closer' = "closed"
  /\ UNCHANGED <<buffer, flushing, dropped, written, flush, stored, faults>>

\* An acquire that was still waiting when the pool went away raises.
AcquireAfterClose(f) ==
  /\ closer = "closed"
  /\ flush[f].phase = "acquiring"
  /\ EndFlush(f, RestoredCapped(f))
  /\ UNCHANGED <<dropped, written, closer, stored, faults>>

Next ==
  \/ \E k \in Kinds : Write(k)
  \/ \E t \in Tasks : RunTask(t)
  \/ PeriodicWake
  \/ \E f \in Flushers : \/ Acquire(f)
                         \/ Commit(f)
                         \/ FlushSucceeds(f)
                         \/ FlushRefused(f)
                         \/ FlushFails(f)
                         \/ AcquireAfterClose(f)
  \/ CloseBegin
  \/ PeriodicCancelled
  \/ CloseDrain
  \/ ClosePool

\* The event loop runs every ready coroutine, timers fire, and a database that
\* is not failing answers.  Writes, faults and close() are not fair.
Fairness ==
  /\ WF_vars(PeriodicWake)
  /\ \A t \in Tasks : WF_vars(RunTask(t))
  /\ \A f \in Flushers : /\ WF_vars(Acquire(f))
                         /\ WF_vars(Commit(f))
                         /\ WF_vars(FlushSucceeds(f))
                         /\ WF_vars(AcquireAfterClose(f))
  /\ WF_vars(PeriodicCancelled)
  /\ WF_vars(CloseDrain)
  /\ WF_vars(ClosePool)

Spec == Init /\ [][Next]_vars /\ Fairness

-----------------------------------------------------------------------------
(* Correctness.                                                            *)

RowsOf(rows) == {rows[i] : i \in 1..Len(rows)}
Distinct(rows) == \A i, j \in 1..Len(rows) : rows[i] = rows[j] => i = j

\* The rows of kind k the adapter still holds, and those it has lost.
Held(k) == RowsOf(buffer[k])
             \cup UNION {RowsOf(flush[f].batch) : f \in {g \in Flushers : InFlight(g, k)}}
Lost(k) == (1..written[k]) \ (Held(k) \cup stored[k])

\* Every variable has its type; buffers and batches hold rows, never a gap or an
\* empty slot (the deques of __init__ and the batches of the flushes).
TypeOK ==
  /\ buffer \in [Kinds -> Seq(Row)]
  /\ flushing \in [Kinds -> BOOLEAN]
  /\ dropped \in [Kinds -> Nat]
  /\ written \in [Kinds -> Nat]
  /\ flush \in [Flushers -> FlushState]
  /\ closer \in CloserStates
  /\ stored \in [Kinds -> SUBSET Row]
  /\ faults \in [FaultKinds -> Nat]

\* No row is at two places: it is once in its buffer or once in one batch, so
\* concurrent flushes of a buffer, their failures and the restoring of their
\* batches neither duplicate a row nor send it to the database twice at a time
\* (_flush_velocity, _flush_displacement).
NoRowTwice ==
  \A k \in Kinds :
    /\ Distinct(buffer[k])
    /\ \A f \in Flushers : InFlight(f, k) =>
         /\ Distinct(flush[f].batch)
         /\ RowsOf(flush[f].batch) \cap RowsOf(buffer[k]) = {}
         /\ \A g \in Flushers \ {f} : InFlight(g, k) =>
              RowsOf(flush[f].batch) \cap RowsOf(flush[g].batch) = {}

\* A guard left set would switch batch-triggered flushing off for good: it is
\* set only while some flush of that buffer is under way (the finally clause of
\* _flush_velocity on every path, the empty batch and the cancellation included).
GuardNeverStuck ==
  \A k \in Kinds : flushing[k] => \E f \in Flushers : InFlight(f, k)

\* DL-016, as far as it holds: until the database refuses a connection, no
\* buffer outgrows buffer_max_size, whatever flushes fail and restore.
BufferBounded ==
  faults["tooManyConnections"] = 0 => \A k \in Kinds : Len(buffer[k]) <= BufferMax

\* While the only failures are refused connections and the adapter has not
\* cancelled its periodic task, every row that is neither stored nor held is in
\* the drop counter (_maybe_drop_oldest).
LossIsCounted ==
  (faults["otherError"] = 0 /\ closer \in {"open", "cancelling"}) =>
     \A k \in Kinds : Cardinality(Lost(k)) <= dropped[k]

\* The adapter keeps the promise of a write-behind sink: rows leave memory
\* unstored only above buffer_max_size or during close().
Ledger == INSTANCE RowLedger WITH
  Capacity <- BufferMax,
  accepted <- written,
  held <- [k \in Kinds |-> Held(k)],
  closing <- closer # "open"
ImplementsLedger == Ledger!Spec

\* A row written while the adapter is open does not stay in memory for ever:
\* retries by the periodic task and by later batches end in the database or in
\* an overflow, once the database stops failing.
RowsSettle ==
  \A k \in Kinds : \A r \in 1..MaxWrites[k] :
    (r \in Held(k)) ~> (r \notin Held(k) \/ closer # "open")

\* close() ends, whatever flush was under way when it began.
CloseEnds == (closer = "cancelling") ~> (closer = "closed")

\* What the source says of the adapter and the code does not do.

\* DL-009: a flush that does not complete never drops its batch silently.
NeverSilentDrop == \A k \in Kinds : Cardinality(Lost(k)) <= dropped[k]

\* DL-014: the guards prevent concurrent flushes of one buffer.
OneFlushPerBuffer ==
  \A k \in Kinds : \A f, g \in Flushers : InFlight(f, k) /\ InFlight(g, k) => f = g

\* DL-016: an overflow drops the oldest rows: what a step loses is older than
\* everything it leaves in the buffer.
OverflowDropsOldest ==
  [][closer = "open" => \A k \in Kinds : \A r \in Lost(k)' \ Lost(k) :
        \A s \in RowsOf(buffer'[k]) : r < s]_vars

\* DL-016: the buffers are bounded by buffer_max_size.
BufferWithinMax == \A k \in Kinds : Len(buffer[k]) <= BufferMax

=============================================================================
