---------------------------- MODULE TimescaleProofs ----------------------------
(***************************************************************************)
(* Proofs about the output adapter, for any number of flush tasks, any     *)
(* batch, buffer and pool sizes and any number of rows and faults.         *)
(*                                                                         *)
(* First its types, guards and bounds.  Then what becomes of a row it has  *)
(* accepted: the adapter implements the ledger of a write-behind sink, and *)
(* while connections are only refused every lost row is counted.  Both     *)
(* rest on one account of the rows in memory: for each action, what it     *)
(* does to Held(k).                                                        *)
(***************************************************************************)
EXTENDS TimescaleAdapter, FiniteSetTheorems, TLAPS

-----------------------------------------------------------------------------
(* Sequences of rows.                                                      *)

\* Cutting a buffer to its maximum leaves its beginning.
LEMMA CappedIsPrefix ==
  ASSUME NEW s \in Seq(Row)
  PROVE  /\ Capped(s) \in Seq(Row)
         /\ Len(Capped(s)) <= BufferMax
         /\ Len(Capped(s)) <= Len(s)
         /\ \A i \in 1..Len(Capped(s)) : Capped(s)[i] = s[i]
  BY SizeAssumption DEF Capped

\* What is left of a buffer that drops its oldest row.
LEMMA TailOfBuffer ==
  ASSUME NEW s \in Seq(Row), s # <<>>
  PROVE  /\ Tail(s) \in Seq(Row)
         /\ Len(Tail(s)) = Len(s) - 1
         /\ \A i \in 1..Len(Tail(s)) : Tail(s)[i] = s[i + 1]
  OBVIOUS

\* A batch put back before a buffer.
LEMMA ConcatOfRows ==
  ASSUME NEW s \in Seq(Row), NEW t \in Seq(Row)
  PROVE  /\ s \o t \in Seq(Row)
         /\ Len(s \o t) = Len(s) + Len(t)
         /\ \A i \in 1..Len(s) : (s \o t)[i] = s[i]
         /\ \A i \in 1..Len(t) : (s \o t)[Len(s) + i] = t[i]
  OBVIOUS

\* A row appended to a buffer.
LEMMA AppendOfRow ==
  ASSUME NEW s \in Seq(Row), NEW r \in Row
  PROVE  /\ Append(s, r) \in Seq(Row)
         /\ Len(Append(s, r)) = Len(s) + 1
         /\ \A i \in 1..Len(s) : Append(s, r)[i] = s[i]
         /\ Append(s, r)[Len(s) + 1] = r
  OBVIOUS

-----------------------------------------------------------------------------
(* Types.                                                                  *)

BufferTypes ==
  /\ buffer \in [Kinds -> Seq(Row)]
  /\ flushing \in [Kinds -> BOOLEAN]
  /\ flush \in [Flushers -> FlushState]

\* An idle flusher is a flusher's state.
LEMMA IdleFlushType == IdleFlush \in FlushState
  BY DEF IdleFlush, FlushState, Phases, Kinds

\* Going on to the next buffer of a flush keeps the types.
LEMMA FlushAllTypes ==
  ASSUME NEW f \in Flushers, NEW kinds \in SUBSET Kinds,
         NEW buf \in [Kinds -> Seq(Row)], NEW flg \in [Kinds -> BOOLEAN],
         flush \in [Flushers -> FlushState],
         FlushAll(f, kinds, buf, flg)
  PROVE  BufferTypes'
<1> DEFINE todo == {k \in kinds : buf[k] # <<>>}
           next == IF "velocity" \in todo THEN "velocity" ELSE "displacement"
<1>1. next \in Kinds
  BY DEF Kinds
<1>2. Popped(next, buf[next]) \in FlushState
  BY <1>1 DEF Popped, FlushState, Phases
<1>3. CASE todo = {}
  <2>1. buffer' = buf /\ flushing' = flg /\ flush' = [flush EXCEPT ![f] = IdleFlush]
    BY <1>3 DEF FlushAll
  <2> QED
    BY <2>1, IdleFlushType DEF BufferTypes
<1>4. CASE todo # {}
  <2>1. /\ buffer' = [buf EXCEPT ![next] = <<>>]
        /\ flushing' = [flg EXCEPT ![next] = TRUE]
        /\ flush' = [flush EXCEPT ![f] = Popped(next, buf[next])]
    BY <1>4 DEF FlushAll
  <2>2. <<>> \in Seq(Row)
    OBVIOUS
  <2> HIDE DEF next
  <2> QED
    BY <1>1, <1>2, <2>1, <2>2 DEF BufferTypes
<1> QED
  BY <1>3, <1>4

\* The end of a flush keeps the types.
LEMMA EndFlushTypes ==
  ASSUME NEW f \in Flushers, NEW rows \in Seq(Row), BufferTypes, EndFlush(f, rows)
  PROVE  BufferTypes'
<1> DEFINE k == flush[f].kind
           buf == [buffer EXCEPT ![k] = rows]
           flg == [flushing EXCEPT ![k] = FALSE]
<1>1. k \in Kinds
  BY DEF BufferTypes, FlushState
<1>2. buf \in [Kinds -> Seq(Row)] /\ flg \in [Kinds -> BOOLEAN]
  BY <1>1 DEF BufferTypes
<1>3. KindsLeft(f) \in SUBSET Kinds
  BY DEF KindsLeft, Kinds
<1>4. FlushAll(f, KindsLeft(f), buf, flg)
  BY DEF EndFlush
<1> HIDE DEF buf, flg
<1> QED
  BY <1>2, <1>3, <1>4, FlushAllTypes DEF BufferTypes

\* What a failed flush puts back is a buffer of rows.
LEMMA RestoredTypes ==
  ASSUME NEW f \in Flushers, BufferTypes
  PROVE  /\ buffer[flush[f].kind] \in Seq(Row)
         /\ flush[f].batch \in Seq(Row)
         /\ RestoredUncapped(f) \in Seq(Row)
         /\ RestoredCapped(f) \in Seq(Row)
         /\ Capped(buffer[flush[f].kind]) \in Seq(Row)
<1>1. flush[f].kind \in Kinds /\ flush[f].batch \in Seq(Row)
  BY DEF BufferTypes, FlushState
<1>2. buffer[flush[f].kind] \in Seq(Row)
  BY <1>1 DEF BufferTypes
<1>3. RestoredUncapped(f) \in Seq(Row)
  BY <1>1, <1>2, ConcatOfRows DEF RestoredUncapped
<1> QED
  BY <1>1, <1>2, <1>3, CappedIsPrefix DEF RestoredCapped

\* A write that drops the oldest row leaves a buffer of rows.
LEMMA MaybeDropOldestType ==
  ASSUME NEW k \in Kinds, buffer[k] \in Seq(Row)
  PROVE  MaybeDropOldest(k) \in Seq(Row)
<1>1. Overflows(k) => buffer[k] # <<>>
  BY SizeAssumption DEF Overflows
<1> QED
  BY <1>1, TailOfBuffer DEF MaybeDropOldest

\* A fault is counted under its kind.
LEMMA FaultCounts ==
  ASSUME NEW kind, Fault(kind), faults \in [FaultKinds -> Nat]
  PROVE  /\ kind \in FaultKinds
         /\ faults' \in [FaultKinds -> Nat]
         /\ faults' = [faults EXCEPT ![kind] = @ + 1]
  BY FaultAssumption DEF Fault

\* No step breaks the types.
LEMMA TypeStep == TypeOK /\ [Next]_vars => TypeOK'
<1> SUFFICES ASSUME TypeOK, [Next]_vars
             PROVE  TypeOK'
  OBVIOUS
<1> DEFINE OtherTypes ==
      /\ dropped \in [Kinds -> Nat]
      /\ written \in [Kinds -> Nat]
      /\ closer \in CloserStates
      /\ stored \in [Kinds -> SUBSET Row]
      /\ faults \in [FaultKinds -> Nat]
<1>0. BufferTypes /\ OtherTypes
  BY DEF TypeOK, BufferTypes
<1>a. BufferTypes' /\ OtherTypes' => TypeOK'
  BY DEF TypeOK, BufferTypes
<1>1. ASSUME NEW k \in Kinds, Write(k)
      PROVE  TypeOK'
  <2> DEFINE rows == Append(MaybeDropOldest(k), NewRow(k))
  <2>1. written[k] + 1 \in Row /\ buffer[k] \in Seq(Row)
    BY <1>0 DEF BufferTypes, Row
  <2>2. rows \in Seq(Row)
    BY <2>1, MaybeDropOldestType, AppendOfRow DEF NewRow
  <2>3. buffer' = [buffer EXCEPT ![k] = rows]
    BY <1>1 DEF Write
  <2>4. buffer' \in [Kinds -> Seq(Row)]
    <3> HIDE DEF rows
    <3> QED
      BY <1>0, <2>2, <2>3 DEF BufferTypes
  <2>5. ASSUME NEW t \in Tasks, Spawn(t, k)
        PROVE  flush' \in [Flushers -> FlushState]
    <3>1. [phase |-> "scheduled", kind |-> k, batch |-> <<>>] \in FlushState
      BY DEF FlushState, Phases
    <3> QED
      BY <1>0, <2>5, <3>1 DEF Spawn, BufferTypes, Flushers
  <2>6. flush' \in [Flushers -> FlushState]
    BY <1>0, <1>1, <2>5 DEF Write, BufferTypes
  <2>7. flushing' \in [Kinds -> BOOLEAN]
    BY <1>0, <1>1 DEF Write, BufferTypes
  <2>8. OtherTypes'
    BY <1>0, <1>1 DEF Write
  <2> QED
    BY <1>a, <2>4, <2>6, <2>7, <2>8 DEF BufferTypes
<1>2. ASSUME NEW t \in Tasks, RunTask(t)
      PROVE  TypeOK'
  <2>1. t \in Flushers /\ flush[t].kind \in Kinds
    BY <1>0 DEF Flushers, BufferTypes, FlushState
  <2>2. CASE FlushAll(t, {flush[t].kind}, buffer, [flushing EXCEPT ![flush[t].kind] = FALSE])
    <3>1. [flushing EXCEPT ![flush[t].kind] = FALSE] \in [Kinds -> BOOLEAN]
      BY <1>0 DEF BufferTypes
    <3> QED
      BY <1>0, <1>2, <1>a, <2>1, <2>2, <3>1, FlushAllTypes DEF RunTask, BufferTypes
  <2>3. CASE EndFlush(t, Capped(buffer[flush[t].kind]))
    BY <1>0, <1>2, <1>a, <2>1, <2>3, EndFlushTypes, RestoredTypes DEF RunTask
  <2> QED
    BY <1>2, <2>2, <2>3 DEF RunTask
<1>3. CASE PeriodicWake
  BY <1>0, <1>3, <1>a, FlushAllTypes DEF PeriodicWake, BufferTypes, Flushers
<1>4. ASSUME NEW f \in Flushers, Acquire(f)
      PROVE  TypeOK'
  <2>1. flush' \in [Flushers -> FlushState]
    BY <1>0, <1>4 DEF Acquire, BufferTypes, FlushState, Phases
  <2> QED
    BY <1>0, <1>4, <1>a, <2>1 DEF Acquire, BufferTypes
<1>5. ASSUME NEW f \in Flushers, Commit(f)
      PROVE  TypeOK'
  <2>1. flush' \in [Flushers -> FlushState]
    BY <1>0, <1>5 DEF Commit, BufferTypes, FlushState, Phases
  <2>2. {flush[f].batch[i] : i \in 1..Len(flush[f].batch)} \subseteq Row
    BY <1>0, RestoredTypes
  <2>3. stored' \in [Kinds -> SUBSET Row]
    BY <1>0, <1>5, <2>2 DEF Commit
  <2> QED
    BY <1>0, <1>5, <1>a, <2>1, <2>3 DEF Commit, BufferTypes
<1>6. ASSUME NEW f \in Flushers, FlushSucceeds(f)
      PROVE  TypeOK'
  BY <1>0, <1>6, <1>a, EndFlushTypes, RestoredTypes DEF FlushSucceeds
<1>7. ASSUME NEW f \in Flushers, FlushRefused(f)
      PROVE  TypeOK'
  BY <1>0, <1>7, <1>a, EndFlushTypes, RestoredTypes, FaultCounts DEF FlushRefused
<1>8. ASSUME NEW f \in Flushers, FlushFails(f)
      PROVE  TypeOK'
  BY <1>0, <1>8, <1>a, EndFlushTypes, RestoredTypes, FaultCounts DEF FlushFails
<1>9. ASSUME NEW f \in Flushers, AcquireAfterClose(f)
      PROVE  TypeOK'
  BY <1>0, <1>9, <1>a, EndFlushTypes, RestoredTypes DEF AcquireAfterClose
<1>10. CASE CloseBegin
  BY <1>0, <1>10, <1>a DEF CloseBegin, BufferTypes, CloserStates
<1>11. CASE PeriodicCancelled
  <2>1. flush' \in [Flushers -> FlushState]
    BY <1>0, <1>11, IdleFlushType DEF PeriodicCancelled, BufferTypes
  <2>2. flushing' \in [Kinds -> BOOLEAN]
    BY <1>11 DEF PeriodicCancelled
  <2> QED
    BY <1>0, <1>11, <1>a, <2>1, <2>2 DEF PeriodicCancelled, BufferTypes, CloserStates
<1>12. CASE CloseDrain
  <2>1. BufferTypes'
    BY <1>0, <1>12, FlushAllTypes DEF CloseDrain, BufferTypes, Flushers
  <2> QED
    BY <1>0, <1>12, <1>a, <2>1 DEF CloseDrain, CloserStates
<1>13. CASE ClosePool
  BY <1>0, <1>13, <1>a DEF ClosePool, BufferTypes, CloserStates
<1>14. CASE UNCHANGED vars
  BY <1>0, <1>14, <1>a DEF vars, BufferTypes
<1> QED
  BY <1>1, <1>2, <1>3, <1>4, <1>5, <1>6, <1>7, <1>8, <1>9, <1>10, <1>11,
     <1>12, <1>13, <1>14 DEF Next

\* Every variable keeps its type in every behaviour of the adapter.
THEOREM TypeInvariant == Spec => []TypeOK
<1>1. Init => TypeOK
  <2>1. ASSUME Init PROVE buffer \in [Kinds -> Seq(Row)]
    BY <2>1 DEF Init
  <2> QED
    BY <2>1, IdleFlushType DEF Init, TypeOK, CloserStates
<1> QED
  BY <1>1, TypeStep, PTL DEF Spec

-----------------------------------------------------------------------------
(* The two shapes of a FlushAll step.                                      *)

Stops(f, buf, flg) ==
  /\ buffer' = buf
  /\ flushing' = flg
  /\ flush' = [flush EXCEPT ![f] = IdleFlush]

Starts(f, k, buf, flg) ==
  /\ buffer' = [buf EXCEPT ![k] = <<>>]
  /\ flushing' = [flg EXCEPT ![k] = TRUE]
  /\ flush' = [flush EXCEPT ![f] = Popped(k, buf[k])]

\* A flush of several buffers stops, or starts with one of them.
LEMMA FlushAllShape ==
  ASSUME NEW f \in Flushers, NEW kinds \in SUBSET Kinds,
         NEW buf \in [Kinds -> Seq(Row)], NEW flg \in [Kinds -> BOOLEAN],
         flush \in [Flushers -> FlushState],
         FlushAll(f, kinds, buf, flg)
  PROVE  Stops(f, buf, flg) \/ \E k \in kinds : Starts(f, k, buf, flg)
<1> DEFINE todo == {k \in kinds : buf[k] # <<>>}
           next == IF "velocity" \in todo THEN "velocity" ELSE "displacement"
<1>1. CASE todo = {}
  BY <1>1 DEF FlushAll, Stops
<1>2. CASE todo # {}
  <2>1. next \in kinds
    BY <1>2 DEF Kinds
  <2>2. /\ buffer' = [buf EXCEPT ![next] = <<>>]
        /\ flushing' = [flg EXCEPT ![next] = TRUE]
        /\ flush' = [flush EXCEPT ![f] = Popped(next, buf[next])]
    BY <1>2 DEF FlushAll
  <2> HIDE DEF next
  <2>3. Starts(f, next, buf, flg)
    BY <2>2 DEF Starts
  <2> QED
    BY <2>1, <2>3
<1> QED
  BY <1>1, <1>2

\* A flush leaves the other flushers alone.
LEMMA FlushAllOthers ==
  ASSUME NEW f \in Flushers, NEW kinds \in SUBSET Kinds,
         NEW buf \in [Kinds -> Seq(Row)], NEW flg \in [Kinds -> BOOLEAN],
         flush \in [Flushers -> FlushState],
         FlushAll(f, kinds, buf, flg),
         NEW g \in Flushers \ {f}
  PROVE  flush'[g] = flush[g]
<1>1. CASE Stops(f, buf, flg)
  BY <1>1 DEF Stops
<1>2. ASSUME NEW k \in kinds, Starts(f, k, buf, flg)
      PROVE  flush'[g] = flush[g]
  BY <1>2 DEF Starts
<1> QED
  BY <1>1, <1>2, FlushAllShape

\* EndFlush as a FlushAll step from the buffers with the batch put back.
LEMMA EndFlushShape ==
  ASSUME NEW f \in Flushers, NEW rows \in Seq(Row), BufferTypes, EndFlush(f, rows)
  PROVE  \E buf \in [Kinds -> Seq(Row)], flg \in [Kinds -> BOOLEAN],
            kinds \in SUBSET Kinds :
           /\ buf = [buffer EXCEPT ![flush[f].kind] = rows]
           /\ flg = [flushing EXCEPT ![flush[f].kind] = FALSE]
           /\ FlushAll(f, kinds, buf, flg)
<1>1. flush[f].kind \in Kinds
  BY DEF BufferTypes, FlushState
<1>2. [buffer EXCEPT ![flush[f].kind] = rows] \in [Kinds -> Seq(Row)]
  BY <1>1 DEF BufferTypes
<1>3. [flushing EXCEPT ![flush[f].kind] = FALSE] \in [Kinds -> BOOLEAN]
  BY DEF BufferTypes
<1>4. KindsLeft(f) \in SUBSET Kinds
  BY DEF KindsLeft, Kinds
<1> QED
  BY <1>2, <1>3, <1>4 DEF EndFlush

-----------------------------------------------------------------------------
(* The buffers stay within their maximum while nothing is refused.         *)

Bounded(buf) == \A k \in Kinds : Len(buf[k]) <= BufferMax

\* Going on to the next buffer lengthens none.
LEMMA FlushAllBounded ==
  ASSUME NEW f \in Flushers, NEW kinds \in SUBSET Kinds,
         NEW buf \in [Kinds -> Seq(Row)], NEW flg \in [Kinds -> BOOLEAN],
         flush \in [Flushers -> FlushState],
         FlushAll(f, kinds, buf, flg), Bounded(buf)
  PROVE  Bounded(buffer)'
<1>1. CASE Stops(f, buf, flg)
  BY <1>1 DEF Stops, Bounded
<1>2. ASSUME NEW k \in kinds, Starts(f, k, buf, flg)
      PROVE  Bounded(buffer)'
  <2>1. Len(<<>>) <= BufferMax
    BY SizeAssumption
  <2> QED
    BY <1>2, <2>1 DEF Starts, Bounded
<1> QED
  BY <1>1, <1>2, FlushAllShape

\* The end of a flush that puts back no more than a full buffer exceeds no maximum.
LEMMA EndFlushBounded ==
  ASSUME NEW f \in Flushers, NEW rows \in Seq(Row), BufferTypes, EndFlush(f, rows),
         Bounded(buffer), Len(rows) <= BufferMax
  PROVE  Bounded(buffer)'
<1>1. PICK buf \in [Kinds -> Seq(Row)], flg \in [Kinds -> BOOLEAN],
           kinds \in SUBSET Kinds :
           /\ buf = [buffer EXCEPT ![flush[f].kind] = rows]
           /\ FlushAll(f, kinds, buf, flg)
  BY EndFlushShape
<1>2. Bounded(buf)
  BY <1>1 DEF Bounded, BufferTypes
<1> QED
  BY <1>1, <1>2, FlushAllBounded DEF BufferTypes

\* A fault of a kind stays counted, and a refused connection counts.
LEMMA FaultsGrow ==
  ASSUME TypeOK, [Next]_vars, NEW kind \in FaultKinds
  PROVE  faults'[kind] >= faults[kind]
<1>1. faults \in [FaultKinds -> Nat]
  BY DEF TypeOK
<1>2. ASSUME NEW other, Fault(other)
      PROVE  faults'[kind] >= faults[kind]
  BY <1>1, <1>2, FaultCounts
<1>3. CASE UNCHANGED faults
  BY <1>1, <1>3
<1>4. UNCHANGED faults \/ \E other : Fault(other)
  BY DEF Next, vars, Write, RunTask, PeriodicWake, Acquire, Commit, FlushSucceeds,
         FlushRefused, FlushFails, AcquireAfterClose, CloseBegin, PeriodicCancelled,
         CloseDrain, ClosePool
<1> QED
  BY <1>2, <1>3, <1>4

\* Whatever flushes run, fail and restore their batches, no buffer outgrows
\* buffer_max_size until the database refuses a connection.
THEOREM BufferStaysBounded == Spec => []BufferBounded
<1>1. Init => BufferBounded
  BY SizeAssumption DEF Init, BufferBounded
<1>2. TypeOK /\ BufferBounded /\ [Next]_vars => BufferBounded'
  <2> SUFFICES ASSUME TypeOK, faults'["tooManyConnections"] = 0, Bounded(buffer), [Next]_vars
               PROVE  Bounded(buffer)'
    BY FaultsGrow DEF BufferBounded, Bounded, TypeOK, FaultKinds
  <2>0. BufferTypes
    BY DEF TypeOK, BufferTypes
  <2>1. ASSUME NEW k \in Kinds, Write(k)
        PROVE  Bounded(buffer)'
    <3>1. buffer[k] \in Seq(Row) /\ written[k] + 1 \in Row
      BY DEF TypeOK, Row
    <3>2. Len(MaybeDropOldest(k)) < BufferMax
      <4>1. CASE Overflows(k)
        <5>1. buffer[k] # <<>>
          BY <4>1, SizeAssumption DEF Overflows
        <5> QED
          BY <3>1, <4>1, <5>1, TailOfBuffer, SizeAssumption DEF MaybeDropOldest, Bounded
      <4>2. CASE ~Overflows(k)
        BY <3>1, <4>2, SizeAssumption DEF MaybeDropOldest, Overflows
      <4> QED
        BY <4>1, <4>2
    <3>3. Len(Append(MaybeDropOldest(k), written[k] + 1)) <= BufferMax
      BY <3>1, <3>2, MaybeDropOldestType, AppendOfRow, SizeAssumption
    <3>4. buffer' = [buffer EXCEPT ![k] = Append(MaybeDropOldest(k), written[k] + 1)]
      BY <2>1 DEF Write, NewRow
    <3> QED
      BY <3>3, <3>4 DEF Bounded, TypeOK
  <2>2. ASSUME NEW f \in Flushers, EndFlush(f, RestoredCapped(f))
        PROVE  Bounded(buffer)'
    BY <2>0, <2>2, EndFlushBounded, RestoredTypes, CappedIsPrefix DEF RestoredCapped
  <2>3. ASSUME NEW t \in Tasks, RunTask(t)
        PROVE  Bounded(buffer)'
    <3>1. t \in Flushers /\ flush[t].kind \in Kinds
      BY <2>0 DEF Flushers, BufferTypes, FlushState
    <3>2. CASE FlushAll(t, {flush[t].kind}, buffer, [flushing EXCEPT ![flush[t].kind] = FALSE])
      <4>1. [flushing EXCEPT ![flush[t].kind] = FALSE] \in [Kinds -> BOOLEAN]
        BY <2>0 DEF BufferTypes
      <4> QED
        BY <2>0, <3>1, <3>2, <4>1, FlushAllBounded DEF BufferTypes
    <3>3. CASE EndFlush(t, Capped(buffer[flush[t].kind]))
      BY <2>0, <3>1, <3>3, EndFlushBounded, RestoredTypes, CappedIsPrefix
    <3> QED
      BY <2>3, <3>2, <3>3 DEF RunTask
  <2>4. CASE PeriodicWake
    BY <2>0, <2>4, FlushAllBounded DEF PeriodicWake, BufferTypes, Flushers
  <2>5. CASE CloseDrain
    BY <2>0, <2>5, FlushAllBounded DEF CloseDrain, BufferTypes, Flushers
  <2>6. ASSUME NEW f \in Flushers, FlushSucceeds(f)
        PROVE  Bounded(buffer)'
    <3>1. Len(buffer[flush[f].kind]) <= BufferMax
      BY <2>0 DEF Bounded, BufferTypes, FlushState
    <3> QED
      BY <2>0, <2>6, <3>1, EndFlushBounded, RestoredTypes DEF FlushSucceeds
  <2>7. ASSUME NEW f \in Flushers, FlushRefused(f)
        PROVE  FALSE
    <3>1. faults \in [FaultKinds -> Nat] /\ faults' = [faults EXCEPT !["tooManyConnections"] = @ + 1]
      BY <2>7, FaultCounts DEF FlushRefused, TypeOK
    <3> QED
      BY <3>1 DEF FaultKinds
  <2>8. ASSUME NEW f \in Flushers, Acquire(f) \/ Commit(f)
        PROVE  Bounded(buffer)'
    BY <2>8 DEF Acquire, Commit, Bounded
  <2>9. CASE CloseBegin \/ PeriodicCancelled \/ ClosePool \/ UNCHANGED vars
    BY <2>9 DEF CloseBegin, PeriodicCancelled, ClosePool, vars, Bounded
  <2> QED
    BY <2>1, <2>2, <2>3, <2>4, <2>5, <2>6, <2>7, <2>8, <2>9
       DEF Next, FlushFails, AcquireAfterClose
<1> QED
  BY <1>1, <1>2, TypeInvariant, PTL DEF Spec

-----------------------------------------------------------------------------
(* The guards.                                                             *)

\* close() flushes only once it drains.
CloserWaits == closer \notin {"draining", "closed"} => Idle(Closer)

\* The guards flg would be backed by flushers other than f.
BackedWithout(f, flg) ==
  \A k \in Kinds : flg[k] => \E g \in Flushers \ {f} : InFlight(g, k)

\* A flush that goes on leaves each guard that is set with a flush behind it.
LEMMA FlushAllGuards ==
  ASSUME NEW f \in Flushers, NEW kinds \in SUBSET Kinds,
         NEW buf \in [Kinds -> Seq(Row)], NEW flg \in [Kinds -> BOOLEAN],
         flush \in [Flushers -> FlushState],
         FlushAll(f, kinds, buf, flg), BackedWithout(f, flg)
  PROVE  GuardNeverStuck'
<1>1. \A g \in Flushers \ {f}, k \in Kinds :
        flush'[g] = flush[g] => (InFlight(g, k) => InFlight(g, k)')
  BY DEF InFlight
<1>2. \A g \in Flushers \ {f} : flush'[g] = flush[g]
  BY FlushAllOthers
<1>3. CASE Stops(f, buf, flg)
  BY <1>1, <1>2, <1>3 DEF Stops, BackedWithout, GuardNeverStuck
<1>4. ASSUME NEW k \in kinds, Starts(f, k, buf, flg)
      PROVE  GuardNeverStuck'
  <2>1. InFlight(f, k)'
    BY <1>4 DEF Starts, InFlight, Popped
  <2>2. flushing' = [flg EXCEPT ![k] = TRUE]
    BY <1>4 DEF Starts
  <2> QED
    BY <1>1, <1>2, <2>1, <2>2 DEF BackedWithout, GuardNeverStuck
<1> QED
  BY <1>3, <1>4, FlushAllShape

\* The end of a flush clears the guard of its buffer.
LEMMA EndFlushGuards ==
  ASSUME NEW f \in Flushers, NEW rows \in Seq(Row), BufferTypes, EndFlush(f, rows),
         GuardNeverStuck
  PROVE  GuardNeverStuck'
<1>1. PICK buf \in [Kinds -> Seq(Row)], flg \in [Kinds -> BOOLEAN],
           kinds \in SUBSET Kinds :
           /\ flg = [flushing EXCEPT ![flush[f].kind] = FALSE]
           /\ FlushAll(f, kinds, buf, flg)
  BY EndFlushShape
<1>2. BackedWithout(f, flg)
  BY <1>1 DEF BackedWithout, GuardNeverStuck, BufferTypes, InFlight
<1> QED
  BY <1>1, <1>2, FlushAllGuards DEF BufferTypes

\* The flusher of the final drain is idle until close() drains.
LEMMA CloserWaitsInvariant == Spec => []CloserWaits
<1>1. Init => CloserWaits
  BY DEF Init, CloserWaits, Idle, Flushers, IdleFlush
<1>2. TypeOK /\ CloserWaits /\ [Next]_vars => CloserWaits'
  <2> SUFFICES ASSUME TypeOK, CloserWaits, [Next]_vars, closer' \notin {"draining", "closed"}
               PROVE  flush'[Closer] = flush[Closer] /\ closer \notin {"draining", "closed"}
    BY DEF CloserWaits, Idle
  <2>0. BufferTypes /\ Closer \in Flushers /\ Closer \notin Tasks /\ Closer # Periodic
    BY FlusherAssumption DEF TypeOK, BufferTypes, Flushers, Closer, Periodic
  <2>1. ASSUME NEW f \in Flushers, NEW rows \in Seq(Row), EndFlush(f, rows), f # Closer
        PROVE  flush'[Closer] = flush[Closer]
    <3>1. PICK buf \in [Kinds -> Seq(Row)], flg \in [Kinds -> BOOLEAN],
               kinds \in SUBSET Kinds : FlushAll(f, kinds, buf, flg)
      BY <2>0, <2>1, EndFlushShape
    <3> QED
      BY <2>0, <2>1, <3>1, FlushAllOthers DEF BufferTypes
  <2>2. ASSUME NEW k \in Kinds, Write(k)
        PROVE  flush'[Closer] = flush[Closer] /\ closer' = closer
    BY <2>0, <2>2 DEF Write, Spawn, BufferTypes
  <2>3. ASSUME NEW t \in Tasks, RunTask(t)
        PROVE  flush'[Closer] = flush[Closer] /\ closer' = closer
    <3>1. t \in Flushers /\ t # Closer /\ flush[t].kind \in Kinds
      BY <2>0 DEF Flushers, BufferTypes, FlushState
    <3>2. CASE FlushAll(t, {flush[t].kind}, buffer, [flushing EXCEPT ![flush[t].kind] = FALSE])
      <4>1. [flushing EXCEPT ![flush[t].kind] = FALSE] \in [Kinds -> BOOLEAN]
        BY <2>0 DEF BufferTypes
      <4> QED
        BY <2>0, <2>3, <3>1, <3>2, <4>1, FlushAllOthers DEF BufferTypes, RunTask
    <3>3. CASE EndFlush(t, Capped(buffer[flush[t].kind]))
      BY <2>0, <2>1, <2>3, <3>1, <3>3, RestoredTypes DEF RunTask
    <3> QED
      BY <2>3, <3>2, <3>3 DEF RunTask
  <2>4. CASE PeriodicWake
    <3>1. FlushAll(Periodic, Kinds, buffer, flushing) /\ Periodic \in Flushers
      BY <2>4 DEF PeriodicWake, Flushers
    <3>2. Closer \in Flushers \ {Periodic} /\ Kinds \in SUBSET Kinds
      BY <2>0
    <3>3. /\ buffer \in [Kinds -> Seq(Row)] /\ flushing \in [Kinds -> BOOLEAN]
          /\ flush \in [Flushers -> FlushState]
      BY <2>0 DEF BufferTypes
    <3> QED
      BY <2>4, <3>1, <3>2, <3>3, FlushAllOthers DEF PeriodicWake
  <2>5. ASSUME NEW f \in Flushers,
               Acquire(f) \/ Commit(f) \/ FlushSucceeds(f) \/ FlushRefused(f)
                 \/ FlushFails(f) \/ AcquireAfterClose(f)
        PROVE  flush'[Closer] = flush[Closer] /\ closer' = closer
    <3>1. closer' = closer /\ ~Idle(f)
      BY <2>5 DEF Acquire, Commit, FlushSucceeds, FlushRefused, FlushFails,
                  AcquireAfterClose, Idle
    <3>2. f # Closer
      BY <3>1 DEF CloserWaits
    <3>3. CASE Acquire(f) \/ Commit(f)
      BY <2>0, <3>1, <3>2, <3>3 DEF Acquire, Commit, BufferTypes
    <3>4. CASE FlushSucceeds(f) \/ FlushRefused(f) \/ FlushFails(f) \/ AcquireAfterClose(f)
      BY <2>0, <2>1, <3>1, <3>2, <3>4, RestoredTypes
         DEF FlushSucceeds, FlushRefused, FlushFails, AcquireAfterClose
    <3> QED
      BY <2>5, <3>3, <3>4
  <2>6. CASE CloseBegin \/ PeriodicCancelled \/ UNCHANGED vars
    BY <2>0, <2>6 DEF CloseBegin, PeriodicCancelled, vars, BufferTypes
  <2>7. CASE CloseDrain \/ ClosePool
    BY <2>7 DEF CloseDrain, ClosePool
  <2> QED
    BY <2>2, <2>3, <2>4, <2>5, <2>6, <2>7 DEF Next, PeriodicWake
<1> QED
  BY <1>1, <1>2, TypeInvariant, PTL DEF Spec

\* No guard is ever left set without a flush of its buffer under way, so a
\* failure, a cancellation or an empty batch never disables batch flushing.
THEOREM GuardsNeverStick == Spec => []GuardNeverStuck
<1>1. Init => GuardNeverStuck
  BY DEF Init, GuardNeverStuck
<1>2. TypeOK /\ CloserWaits /\ GuardNeverStuck /\ [Next]_vars => GuardNeverStuck'
  <2> SUFFICES ASSUME TypeOK, CloserWaits, GuardNeverStuck, [Next]_vars
               PROVE  GuardNeverStuck'
    OBVIOUS
  <2>0. BufferTypes
    BY DEF TypeOK, BufferTypes
  <2>1. ASSUME flushing' = flushing,
               \A g \in Flushers, k \in Kinds : InFlight(g, k) => InFlight(g, k)'
        PROVE  GuardNeverStuck'
    BY <2>1 DEF GuardNeverStuck
  <2>2. ASSUME NEW k \in Kinds, Write(k)
        PROVE  GuardNeverStuck'
    <3>1. CASE \E t \in Tasks : Spawn(t, k)
      <4>1. PICK t \in Tasks : Spawn(t, k)
        BY <3>1
      <4>2. \A g \in Flushers, j \in Kinds : InFlight(g, j) => InFlight(g, j)'
        BY <2>0, <4>1 DEF Spawn, Idle, InFlight, BufferTypes
      <4> QED
        BY <2>1, <2>2, <4>2 DEF Write
    <3>2. CASE UNCHANGED flush
      BY <2>1, <2>2, <3>2 DEF Write, InFlight
    <3> QED
      BY <2>2, <3>1, <3>2 DEF Write
  <2>3. ASSUME NEW f \in Flushers, Idle(f) \/ flush[f].phase = "scheduled"
        PROVE  BackedWithout(f, flushing)
    BY <2>3 DEF BackedWithout, GuardNeverStuck, InFlight, Idle
  <2>4. ASSUME NEW t \in Tasks, RunTask(t)
        PROVE  GuardNeverStuck'
    <3>1. t \in Flushers /\ flush[t].kind \in Kinds
      BY <2>0 DEF Flushers, BufferTypes, FlushState
    <3>2. CASE FlushAll(t, {flush[t].kind}, buffer, [flushing EXCEPT ![flush[t].kind] = FALSE])
      <4>1. [flushing EXCEPT ![flush[t].kind] = FALSE] \in [Kinds -> BOOLEAN]
        BY <2>0 DEF BufferTypes
      <4>2. BackedWithout(t, [flushing EXCEPT ![flush[t].kind] = FALSE])
        BY <2>0, <2>3, <2>4, <3>1 DEF RunTask, BackedWithout, BufferTypes
      <4> QED
        BY <2>0, <3>1, <3>2, <4>1, <4>2, FlushAllGuards DEF BufferTypes
    <3>3. CASE EndFlush(t, Capped(buffer[flush[t].kind]))
      BY <2>0, <3>1, <3>3, EndFlushGuards, RestoredTypes
    <3> QED
      BY <2>4, <3>2, <3>3 DEF RunTask
  <2>5. CASE PeriodicWake
    BY <2>0, <2>3, <2>5, FlushAllGuards DEF PeriodicWake, BufferTypes, Flushers
  <2>6. CASE CloseDrain
    BY <2>0, <2>3, <2>6, FlushAllGuards DEF CloseDrain, CloserWaits, BufferTypes, Flushers
  <2>7. ASSUME NEW f \in Flushers, Acquire(f) \/ Commit(f)
        PROVE  GuardNeverStuck'
    <3>1. /\ \A g \in Flushers \ {f} : flush'[g] = flush[g]
          /\ flush'[f].kind = flush[f].kind
          /\ flush'[f].phase \in {"executing", "committed"}
      BY <2>0, <2>7 DEF Acquire, Commit, BufferTypes, FlushState
    <3>2. \A g \in Flushers, k \in Kinds : InFlight(g, k) => InFlight(g, k)'
      BY <3>1 DEF InFlight
    <3> QED
      BY <2>1, <2>7, <3>2 DEF Acquire, Commit
  <2>8. ASSUME NEW f \in Flushers,
               FlushSucceeds(f) \/ FlushRefused(f) \/ FlushFails(f) \/ AcquireAfterClose(f)
        PROVE  GuardNeverStuck'
    BY <2>0, <2>8, EndFlushGuards, RestoredTypes
       DEF FlushSucceeds, FlushRefused, FlushFails, AcquireAfterClose
  <2>9. CASE PeriodicCancelled
    <3>1. ASSUME NEW k \in Kinds, flushing'[k]
          PROVE  \E g \in Flushers : InFlight(g, k)'
      <4>1. flushing[k] /\ ~InFlight(Periodic, k)
        BY <2>9, <3>1 DEF PeriodicCancelled
      <4>2. PICK g \in Flushers : InFlight(g, k)
        BY <4>1 DEF GuardNeverStuck
      <4>3. g # Periodic
        BY <4>1, <4>2
      <4> QED
        BY <2>0, <2>9, <4>2, <4>3 DEF PeriodicCancelled, InFlight, BufferTypes
    <3> QED
      BY <3>1 DEF GuardNeverStuck
  <2>10. CASE CloseBegin \/ ClosePool \/ UNCHANGED vars
    BY <2>1, <2>10 DEF CloseBegin, ClosePool, vars, InFlight
  <2> QED
    BY <2>2, <2>4, <2>5, <2>6, <2>7, <2>8, <2>9, <2>10 DEF Next
<1> QED
  BY <1>1, <1>2, TypeInvariant, CloserWaitsInvariant, PTL DEF Spec

-----------------------------------------------------------------------------
(* No row is at two places.                                                *)

\* The rows of two sequences put together are those of both, each once if they are apart.
LEMMA RowsOfConcat ==
  ASSUME NEW s \in Seq(Row), NEW t \in Seq(Row)
  PROVE  /\ RowsOf(s \o t) = RowsOf(s) \cup RowsOf(t)
         /\ (Distinct(s) /\ Distinct(t) /\ RowsOf(s) \cap RowsOf(t) = {}) => Distinct(s \o t)
<1> DEFINE st == s \o t
<1>1. /\ st \in Seq(Row) /\ Len(st) = Len(s) + Len(t)
      /\ \A i \in 1..Len(s) : st[i] = s[i]
      /\ \A i \in 1..Len(t) : st[Len(s) + i] = t[i]
  BY ConcatOfRows
<1>2. \A i \in 1..Len(st) : i \in 1..Len(s) \/ \E j \in 1..Len(t) : i = Len(s) + j
  <2> TAKE i \in 1..Len(st)
  <2>1. CASE i > Len(s)
    <3>1. i - Len(s) \in 1..Len(t) /\ i = Len(s) + (i - Len(s))
      BY <1>1, <2>1
    <3> QED
      BY <3>1
  <2> QED
    BY <1>1, <2>1
<1> HIDE DEF st
<1>3. RowsOf(st) = RowsOf(s) \cup RowsOf(t)
  <2>1. \A i \in 1..Len(s) : i \in 1..Len(st)
    <3>1. Len(s) \in Nat /\ Len(t) \in Nat
      OBVIOUS
    <3> QED
      BY <1>1, <3>1
  <2>2. \A i \in 1..Len(t) : Len(s) + i \in 1..Len(st)
    BY <1>1
  <2>3. ASSUME NEW i \in 1..Len(st)
        PROVE  st[i] \in RowsOf(s) \cup RowsOf(t)
    <3>1. CASE i \in 1..Len(s)
      BY <1>1, <3>1 DEF RowsOf
    <3>2. ASSUME NEW j \in 1..Len(t), i = Len(s) + j
          PROVE  st[i] \in RowsOf(t)
      BY <1>1, <3>2 DEF RowsOf
    <3> QED
      BY <1>2, <3>1, <3>2
  <2>4. RowsOf(s) \subseteq RowsOf(st)
    BY <1>1, <2>1 DEF RowsOf
  <2>5. RowsOf(t) \subseteq RowsOf(st)
    BY <1>1, <2>2 DEF RowsOf
  <2>6. RowsOf(st) \subseteq RowsOf(s) \cup RowsOf(t)
    BY <2>3 DEF RowsOf
  <2> QED
    BY <2>4, <2>5, <2>6
<1>4. ASSUME Distinct(s), Distinct(t), RowsOf(s) \cap RowsOf(t) = {}
      PROVE  Distinct(st)
  <2> SUFFICES ASSUME NEW i \in 1..Len(st), NEW j \in 1..Len(st), st[i] = st[j]
               PROVE  i = j
    BY DEF Distinct
  <2>0. \A m \in 1..Len(s), n \in 1..Len(t) : s[m] # t[n]
    BY <1>4 DEF RowsOf
  <2>1. CASE i \in 1..Len(s) /\ j \in 1..Len(s)
    BY <1>1, <1>4, <2>1 DEF Distinct
  <2>2. CASE i \in 1..Len(s) /\ j \notin 1..Len(s)
    <3>1. PICK n \in 1..Len(t) : j = Len(s) + n
      BY <1>2, <2>2
    <3> QED
      BY <1>1, <2>0, <2>2, <3>1
  <2>3. CASE i \notin 1..Len(s) /\ j \in 1..Len(s)
    <3>1. PICK n \in 1..Len(t) : i = Len(s) + n
      BY <1>2, <2>3
    <3> QED
      BY <1>1, <2>0, <2>3, <3>1
  <2>4. CASE i \notin 1..Len(s) /\ j \notin 1..Len(s)
    <3>1. PICK m \in 1..Len(t) : i = Len(s) + m
      BY <1>2, <2>4
    <3>2. PICK n \in 1..Len(t) : j = Len(s) + n
      BY <1>2, <2>4
    <3>3. t[m] = t[n]
      BY <1>1, <3>1, <3>2
    <3>4. m = n
      BY <1>4, <3>3 DEF Distinct
    <3> QED
      BY <3>1, <3>2, <3>4
  <2> QED
    BY <2>1, <2>2, <2>3, <2>4
<1> QED
  BY <1>3, <1>4 DEF st

\* An appended row adds itself, once if it is new.
LEMMA RowsOfAppend ==
  ASSUME NEW s \in Seq(Row), NEW r \in Row
  PROVE  /\ RowsOf(Append(s, r)) = RowsOf(s) \cup {r}
         /\ (Distinct(s) /\ r \notin RowsOf(s)) => Distinct(Append(s, r))
<1>1. /\ Append(s, r) \in Seq(Row) /\ Len(Append(s, r)) = Len(s) + 1
      /\ \A i \in 1..Len(s) : Append(s, r)[i] = s[i]
      /\ Append(s, r)[Len(s) + 1] = r
  BY AppendOfRow
<1>2. 1..(Len(s) + 1) = (1..Len(s)) \cup {Len(s) + 1} /\ Len(s) + 1 \notin 1..Len(s)
  OBVIOUS
<1> DEFINE sr == Append(s, r)
<1> HIDE DEF sr
<1>3. RowsOf(sr) = RowsOf(s) \cup {r}
  BY <1>1, <1>2 DEF RowsOf, sr
<1>4. ASSUME Distinct(s), r \notin RowsOf(s)
      PROVE  Distinct(sr)
  BY <1>1, <1>2, <1>4 DEF RowsOf, Distinct, sr
<1> QED
  BY <1>3, <1>4 DEF sr

\* A sequence whose elements are those of s from an offset on.
LEMMA RowsOfPart ==
  ASSUME NEW s \in Seq(Row), NEW t \in Seq(Row), NEW d \in Nat,
         Len(t) + d <= Len(s),
         \A i \in 1..Len(t) : t[i] = s[i + d]
  PROVE  /\ RowsOf(t) \subseteq RowsOf(s)
         /\ Distinct(s) => Distinct(t)
<1>1. \A i \in 1..Len(t) : i + d \in 1..Len(s)
  OBVIOUS
<1>2. RowsOf(t) \subseteq RowsOf(s)
  BY <1>1 DEF RowsOf
<1>3. Distinct(s) => Distinct(t)
  BY <1>1 DEF Distinct
<1> QED
  BY <1>2, <1>3

\* Cutting a buffer adds no row and doubles none.
LEMMA RowsOfCapped ==
  ASSUME NEW s \in Seq(Row)
  PROVE  /\ RowsOf(Capped(s)) \subseteq RowsOf(s)
         /\ Distinct(s) => Distinct(Capped(s))
<1>1. /\ Capped(s) \in Seq(Row) /\ Len(Capped(s)) + 0 <= Len(s)
      /\ \A i \in 1..Len(Capped(s)) : Capped(s)[i] = s[i + 0]
  BY CappedIsPrefix
<1> QED
  BY <1>1, RowsOfPart

\* Dropping the oldest row adds none and doubles none.
LEMMA RowsOfTail ==
  ASSUME NEW s \in Seq(Row), s # <<>>
  PROVE  /\ RowsOf(Tail(s)) \subseteq RowsOf(s)
         /\ Distinct(s) => Distinct(Tail(s))
<1>1. /\ Tail(s) \in Seq(Row) /\ Len(Tail(s)) + 1 <= Len(s)
      /\ \A i \in 1..Len(Tail(s)) : Tail(s)[i] = s[i + 1]
  BY TailOfBuffer
<1> QED
  BY <1>1, RowsOfPart

\* The rows of kind k in buf and in the batches of the flushers fs are at one
\* place each and have been accepted.
Placed(fs, buf) ==
  \A k \in Kinds :
    /\ Distinct(buf[k])
    /\ RowsOf(buf[k]) \subseteq 1..written[k]
    /\ \A g \in fs : InFlight(g, k) =>
         /\ Distinct(flush[g].batch)
         /\ RowsOf(flush[g].batch) \subseteq 1..written[k]
         /\ RowsOf(flush[g].batch) \cap RowsOf(buf[k]) = {}
         /\ \A h \in fs \ {g} : InFlight(h, k) =>
              RowsOf(flush[g].batch) \cap RowsOf(flush[h].batch) = {}

RowsPlaced == Placed(Flushers, buffer)

\* Popping a buffer moves its rows into a batch, so that each stays at one place.
LEMMA FlushAllPlaced ==
  ASSUME NEW f \in Flushers, NEW kinds \in SUBSET Kinds,
         NEW buf \in [Kinds -> Seq(Row)], NEW flg \in [Kinds -> BOOLEAN],
         flush \in [Flushers -> FlushState], written' = written,
         FlushAll(f, kinds, buf, flg), Placed(Flushers \ {f}, buf)
  PROVE  RowsPlaced'
<1>1. \A g \in Flushers \ {f} : flush'[g] = flush[g]
  BY FlushAllOthers
<1>2. \A g \in Flushers \ {f}, k \in Kinds : InFlight(g, k)' <=> InFlight(g, k)
  BY <1>1 DEF InFlight
<1>3. CASE Stops(f, buf, flg)
  <2>1. \A k \in Kinds : ~InFlight(f, k)'
    BY <1>3 DEF Stops, InFlight, IdleFlush
  <2>2. buffer' = buf
    BY <1>3 DEF Stops
  <2> QED
    BY <1>1, <1>2, <2>1, <2>2 DEF RowsPlaced, Placed
<1>4. ASSUME NEW j \in kinds, Starts(f, j, buf, flg)
      PROVE  RowsPlaced'
  <2>1. \A k \in Kinds : InFlight(f, k)' <=> k = j
    BY <1>4 DEF Starts, InFlight, Popped
  <2>2. flush'[f].batch = buf[j]
    BY <1>4 DEF Starts, Popped
  <2>3. \A k \in Kinds : buffer'[k] = IF k = j THEN <<>> ELSE buf[k]
    BY <1>4 DEF Starts
  <2>4. RowsOf(<<>>) = {} /\ Distinct(<<>>)
    BY DEF RowsOf, Distinct
  <2> SUFFICES ASSUME NEW k \in Kinds
               PROVE  /\ Distinct(buffer'[k])
                      /\ RowsOf(buffer'[k]) \subseteq 1..written[k]
                      /\ \A g \in Flushers : InFlight(g, k)' =>
                           /\ Distinct(flush'[g].batch)
                           /\ RowsOf(flush'[g].batch) \subseteq 1..written[k]
                           /\ RowsOf(flush'[g].batch) \cap RowsOf(buffer'[k]) = {}
                           /\ \A h \in Flushers \ {g} : InFlight(h, k)' =>
                                RowsOf(flush'[g].batch) \cap RowsOf(flush'[h].batch) = {}
    BY DEF RowsPlaced, Placed
  <2>5. Distinct(buffer'[k]) /\ RowsOf(buffer'[k]) \subseteq 1..written[k]
    BY <2>3, <2>4 DEF Placed
  <2>6. ASSUME NEW g \in Flushers, InFlight(g, k)'
        PROVE  /\ Distinct(flush'[g].batch)
               /\ RowsOf(flush'[g].batch) \subseteq 1..written[k]
               /\ RowsOf(flush'[g].batch) \cap RowsOf(buffer'[k]) = {}
    <3>1. CASE g = f
      BY <2>1, <2>2, <2>3, <2>4, <2>6, <3>1 DEF Placed
    <3>2. CASE g # f
      BY <1>1, <1>2, <2>3, <2>4, <2>6, <3>2 DEF Placed
    <3> QED
      BY <3>1, <3>2
  <2>7. ASSUME NEW g \in Flushers, NEW h \in Flushers \ {g}, InFlight(g, k)', InFlight(h, k)'
        PROVE  RowsOf(flush'[g].batch) \cap RowsOf(flush'[h].batch) = {}
    <3>1. CASE g = f
      <4>1. k = j /\ h \in Flushers \ {f}
        BY <2>1, <2>7, <3>1
      <4> QED
        BY <1>1, <1>2, <2>2, <2>7, <3>1, <4>1 DEF Placed
    <3>2. CASE h = f
      <4>1. k = j /\ g \in Flushers \ {f}
        BY <2>1, <2>7, <3>2
      <4> QED
        BY <1>1, <1>2, <2>2, <2>7, <3>2, <4>1 DEF Placed
    <3>3. CASE g # f /\ h # f
      BY <1>1, <1>2, <2>7, <3>3 DEF Placed
    <3> QED
      BY <3>1, <3>2, <3>3
  <2> QED
    BY <2>5, <2>6, <2>7
<1> QED
  BY <1>3, <1>4, FlushAllShape

\* Putting a part of the batch of f back in front of its buffer.
LEMMA EndFlushPlaced ==
  ASSUME NEW f \in Flushers, NEW rows \in Seq(Row), BufferTypes, EndFlush(f, rows),
         RowsPlaced, written' = written, Distinct(rows),
         \/ RowsOf(rows) \subseteq RowsOf(buffer[flush[f].kind])
         \/ /\ InFlight(f, flush[f].kind)
            /\ RowsOf(rows) \subseteq RowsOf(flush[f].batch) \cup RowsOf(buffer[flush[f].kind])
  PROVE  RowsPlaced'
<1> DEFINE kind == flush[f].kind
<1>1. PICK buf \in [Kinds -> Seq(Row)], flg \in [Kinds -> BOOLEAN],
           kinds \in SUBSET Kinds :
           /\ buf = [buffer EXCEPT ![kind] = rows]
           /\ FlushAll(f, kinds, buf, flg)
  BY EndFlushShape
<1>2. kind \in Kinds /\ flush \in [Flushers -> FlushState]
  BY DEF BufferTypes, FlushState
<1>3. \A k \in Kinds : buf[k] = IF k = kind THEN rows ELSE buffer[k]
  BY <1>1 DEF BufferTypes
<1>4. Placed(Flushers \ {f}, buf)
  <2> SUFFICES ASSUME NEW k \in Kinds
               PROVE  /\ Distinct(buf[k])
                      /\ RowsOf(buf[k]) \subseteq 1..written[k]
                      /\ \A g \in Flushers \ {f} : InFlight(g, k) =>
                           /\ Distinct(flush[g].batch)
                           /\ RowsOf(flush[g].batch) \subseteq 1..written[k]
                           /\ RowsOf(flush[g].batch) \cap RowsOf(buf[k]) = {}
                           /\ \A h \in (Flushers \ {f}) \ {g} : InFlight(h, k) =>
                                RowsOf(flush[g].batch) \cap RowsOf(flush[h].batch) = {}
    BY DEF Placed
  <2>1. CASE k # kind
    BY <1>3, <2>1 DEF RowsPlaced, Placed
  <2>2. CASE k = kind
    <3>1. buf[k] = rows
      BY <1>3, <2>2
    <3>2. RowsOf(rows) \subseteq 1..written[k]
      BY <2>2 DEF RowsPlaced, Placed
    <3>3. ASSUME NEW g \in Flushers \ {f}, InFlight(g, k)
          PROVE  RowsOf(flush[g].batch) \cap RowsOf(rows) = {}
      <4>1. RowsOf(flush[g].batch) \cap RowsOf(buffer[k]) = {}
        BY <3>3 DEF RowsPlaced, Placed
      <4>2. InFlight(f, k) => RowsOf(flush[g].batch) \cap RowsOf(flush[f].batch) = {}
        BY <3>3 DEF RowsPlaced, Placed
      <4> QED
        BY <2>2, <4>1, <4>2
    <3> QED
      BY <3>1, <3>2, <3>3 DEF RowsPlaced, Placed
  <2> QED
    BY <2>1, <2>2
<1> QED
  BY <1>1, <1>2, <1>4, FlushAllPlaced

\* One step: the flush steps through the two lemmas above, the others directly.
LEMMA PlacedStep == TypeOK /\ RowsPlaced /\ [Next]_vars => RowsPlaced'
<1> SUFFICES ASSUME TypeOK, RowsPlaced, [Next]_vars
             PROVE  RowsPlaced'
  OBVIOUS
<1>0. BufferTypes /\ written \in [Kinds -> Nat] /\ flush \in [Flushers -> FlushState]
  BY DEF TypeOK, BufferTypes
<1>a. \A buf : \A fs \in SUBSET Flushers : Placed(Flushers, buf) => Placed(fs, buf)
  BY DEF Placed
<1>1. ASSUME NEW k \in Kinds, Write(k)
      PROVE  RowsPlaced'
  <2> DEFINE kept == MaybeDropOldest(k)
             rows == Append(kept, NewRow(k))
  <2>1. written[k] \in Nat /\ written[k] + 1 \in Row /\ buffer[k] \in Seq(Row)
    BY <1>0 DEF BufferTypes, Row
  <2>2. kept \in Seq(Row) /\ RowsOf(kept) \subseteq RowsOf(buffer[k]) /\ Distinct(kept)
    <3>1. Overflows(k) => buffer[k] # <<>>
      BY <2>1, SizeAssumption DEF Overflows
    <3>2. Distinct(buffer[k])
      BY DEF RowsPlaced, Placed
    <3> QED
      BY <2>1, <3>1, <3>2, MaybeDropOldestType, RowsOfTail DEF MaybeDropOldest
  <2>3. RowsOf(buffer[k]) \subseteq 1..written[k] /\ written[k] + 1 \notin 1..written[k]
    BY <2>1 DEF RowsPlaced, Placed
  <2>4. RowsOf(rows) = RowsOf(kept) \cup {written[k] + 1} /\ Distinct(rows)
    <3> HIDE DEF kept
    <3> QED
      BY <2>1, <2>2, <2>3, RowsOfAppend DEF NewRow
  <2> HIDE DEF kept, rows
  <2>5. /\ written' = [written EXCEPT ![k] = written[k] + 1]
        /\ buffer' = [buffer EXCEPT ![k] = rows]
        /\ \A g \in Flushers : flush'[g] = flush[g] \/ flush'[g].phase = "scheduled"
    BY <1>0, <1>1 DEF Write, Spawn, rows, kept, Flushers
  <2>6. \A g \in Flushers, j \in Kinds : InFlight(g, j)' =>
           InFlight(g, j) /\ flush'[g].batch = flush[g].batch
    BY <2>5 DEF InFlight
  <2>7. /\ \A j \in Kinds \ {k} : written'[j] = written[j] /\ buffer'[j] = buffer[j]
        /\ written'[k] = written[k] + 1 /\ buffer'[k] = rows
    BY <1>0, <2>5 DEF BufferTypes
  <2> SUFFICES ASSUME NEW j \in Kinds
               PROVE  /\ Distinct(buffer'[j])
                      /\ RowsOf(buffer'[j]) \subseteq 1..written'[j]
                      /\ \A g \in Flushers : InFlight(g, j)' =>
                           /\ Distinct(flush'[g].batch)
                           /\ RowsOf(flush'[g].batch) \subseteq 1..written'[j]
                           /\ RowsOf(flush'[g].batch) \cap RowsOf(buffer'[j]) = {}
                           /\ \A h \in Flushers \ {g} : InFlight(h, j)' =>
                                RowsOf(flush'[g].batch) \cap RowsOf(flush'[h].batch) = {}
    BY DEF RowsPlaced, Placed
  <2>8. CASE j # k
    BY <2>6, <2>7, <2>8 DEF RowsPlaced, Placed
  <2>9. CASE j = k
    <3>1. 1..written[k] \subseteq 1..(written[k] + 1) /\ written[k] + 1 \in 1..(written[k] + 1)
      BY <2>1
    <3>2. Distinct(buffer'[j]) /\ RowsOf(buffer'[j]) \subseteq 1..written'[j]
      BY <2>2, <2>3, <2>4, <2>7, <2>9, <3>1
    <3>3. ASSUME NEW g \in Flushers, InFlight(g, j)'
          PROVE  /\ Distinct(flush'[g].batch)
                 /\ RowsOf(flush'[g].batch) \subseteq 1..written'[j]
                 /\ RowsOf(flush'[g].batch) \cap RowsOf(buffer'[j]) = {}
                 /\ \A h \in Flushers \ {g} : InFlight(h, j)' =>
                      RowsOf(flush'[g].batch) \cap RowsOf(flush'[h].batch) = {}
      <4>1. /\ Distinct(flush[g].batch)
            /\ RowsOf(flush[g].batch) \subseteq 1..written[k]
            /\ RowsOf(flush[g].batch) \cap RowsOf(buffer[k]) = {}
            /\ \A h \in Flushers \ {g} : InFlight(h, k) =>
                 RowsOf(flush[g].batch) \cap RowsOf(flush[h].batch) = {}
        BY <2>6, <2>9, <3>3 DEF RowsPlaced, Placed
      <4>2. flush'[g].batch = flush[g].batch
        BY <2>6, <3>3
      <4>3. RowsOf(flush[g].batch) \cap RowsOf(rows) = {}
        BY <2>2, <2>3, <2>4, <4>1
      <4> QED
        BY <2>6, <2>7, <2>9, <3>1, <4>1, <4>2, <4>3
    <3> QED
      BY <3>2, <3>3
  <2> QED
    BY <2>8, <2>9
<1>2. ASSUME NEW t \in Tasks, RunTask(t)
      PROVE  RowsPlaced'
  <2>1. t \in Flushers /\ flush[t].kind \in Kinds /\ written' = written
    BY <1>0, <1>2 DEF Flushers, BufferTypes, FlushState, RunTask
  <2>2. CASE FlushAll(t, {flush[t].kind}, buffer, [flushing EXCEPT ![flush[t].kind] = FALSE])
    <3>1. [flushing EXCEPT ![flush[t].kind] = FALSE] \in [Kinds -> BOOLEAN]
      BY <1>0 DEF BufferTypes
    <3>2. Placed(Flushers \ {t}, buffer)
      BY <1>a DEF RowsPlaced
    <3> QED
      BY <1>0, <2>1, <2>2, <3>1, <3>2, FlushAllPlaced DEF BufferTypes
  <2>3. CASE EndFlush(t, Capped(buffer[flush[t].kind]))
    <3>1. /\ RowsOf(Capped(buffer[flush[t].kind])) \subseteq RowsOf(buffer[flush[t].kind])
          /\ Distinct(Capped(buffer[flush[t].kind]))
          /\ Capped(buffer[flush[t].kind]) \in Seq(Row)
      BY <1>0, <2>1, RestoredTypes, RowsOfCapped DEF RowsPlaced, Placed
    <3> QED
      BY <1>0, <2>1, <2>3, <3>1, EndFlushPlaced
  <2> QED
    BY <1>2, <2>2, <2>3 DEF RunTask
<1>3. CASE PeriodicWake
  <2>1. Periodic \in Flushers /\ Placed(Flushers \ {Periodic}, buffer) /\ written' = written
    BY <1>3, <1>a DEF RowsPlaced, PeriodicWake, Flushers
  <2> QED
    BY <1>0, <1>3, <2>1, FlushAllPlaced DEF PeriodicWake, BufferTypes
<1>4. CASE CloseDrain
  <2>1. Closer \in Flushers /\ Placed(Flushers \ {Closer}, buffer) /\ written' = written
    BY <1>4, <1>a DEF RowsPlaced, CloseDrain, Flushers
  <2> QED
    BY <1>0, <1>4, <2>1, FlushAllPlaced DEF CloseDrain, BufferTypes
<1>5. ASSUME NEW f \in Flushers, FlushSucceeds(f)
      PROVE  RowsPlaced'
  <2>1. /\ Distinct(buffer[flush[f].kind]) /\ buffer[flush[f].kind] \in Seq(Row)
        /\ EndFlush(f, buffer[flush[f].kind]) /\ written' = written
    BY <1>0, <1>5, RestoredTypes DEF FlushSucceeds, RowsPlaced, Placed, BufferTypes, FlushState
  <2> QED
    BY <1>0, <2>1, EndFlushPlaced
<1>6. ASSUME NEW f \in Flushers, FlushRefused(f) \/ FlushFails(f) \/ AcquireAfterClose(f)
      PROVE  RowsPlaced'
  <2> DEFINE k == flush[f].kind
  <2>1. k \in Kinds /\ InFlight(f, k) /\ written' = written
    BY <1>0, <1>6
       DEF FlushRefused, FlushFails, AcquireAfterClose, InFlight, BufferTypes, FlushState
  <2>2. /\ Distinct(flush[f].batch) /\ Distinct(buffer[k])
        /\ RowsOf(flush[f].batch) \cap RowsOf(buffer[k]) = {}
    BY <2>1 DEF RowsPlaced, Placed
  <2>3. /\ RowsOf(RestoredUncapped(f)) = RowsOf(flush[f].batch) \cup RowsOf(buffer[k])
        /\ Distinct(RestoredUncapped(f))
    BY <1>0, <2>2, RestoredTypes, RowsOfConcat DEF RestoredUncapped
  <2>4. /\ RowsOf(RestoredCapped(f)) \subseteq RowsOf(flush[f].batch) \cup RowsOf(buffer[k])
        /\ Distinct(RestoredCapped(f))
    BY <1>0, <2>3, RestoredTypes, RowsOfCapped DEF RestoredCapped
  <2>5. CASE EndFlush(f, RestoredUncapped(f))
    BY <1>0, <2>1, <2>3, <2>5, RestoredTypes, EndFlushPlaced
  <2>6. CASE EndFlush(f, RestoredCapped(f))
    BY <1>0, <2>1, <2>4, <2>6, RestoredTypes, EndFlushPlaced
  <2> QED
    BY <1>6, <2>5, <2>6 DEF FlushRefused, FlushFails, AcquireAfterClose
<1>7. ASSUME NEW f \in Flushers, Acquire(f) \/ Commit(f)
      PROVE  RowsPlaced'
  <2>1. /\ \A g \in Flushers \ {f} : flush'[g] = flush[g]
        /\ flush'[f].kind = flush[f].kind /\ flush'[f].batch = flush[f].batch
        /\ flush[f].phase \in {"acquiring", "executing", "committed"}
        /\ buffer' = buffer /\ written' = written
    BY <1>0, <1>7 DEF Acquire, Commit, BufferTypes, FlushState
  <2>2. \A g \in Flushers, k \in Kinds :
           flush'[g].batch = flush[g].batch /\ (InFlight(g, k)' => InFlight(g, k))
    BY <2>1 DEF InFlight
  <2> QED
    BY <2>1, <2>2 DEF RowsPlaced, Placed
<1>8. CASE PeriodicCancelled
  <2>1. \A g \in Flushers, k \in Kinds : InFlight(g, k)' =>
           InFlight(g, k) /\ flush'[g].batch = flush[g].batch
    BY <1>0, <1>8 DEF PeriodicCancelled, InFlight, IdleFlush, BufferTypes
  <2>2. buffer' = buffer /\ written' = written
    BY <1>8 DEF PeriodicCancelled
  <2> QED
    BY <2>1, <2>2 DEF RowsPlaced, Placed
<1>9. CASE CloseBegin \/ ClosePool \/ UNCHANGED vars
  BY <1>9 DEF CloseBegin, ClosePool, vars, RowsPlaced, Placed, InFlight
<1> QED
  BY <1>1, <1>2, <1>3, <1>4, <1>5, <1>6, <1>7, <1>8, <1>9 DEF Next

\* Concurrent flushes of a buffer, their failures and the rows put back by
\* them never duplicate a row (_flush_velocity, _flush_displacement).
THEOREM RowsAtOnePlace == Spec => []NoRowTwice
<1>1. Init => RowsPlaced
  BY DEF Init, RowsPlaced, Placed, Distinct, RowsOf, InFlight, IdleFlush
<1>2. TypeOK /\ RowsPlaced /\ [Next]_vars => RowsPlaced'
  BY PlacedStep
<1>3. RowsPlaced => NoRowTwice
  BY DEF RowsPlaced, Placed, NoRowTwice
<1> QED
  BY <1>1, <1>2, <1>3, TypeInvariant, PTL DEF Spec


-----------------------------------------------------------------------------
(* Counting rows.                                                          *)

\* A sequence without repetitions has as many rows as places.
LEMMA CountOfRows ==
  ASSUME NEW s \in Seq(Row), Distinct(s)
  PROVE  IsFiniteSet(RowsOf(s)) /\ Cardinality(RowsOf(s)) = Len(s)
<1>1. Len(s) \in Nat /\ s \in [1..Len(s) -> RowsOf(s)]
  BY DEF RowsOf
<1>2. s \in Bijection(1..Len(s), RowsOf(s))
  BY <1>1 DEF Bijection, Injection, Surjection, IsInjective, Distinct, RowsOf
<1>3. ExistsBijection(1..Len(s), RowsOf(s))
  BY <1>2 DEF ExistsBijection
<1>4. IsFiniteSet(1..Len(s)) /\ Cardinality(1..Len(s)) = Len(s)
  BY <1>1, FS_Interval
<1> QED
  BY <1>3, <1>4, FS_Bijection

\* What is cut from a sequence that is too long leaves BufferMax rows.
LEMMA CappedIsFull ==
  ASSUME NEW s \in Seq(Row)
  PROVE  Capped(s) = s \/ Len(Capped(s)) = BufferMax
<1>1. CASE Len(s) <= BufferMax
  BY <1>1 DEF Capped
<1>2. CASE ~(Len(s) <= BufferMax)
  BY <1>2, SizeAssumption DEF Capped
<1> QED
  BY <1>1, <1>2

\* Dropping the oldest row of a buffer drops just that row.
LEMMA TailDropsHead ==
  ASSUME NEW s \in Seq(Row), s # <<>>, Distinct(s)
  PROVE  /\ s[1] \in RowsOf(s)
         /\ RowsOf(Tail(s)) = RowsOf(s) \ {s[1]}
<1>1. /\ Len(s) \in Nat /\ Len(s) > 0
      /\ Len(Tail(s)) = Len(s) - 1
      /\ \A i \in 1..Len(Tail(s)) : Tail(s)[i] = s[i + 1]
  BY TailOfBuffer
<1> DEFINE t == Tail(s)
<1> HIDE DEF t
<1>2. s[1] \in RowsOf(s)
  BY <1>1 DEF RowsOf
<1>3. ASSUME NEW r \in RowsOf(t)
      PROVE  r \in RowsOf(s) \ {s[1]}
  <2>1. PICK i \in 1..Len(t) : r = t[i]
    BY DEF RowsOf
  <2>2. r = s[i + 1] /\ i + 1 \in 1..Len(s) /\ i + 1 # 1
    BY <1>1, <2>1 DEF t
  <2> QED
    BY <1>1, <2>2 DEF RowsOf, Distinct
<1>4. ASSUME NEW r \in RowsOf(s) \ {s[1]}
      PROVE  r \in RowsOf(t)
  <2>1. PICK i \in 1..Len(s) : r = s[i]
    BY DEF RowsOf
  <2>2. i - 1 \in 1..Len(t) /\ t[i - 1] = s[i]
    BY <1>1, <2>1 DEF t
  <2> QED
    BY <2>1, <2>2 DEF RowsOf
<1> QED
  BY <1>2, <1>3, <1>4 DEF t

-----------------------------------------------------------------------------
(* The rows in memory.                                                     *)

\* The rows of kind k in buf and in the batches of the flushers fs.
HeldBy(fs, buf, k) ==
  RowsOf(buf[k]) \cup UNION {RowsOf(flush[g].batch) : g \in {h \in fs : InFlight(h, k)}}

\* The batches of kind k that flushers other than f have in flight.
OtherBatches(f, k) ==
  UNION {RowsOf(flush[g].batch) : g \in {h \in Flushers \ {f} : InFlight(h, k)}}

\* A row is held if it is in the buffer or in a batch under way.
LEMMA HeldMembers ==
  ASSUME NEW k \in Kinds, NEW r
  PROVE  r \in Held(k) <=> \/ r \in RowsOf(buffer[k])
                           \/ \E g \in Flushers : InFlight(g, k) /\ r \in RowsOf(flush[g].batch)
  BY DEF Held

\* A flusher that is not in flight holds nothing; one in flight holds its batch.
LEMMA HeldSplits ==
  ASSUME NEW f \in Flushers, NEW k \in Kinds
  PROVE  Held(k) = RowsOf(buffer[k]) \cup OtherBatches(f, k)
                     \cup (IF InFlight(f, k) THEN RowsOf(flush[f].batch) ELSE {})
  BY DEF Held, OtherBatches

\* Moving a buffer into a batch moves rows, it does not lose any.
LEMMA FlushAllHolds ==
  ASSUME NEW f \in Flushers, NEW kinds \in SUBSET Kinds,
         NEW buf \in [Kinds -> Seq(Row)], NEW flg \in [Kinds -> BOOLEAN],
         flush \in [Flushers -> FlushState],
         FlushAll(f, kinds, buf, flg), NEW k \in Kinds
  PROVE  Held(k)' = RowsOf(buf[k]) \cup OtherBatches(f, k)
<1>1. \A g \in Flushers \ {f} : flush'[g] = flush[g] /\ (InFlight(g, k)' <=> InFlight(g, k))
  BY FlushAllOthers DEF InFlight
<1>2. OtherBatches(f, k)' = OtherBatches(f, k)
  BY <1>1 DEF OtherBatches
<1>3. Held(k)' = RowsOf(buffer'[k]) \cup OtherBatches(f, k)
                   \cup (IF InFlight(f, k)' THEN RowsOf(flush'[f].batch) ELSE {})
  BY <1>2 DEF Held, OtherBatches
<1>4. CASE Stops(f, buf, flg)
  <2>1. ~InFlight(f, k)' /\ buffer' = buf
    BY <1>4 DEF Stops, InFlight, IdleFlush
  <2> QED
    BY <1>3, <2>1
<1>5. ASSUME NEW j \in kinds, Starts(f, j, buf, flg)
      PROVE  Held(k)' = RowsOf(buf[k]) \cup OtherBatches(f, k)
  <2>1. /\ InFlight(f, k)' <=> k = j
        /\ flush'[f].batch = buf[j]
        /\ buffer'[k] = IF k = j THEN <<>> ELSE buf[k]
    BY <1>5 DEF Starts, InFlight, Popped
  <2>2. RowsOf(<<>>) = {}
    BY DEF RowsOf
  <2> QED
    BY <1>3, <2>1, <2>2
<1> QED
  BY <1>4, <1>5, FlushAllShape

\* A flush that ends with its buffer holding rows changes what is held of its
\* own kind only.
LEMMA EndFlushHolds ==
  ASSUME NEW f \in Flushers, NEW rows \in Seq(Row), BufferTypes, EndFlush(f, rows),
         NEW k \in Kinds
  PROVE  Held(k)' = IF k = flush[f].kind THEN RowsOf(rows) \cup OtherBatches(f, k)
                                         ELSE Held(k)
<1> DEFINE kind == flush[f].kind
<1>1. PICK buf \in [Kinds -> Seq(Row)], flg \in [Kinds -> BOOLEAN],
           kinds \in SUBSET Kinds :
           /\ buf = [buffer EXCEPT ![kind] = rows]
           /\ FlushAll(f, kinds, buf, flg)
  BY EndFlushShape
<1>2. buf[k] = IF k = kind THEN rows ELSE buffer[k]
  BY <1>1 DEF BufferTypes
<1>3. Held(k)' = RowsOf(buf[k]) \cup OtherBatches(f, k)
  BY <1>1, FlushAllHolds DEF BufferTypes
<1>4. k # kind => Held(k) = RowsOf(buffer[k]) \cup OtherBatches(f, k)
  BY HeldSplits DEF InFlight
<1> QED
  BY <1>2, <1>3, <1>4

-----------------------------------------------------------------------------
(* What each action does to the rows in memory.                            *)

\* Everything in memory has been accepted, so there is finitely much of it.
LEMMA HeldIsFinite ==
  ASSUME TypeOK, RowsPlaced, NEW k \in Kinds
  PROVE  Held(k) \subseteq 1..written[k] /\ IsFiniteSet(Held(k))
<1>1. Held(k) \subseteq 1..written[k]
  BY DEF Held, RowsPlaced, Placed
<1>2. IsFiniteSet(1..written[k])
  BY FS_Interval DEF TypeOK
<1> QED
  BY <1>1, <1>2, FS_Subset

\* Waking, draining, acquiring, storing, being refused and closing lose nothing.
LEMMA HeldKept ==
  ASSUME TypeOK, CloserWaits, NEW k \in Kinds,
         \/ PeriodicWake
         \/ CloseDrain
         \/ \E t \in Tasks : RunTask(t) /\ PoolUsable
         \/ \E f \in Flushers : Acquire(f) \/ Commit(f) \/ FlushRefused(f)
         \/ CloseBegin
         \/ ClosePool
         \/ UNCHANGED vars
  PROVE  Held(k)' = Held(k)
<1>0. BufferTypes /\ flush \in [Flushers -> FlushState] /\ {Periodic, Closer} \subseteq Flushers
  BY DEF TypeOK, BufferTypes, Flushers
<1>1. CASE PeriodicWake
  <2>1. Held(k)' = RowsOf(buffer[k]) \cup OtherBatches(Periodic, k)
    BY <1>0, <1>1, FlushAllHolds DEF PeriodicWake, BufferTypes
  <2>2. ~InFlight(Periodic, k)
    BY <1>1 DEF PeriodicWake, Idle, InFlight
  <2> QED
    BY <1>0, <2>1, <2>2, HeldSplits
<1>2. CASE CloseDrain
  <2>1. Held(k)' = RowsOf(buffer[k]) \cup OtherBatches(Closer, k)
    BY <1>0, <1>2, FlushAllHolds DEF CloseDrain, BufferTypes
  <2>2. ~InFlight(Closer, k)
    BY <1>2 DEF CloseDrain, CloserWaits, Idle, InFlight
  <2> QED
    BY <1>0, <2>1, <2>2, HeldSplits
<1>3. ASSUME NEW t \in Tasks, RunTask(t), PoolUsable
      PROVE  Held(k)' = Held(k)
  <2>1. t \in Flushers /\ flush[t].kind \in Kinds
    BY <1>0 DEF Flushers, FlushState
  <2>2. FlushAll(t, {flush[t].kind}, buffer, [flushing EXCEPT ![flush[t].kind] = FALSE])
    BY <1>3 DEF RunTask
  <2>3. [flushing EXCEPT ![flush[t].kind] = FALSE] \in [Kinds -> BOOLEAN]
    BY <1>0 DEF BufferTypes
  <2>4. Held(k)' = RowsOf(buffer[k]) \cup OtherBatches(t, k)
    BY <1>0, <2>1, <2>2, <2>3, FlushAllHolds DEF BufferTypes
  <2>5. ~InFlight(t, k)
    BY <1>3 DEF RunTask, InFlight
  <2> QED
    BY <2>1, <2>4, <2>5, HeldSplits
<1>4. ASSUME NEW f \in Flushers, Acquire(f) \/ Commit(f)
      PROVE  Held(k)' = Held(k)
  <2>1. /\ buffer' = buffer
        /\ \A g \in Flushers \ {f} : flush'[g] = flush[g]
        /\ flush'[f].kind = flush[f].kind /\ flush'[f].batch = flush[f].batch
        /\ flush[f].phase \in {"acquiring", "executing", "committed"}
        /\ flush'[f].phase \in {"acquiring", "executing", "committed"}
    BY <1>0, <1>4 DEF Acquire, Commit, FlushState
  <2>2. \A g \in Flushers : /\ InFlight(g, k)' <=> InFlight(g, k)
                            /\ flush'[g].batch = flush[g].batch
    BY <2>1 DEF InFlight
  <2> QED
    BY <2>1, <2>2 DEF Held
<1>5. ASSUME NEW f \in Flushers, FlushRefused(f)
      PROVE  Held(k)' = Held(k)
  <2>1. Held(k)' = IF k = flush[f].kind THEN RowsOf(RestoredUncapped(f)) \cup OtherBatches(f, k)
                                        ELSE Held(k)
    BY <1>0, <1>5, RestoredTypes, EndFlushHolds DEF FlushRefused
  <2>2. InFlight(f, flush[f].kind)
    BY <1>5 DEF FlushRefused, InFlight
  <2>3. RowsOf(RestoredUncapped(f)) = RowsOf(flush[f].batch) \cup RowsOf(buffer[flush[f].kind])
    BY <1>0, RestoredTypes, RowsOfConcat DEF RestoredUncapped
  <2> QED
    BY <2>1, <2>2, <2>3, HeldSplits
<1>6. CASE CloseBegin \/ ClosePool \/ UNCHANGED vars
  BY <1>6 DEF CloseBegin, ClosePool, vars, Held, InFlight
<1> QED
  BY <1>1, <1>2, <1>3, <1>4, <1>5, <1>6

\* A write adds its row; a full buffer gives up its oldest row for it.
LEMMA WriteHolds ==
  ASSUME TypeOK, RowsPlaced, NEW k \in Kinds, Write(k)
  PROVE  /\ \A j \in Kinds \ {k} : Held(j)' = Held(j)
         /\ \E gone \in SUBSET Held(k) :
              /\ gone # {} => /\ Cardinality(gone) = 1
                              /\ Cardinality(Held(k)) >= BufferMax
                              /\ Overflows(k)
              /\ Held(k)' = (Held(k) \ gone) \cup {written[k] + 1}
<1> DEFINE kept == MaybeDropOldest(k)
           rows == Append(kept, NewRow(k))
           old == buffer[k]
<1>1. /\ buffer \in [Kinds -> Seq(Row)] /\ flush \in [Flushers -> FlushState]
      /\ old \in Seq(Row) /\ NewRow(k) \in Row /\ kept \in Seq(Row)
  BY MaybeDropOldestType DEF TypeOK, NewRow, Row
<1>2. Distinct(old)
  BY DEF RowsPlaced, Placed
<1>3. RowsOf(rows) = RowsOf(kept) \cup {written[k] + 1}
  <2> HIDE DEF kept
  <2> QED
    BY <1>1, RowsOfAppend DEF NewRow
<1>4. buffer' = [buffer EXCEPT ![k] = rows]
  BY <1>1 DEF Write
<1>5. \A g \in Flushers, j \in Kinds :
        /\ InFlight(g, j)' <=> InFlight(g, j)
        /\ InFlight(g, j) => flush'[g].batch = flush[g].batch
  <2>1. CASE UNCHANGED flush
    BY <2>1 DEF InFlight
  <2>2. ASSUME NEW t \in Tasks, Spawn(t, k)
        PROVE  \A g \in Flushers, j \in Kinds :
                 /\ InFlight(g, j)' <=> InFlight(g, j)
                 /\ InFlight(g, j) => flush'[g].batch = flush[g].batch
    BY <1>1, <2>2 DEF Spawn, Idle, InFlight, Flushers
  <2> QED
    BY <2>1, <2>2 DEF Write
<1> DEFINE Batches(j) == UNION {RowsOf(flush[g].batch) : g \in {h \in Flushers : InFlight(h, j)}}
<1>6. \A j \in Kinds : Batches(j)' = Batches(j)
  BY <1>5
<1>7. \A j \in Kinds : Held(j) = RowsOf(buffer[j]) \cup Batches(j)
  BY DEF Held
<1>8. \A j \in Kinds : Held(j)' = RowsOf(buffer'[j]) \cup Batches(j)
  BY <1>6 DEF Held
<1>9. RowsOf(old) \cap Batches(k) = {}
  BY DEF RowsPlaced, Placed
<1> HIDE DEF Batches, rows, kept, old
<1>10. \A j \in Kinds \ {k} : Held(j)' = Held(j)
  BY <1>1, <1>4, <1>7, <1>8
<1>11. Held(k)' = RowsOf(kept) \cup {written[k] + 1} \cup Batches(k)
  BY <1>1, <1>3, <1>4, <1>8
<1>12. CASE ~Overflows(k)
  <2>1. Held(k)' = (Held(k) \ {}) \cup {written[k] + 1}
    BY <1>7, <1>11, <1>12 DEF kept, MaybeDropOldest
  <2> QED
    BY <1>10, <2>1
<1>13. CASE Overflows(k)
  <2>1. Len(old) >= BufferMax /\ old # <<>> /\ kept = Tail(old)
    BY <1>1, <1>13, SizeAssumption DEF Overflows, MaybeDropOldest, old, kept
  <2>2. old[1] \in RowsOf(old) /\ RowsOf(kept) = RowsOf(old) \ {old[1]}
    BY <1>1, <1>2, <2>1, TailDropsHead
  <2>3. Held(k) = RowsOf(old) \cup Batches(k)
    BY <1>7 DEF old
  <2>4. Held(k)' = (Held(k) \ {old[1]}) \cup {written[k] + 1}
    BY <1>9, <1>11, <2>2, <2>3
  <2>5. {old[1]} \in SUBSET Held(k) /\ Cardinality({old[1]}) = 1
    BY <2>2, <2>3, FS_Singleton
  <2>6. Cardinality(Held(k)) >= BufferMax
    <3>1. /\ Cardinality(RowsOf(old)) = Len(old) /\ Len(old) \in Nat
          /\ RowsOf(old) \in SUBSET Held(k)
      BY <1>1, <1>2, <2>3, CountOfRows
    <3>2. IsFiniteSet(Held(k))
      BY HeldIsFinite
    <3>3. Cardinality(RowsOf(old)) <= Cardinality(Held(k)) /\ Cardinality(Held(k)) \in Nat
      BY <3>1, <3>2, FS_Subset, FS_CardinalityType
    <3> QED
      BY <2>1, <3>1, <3>3, SizeAssumption
  <2> QED
    BY <1>10, <1>13, <2>4, <2>5, <2>6
<1> QED
  BY <1>12, <1>13

\* A flush whose INSERT took effect has its rows in the database.
CommittedIsStored ==
  \A f \in Flushers : flush[f].phase = "committed" =>
     RowsOf(flush[f].batch) \subseteq stored[flush[f].kind]

\* A flush that returns lets go of stored rows only.
LEMMA SuccessHolds ==
  ASSUME TypeOK, CommittedIsStored, NEW f \in Flushers, FlushSucceeds(f),
         NEW k \in Kinds, k = flush[f].kind
  PROVE  /\ \A j \in Kinds \ {k} : Held(j)' = Held(j)
         /\ Held(k)' \subseteq Held(k)
         /\ Held(k) \ Held(k)' \subseteq stored[k]
<1>0. BufferTypes
  BY DEF TypeOK, BufferTypes
<1>1. \A j \in Kinds :
        Held(j)' = IF j = k THEN RowsOf(buffer[k]) \cup OtherBatches(f, j) ELSE Held(j)
  BY <1>0, RestoredTypes, EndFlushHolds DEF FlushSucceeds
<1>2. InFlight(f, k) /\ RowsOf(flush[f].batch) \subseteq stored[k]
  BY DEF FlushSucceeds, InFlight, CommittedIsStored
<1>3. Held(k) = RowsOf(buffer[k]) \cup OtherBatches(f, k) \cup RowsOf(flush[f].batch)
  BY <1>0, <1>2, HeldSplits
<1> QED
  BY <1>1, <1>2, <1>3

\* A flush that fails, or that finds the pool gone, gives up rows only when it
\* leaves a full buffer's worth of them in memory.
LEMMA CutHolds ==
  ASSUME TypeOK, RowsPlaced, NEW f \in Flushers,
         \/ FlushFails(f)
         \/ AcquireAfterClose(f)
         \/ f \in Tasks /\ RunTask(f) /\ ~PoolUsable,
         NEW k \in Kinds, k = flush[f].kind
  PROVE  /\ \A j \in Kinds \ {k} : Held(j)' = Held(j)
         /\ Held(k)' \subseteq Held(k)
         /\ Held(k)' = Held(k) \/ Cardinality(Held(k)') >= BufferMax
<1> DEFINE all == IF InFlight(f, k) THEN RestoredUncapped(f) ELSE buffer[k]
<1>0. BufferTypes
  BY DEF TypeOK, BufferTypes
<1>1. EndFlush(f, Capped(all))
  <2>1. CASE FlushFails(f) \/ AcquireAfterClose(f)
    BY <2>1 DEF FlushFails, AcquireAfterClose, InFlight, RestoredCapped
  <2>2. CASE f \in Tasks /\ RunTask(f) /\ ~PoolUsable
    BY <2>2 DEF RunTask, InFlight
  <2> QED
    BY <2>1, <2>2
<1>2. /\ all \in Seq(Row) /\ Distinct(all)
      /\ RowsOf(all) = RowsOf(buffer[k])
                         \cup (IF InFlight(f, k) THEN RowsOf(flush[f].batch) ELSE {})
  <2>1. Distinct(buffer[k])
    BY <1>0 DEF RowsPlaced, Placed
  <2>2. InFlight(f, k) => /\ Distinct(flush[f].batch)
                          /\ RowsOf(flush[f].batch) \cap RowsOf(buffer[k]) = {}
    BY <1>0 DEF RowsPlaced, Placed
  <2> QED
    BY <1>0, <2>1, <2>2, RestoredTypes, RowsOfConcat DEF RestoredUncapped
<1> HIDE DEF all
<1> DEFINE cut == Capped(all)
<1>3. cut \in Seq(Row) /\ RowsOf(cut) \subseteq RowsOf(all) /\ Distinct(cut)
  BY <1>2, CappedIsPrefix, RowsOfCapped
<1>4. cut = all \/ Len(cut) = BufferMax
  BY <1>2, CappedIsFull
<1> HIDE DEF cut
<1>5. \A j \in Kinds :
        Held(j)' = IF j = k THEN RowsOf(cut) \cup OtherBatches(f, j) ELSE Held(j)
  BY <1>0, <1>1, <1>3, EndFlushHolds DEF cut
<1>6. Held(k) = RowsOf(all) \cup OtherBatches(f, k)
  BY <1>0, <1>2, HeldSplits
<1>7. Held(k)' = RowsOf(cut) \cup OtherBatches(f, k)
  BY <1>5
<1>8. Held(k)' \subseteq Held(k)
  BY <1>3, <1>6, <1>7
<1>9. Held(k)' = Held(k) \/ Cardinality(Held(k)') >= BufferMax
  <2>1. CASE cut = all
    BY <1>6, <1>7, <2>1
  <2>2. CASE Len(cut) = BufferMax
    <3>1. IsFiniteSet(Held(k)')
      BY <1>0, <1>8, HeldIsFinite, FS_Subset
    <3>2. Cardinality(RowsOf(cut)) = BufferMax
      BY <1>3, <2>2, CountOfRows
    <3>3. RowsOf(cut) \in SUBSET Held(k)'
      BY <1>7
    <3> QED
      BY <3>1, <3>2, <3>3, FS_Subset
  <2> QED
    BY <1>4, <2>1, <2>2
<1> QED
  BY <1>5, <1>8, <1>9

\* The cancellation of the periodic task can only lose the batch it had out.
LEMMA CancelHolds ==
  ASSUME TypeOK, PeriodicCancelled, NEW k \in Kinds, k = flush[Periodic].kind
  PROVE  /\ \A j \in Kinds \ {k} : Held(j)' = Held(j)
         /\ Held(k)' \subseteq Held(k)
<1>1. /\ Periodic \in Flushers
      /\ buffer' = buffer
      /\ \A g \in Flushers \ {Periodic} : flush'[g] = flush[g]
      /\ flush'[Periodic] = IdleFlush
  BY DEF PeriodicCancelled, TypeOK, Flushers, FlushState
<1>2. \A j \in Kinds : OtherBatches(Periodic, j)' = OtherBatches(Periodic, j)
  BY <1>1 DEF OtherBatches, InFlight
<1>3. \A j \in Kinds : Held(j)' = RowsOf(buffer[j]) \cup OtherBatches(Periodic, j)
  <2> TAKE j \in Kinds
  <2>1. ~InFlight(Periodic, j)'
    BY <1>1 DEF InFlight, IdleFlush
  <2>2. Held(j)' = RowsOf(buffer'[j]) \cup OtherBatches(Periodic, j)'
    BY <1>1, <2>1 DEF Held, OtherBatches
  <2> QED
    BY <1>1, <1>2, <2>2
<1>4. \A j \in Kinds \ {k} : ~InFlight(Periodic, j)
  BY DEF InFlight
<1> QED
  BY <1>1, <1>3, <1>4, HeldSplits

-----------------------------------------------------------------------------
(* Committed rows are in the database.                                     *)

\* A step of FlushAll leaves no flush of its flusher committed.
LEMMA FlushAllCommits ==
  ASSUME NEW f \in Flushers, NEW kinds \in SUBSET Kinds,
         NEW buf \in [Kinds -> Seq(Row)], NEW flg \in [Kinds -> BOOLEAN],
         flush \in [Flushers -> FlushState],
         FlushAll(f, kinds, buf, flg), NEW g \in Flushers,
         flush'[g].phase = "committed"
  PROVE  flush'[g] = flush[g]
<1>1. CASE g # f
  BY <1>1, FlushAllOthers
<1>2. CASE g = f
  <2>1. ~Stops(f, buf, flg)
    BY <1>2 DEF Stops, IdleFlush
  <2>2. \A k \in kinds : ~Starts(f, k, buf, flg)
    BY <1>2 DEF Starts, Popped
  <2> QED
    BY <2>1, <2>2, FlushAllShape
<1> QED
  BY <1>1, <1>2

\* After the end of a flush, those that have committed are the ones that had before.
LEMMA EndFlushCommits ==
  ASSUME NEW f \in Flushers, NEW rows \in Seq(Row), BufferTypes, EndFlush(f, rows),
         NEW g \in Flushers, flush'[g].phase = "committed"
  PROVE  flush'[g] = flush[g]
<1>1. PICK buf \in [Kinds -> Seq(Row)], flg \in [Kinds -> BOOLEAN],
           kinds \in SUBSET Kinds : FlushAll(f, kinds, buf, flg)
  BY EndFlushShape
<1> QED
  BY <1>1, FlushAllCommits DEF BufferTypes

\* A batch that was committed stays stored.
LEMMA CommittedStep == TypeOK /\ CommittedIsStored /\ [Next]_vars => CommittedIsStored'
<1> SUFFICES ASSUME TypeOK, CommittedIsStored, [Next]_vars
             PROVE  CommittedIsStored'
  OBVIOUS
<1>0. /\ BufferTypes /\ flush \in [Flushers -> FlushState]
      /\ stored \in [Kinds -> SUBSET Row] /\ {Periodic, Closer} \cup Tasks = Flushers
  BY DEF TypeOK, BufferTypes, Flushers
<1>a. ASSUME stored' = stored,
             \A g \in Flushers : flush'[g].phase = "committed" => flush'[g] = flush[g]
      PROVE  CommittedIsStored'
  BY <1>a DEF CommittedIsStored
<1>1. ASSUME NEW k \in Kinds, Write(k)
      PROVE  CommittedIsStored'
  <2>1. ASSUME NEW g \in Flushers, flush'[g].phase = "committed"
        PROVE  flush'[g] = flush[g]
    BY <1>0, <1>1, <2>1 DEF Write, Spawn
  <2> QED
    BY <1>1, <1>a, <2>1 DEF Write
<1>2. ASSUME NEW t \in Tasks, RunTask(t)
      PROVE  CommittedIsStored'
  <2>1. t \in Flushers /\ flush[t].kind \in Kinds
    BY <1>0 DEF FlushState
  <2>2. [flushing EXCEPT ![flush[t].kind] = FALSE] \in [Kinds -> BOOLEAN]
    BY <1>0 DEF BufferTypes
  <2>3. ASSUME NEW g \in Flushers, flush'[g].phase = "committed"
        PROVE  flush'[g] = flush[g]
    <3>1. CASE FlushAll(t, {flush[t].kind}, buffer, [flushing EXCEPT ![flush[t].kind] = FALSE])
      BY <1>0, <2>1, <2>2, <2>3, <3>1, FlushAllCommits DEF BufferTypes
    <3>2. CASE EndFlush(t, Capped(buffer[flush[t].kind]))
      BY <1>0, <2>1, <2>3, <3>2, RestoredTypes, EndFlushCommits
    <3> QED
      BY <1>2, <3>1, <3>2 DEF RunTask
  <2> QED
    BY <1>2, <1>a, <2>3 DEF RunTask
<1>3. CASE PeriodicWake
  BY <1>0, <1>3, <1>a, FlushAllCommits DEF PeriodicWake, BufferTypes
<1>4. CASE CloseDrain
  BY <1>0, <1>4, <1>a, FlushAllCommits DEF CloseDrain, BufferTypes
<1>5. ASSUME NEW f \in Flushers,
             FlushSucceeds(f) \/ FlushRefused(f) \/ FlushFails(f) \/ AcquireAfterClose(f)
      PROVE  CommittedIsStored'
  BY <1>0, <1>5, <1>a, RestoredTypes, EndFlushCommits
     DEF FlushSucceeds, FlushRefused, FlushFails, AcquireAfterClose
<1>6. ASSUME NEW f \in Flushers, Acquire(f)
      PROVE  CommittedIsStored'
  BY <1>0, <1>6, <1>a DEF Acquire
<1>7. ASSUME NEW f \in Flushers, Commit(f)
      PROVE  CommittedIsStored'
  <2>1. /\ \A g \in Flushers \ {f} : flush'[g] = flush[g]
        /\ flush'[f].kind = flush[f].kind /\ flush'[f].batch = flush[f].batch
        /\ flush[f].kind \in Kinds
    BY <1>0, <1>7 DEF Commit, FlushState
  <2>2. /\ \A k \in Kinds : stored[k] \subseteq stored'[k]
        /\ RowsOf(flush[f].batch) \subseteq stored'[flush[f].kind]
    BY <1>0, <1>7, <2>1 DEF Commit, RowsOf
  <2>3. ASSUME NEW g \in Flushers, flush'[g].phase = "committed"
        PROVE  RowsOf(flush'[g].batch) \subseteq stored'[flush'[g].kind]
    <3>1. CASE g = f
      BY <2>1, <2>2, <3>1
    <3>2. CASE g # f
      <4>1. flush[g].kind \in Kinds
        BY <1>0 DEF FlushState
      <4> QED
        BY <2>1, <2>2, <2>3, <3>2, <4>1 DEF CommittedIsStored
    <3> QED
      BY <3>1, <3>2
  <2> QED
    BY <2>3 DEF CommittedIsStored
<1>8. CASE PeriodicCancelled
  BY <1>0, <1>8, <1>a DEF PeriodicCancelled, IdleFlush
<1>9. CASE CloseBegin \/ ClosePool \/ UNCHANGED vars
  BY <1>9, <1>a DEF CloseBegin, ClosePool, vars
<1> QED
  BY <1>1, <1>2, <1>3, <1>4, <1>5, <1>6, <1>7, <1>8, <1>9 DEF Next

\* The inductive invariant of both theorems.
LedgerInv == TypeOK /\ CloserWaits /\ RowsPlaced /\ CommittedIsStored

\* The inductive invariant of the refinement always holds.
LEMMA LedgerInvariant == Spec => []LedgerInv
<1>1. Init => RowsPlaced /\ CommittedIsStored
  BY DEF Init, RowsPlaced, Placed, Distinct, RowsOf, InFlight, IdleFlush, CommittedIsStored
<1> QED
  BY <1>1, PlacedStep, CommittedStep, TypeInvariant, CloserWaitsInvariant, PTL
     DEF Spec, LedgerInv

-----------------------------------------------------------------------------
(* The adapter implements the ledger.                                      *)

\* What the ledger sees of the rows in memory.
HeldRows == [k \in Kinds |-> Held(k)]

\* The ledger counts rows as this module does.
LEMMA SameCount == \A S : Ledger!Cardinality(S) = Cardinality(S)
  BY DEF Ledger!Cardinality, Cardinality

\* A step that only takes rows of one kind out of memory.
LEMMA HeldRowsShrink ==
  ASSUME NEW k \in Kinds, \A j \in Kinds \ {k} : Held(j)' = Held(j),
         Held(k)' \subseteq Held(k)
  PROVE  HeldRows' = [HeldRows EXCEPT ![k] = @ \ (Held(k) \ Held(k)')]
<1>1. Held(k)' = Held(k) \ (Held(k) \ Held(k)')
  OBVIOUS
<1>2. \A j \in Kinds : HeldRows'[j] = Held(j)' /\ HeldRows[j] = Held(j)
  BY DEF HeldRows
<1>3. DOMAIN HeldRows = Kinds /\ DOMAIN HeldRows' = Kinds
  BY DEF HeldRows
<1> QED
  BY <1>1, <1>2, <1>3 DEF HeldRows

\* Every step of the adapter is a step of the ledger, or changes nothing it sees.
LEMMA LedgerStep == LedgerInv /\ [Next]_vars => [Ledger!Next]_(Ledger!vars)
<1> SUFFICES ASSUME LedgerInv, [Next]_vars
             PROVE  Ledger!Next \/ UNCHANGED Ledger!vars
  OBVIOUS
<1>0. /\ TypeOK /\ CloserWaits /\ RowsPlaced /\ CommittedIsStored
      /\ flush \in [Flushers -> FlushState]
      /\ written \in [Kinds -> Nat] /\ stored \in [Kinds -> SUBSET Row]
  BY DEF LedgerInv, TypeOK
<1>a. \A f \in Flushers : flush[f].kind \in Kinds
  BY <1>0 DEF FlushState
<1>b. ASSUME \A k \in Kinds : Held(k)' = Held(k), written' = written, stored' = stored,
             (closer' # "open") = (closer # "open")
      PROVE  UNCHANGED Ledger!vars
  BY <1>b DEF Ledger!vars
<1>1. ASSUME NEW k \in Kinds, Write(k)
      PROVE  Ledger!Accept(k)
  <2>1. PICK gone \in SUBSET Held(k) :
          /\ gone # {} => Cardinality(gone) = 1 /\ Cardinality(Held(k)) >= BufferMax
          /\ Held(k)' = (Held(k) \ gone) \cup {written[k] + 1}
    BY <1>0, <1>1, WriteHolds
  <2>2. HeldRows' = [HeldRows EXCEPT ![k] = (@ \ gone) \cup {written[k] + 1}]
    <3>1. \A j \in Kinds \ {k} : Held(j)' = Held(j)
      BY <1>0, <1>1, WriteHolds
    <3> QED
      BY <2>1, <3>1 DEF HeldRows
  <2>3. /\ written' = [written EXCEPT ![k] = @ + 1]
        /\ stored' = stored /\ closer' = closer
    BY <1>1 DEF Write
  <2>4. HeldRows[k] = Held(k)
    BY DEF HeldRows
  <2> QED
    BY <2>1, <2>2, <2>3, <2>4, SameCount DEF Ledger!Accept, HeldRows
<1>2. ASSUME NEW f \in Flushers, Commit(f)
      PROVE  \E k \in Kinds : Ledger!Store(k)
  <2> DEFINE k == flush[f].kind
             rows == RowsOf(flush[f].batch)
  <2>1. k \in Kinds /\ InFlight(f, k)
    BY <1>2, <1>a DEF Commit, InFlight
  <2>2. rows \in SUBSET HeldRows[k]
    BY <2>1, HeldSplits DEF HeldRows
  <2>3. \A j \in Kinds : Held(j)' = Held(j)
    BY <1>0, <1>2, HeldKept
  <2>4. HeldRows' = HeldRows
    BY <2>3 DEF HeldRows
  <2>5. /\ stored' = [stored EXCEPT ![k] = @ \cup rows]
        /\ written' = written /\ closer' = closer
    BY <1>2 DEF Commit, RowsOf
  <2> QED
    BY <2>1, <2>2, <2>4, <2>5 DEF Ledger!Store, HeldRows
<1>3. ASSUME NEW f \in Flushers, FlushSucceeds(f)
      PROVE  \E k \in Kinds : Ledger!Release(k)
  <2>1. PICK k \in Kinds : k = flush[f].kind
    BY <1>a
  <2> DEFINE rows == Held(k) \ Held(k)'
  <2>2. rows \in SUBSET (HeldRows[k] \cap stored[k])
    BY <1>0, <1>3, <2>1, SuccessHolds DEF HeldRows
  <2>3. HeldRows' = [HeldRows EXCEPT ![k] = @ \ rows]
    BY <1>0, <1>3, <2>1, SuccessHolds, HeldRowsShrink
  <2>4. written' = written /\ stored' = stored /\ closer' = closer
    BY <1>3 DEF FlushSucceeds
  <2> QED
    BY <2>2, <2>3, <2>4 DEF Ledger!Release, HeldRows
<1>4. ASSUME NEW f \in Flushers,
             FlushFails(f) \/ AcquireAfterClose(f) \/ (f \in Tasks /\ RunTask(f) /\ ~PoolUsable)
      PROVE  (\E k \in Kinds : Ledger!Overflow(k)) \/ UNCHANGED Ledger!vars
  <2>1. PICK k \in Kinds : k = flush[f].kind
    BY <1>a
  <2>2. /\ \A j \in Kinds \ {k} : Held(j)' = Held(j)
        /\ Held(k)' \subseteq Held(k)
        /\ Held(k)' = Held(k) \/ Cardinality(Held(k)') >= BufferMax
    BY <1>0, <1>4, <2>1, CutHolds
  <2>3. written' = written /\ stored' = stored /\ closer' = closer
    BY <1>4 DEF FlushFails, AcquireAfterClose, RunTask
  <2>4. CASE Held(k)' = Held(k)
    BY <1>b, <2>2, <2>3, <2>4
  <2>5. CASE Cardinality(Held(k)') >= BufferMax
    <3> DEFINE rows == Held(k) \ Held(k)'
    <3>1. /\ rows \in SUBSET HeldRows[k]
          /\ HeldRows[k] \ rows = Held(k)'
      BY <2>2 DEF HeldRows
    <3>2. HeldRows' = [HeldRows EXCEPT ![k] = @ \ rows]
      BY <2>2, HeldRowsShrink
    <3>3. Ledger!Cardinality(HeldRows[k] \ rows) >= BufferMax
      BY <2>5, <3>1, SameCount
    <3> HIDE DEF rows
    <3>4. Ledger!Overflow(k)
      BY <2>3, <3>1, <3>2, <3>3 DEF Ledger!Overflow, HeldRows
    <3> QED
      BY <3>4
  <2> QED
    BY <2>2, <2>4, <2>5
<1>5. CASE PeriodicCancelled
  <2>1. PICK k \in Kinds : k = flush[Periodic].kind
    BY <1>a DEF Flushers
  <2> DEFINE rows == Held(k) \ Held(k)'
  <2>2. rows \in SUBSET HeldRows[k]
    BY DEF HeldRows
  <2>3. HeldRows' = [HeldRows EXCEPT ![k] = @ \ rows]
    BY <1>0, <1>5, <2>1, CancelHolds, HeldRowsShrink
  <2>4. /\ written' = written /\ stored' = stored
        /\ closer # "open" /\ closer' # "open"
    BY <1>5 DEF PeriodicCancelled
  <2>5. Ledger!Abandon(k)
    BY <2>2, <2>3, <2>4 DEF Ledger!Abandon, HeldRows
  <2> QED
    BY <2>5 DEF Ledger!Next
<1>6. CASE CloseBegin
  <2>1. \A k \in Kinds : Held(k)' = Held(k)
    BY <1>0, <1>6, HeldKept
  <2>2. HeldRows' = HeldRows
    BY <2>1 DEF HeldRows
  <2>3. written' = written /\ stored' = stored /\ closer' # "open"
    BY <1>6 DEF CloseBegin
  <2>4. Ledger!BeginClosing
    BY <2>2, <2>3 DEF Ledger!BeginClosing, HeldRows
  <2> QED
    BY <2>4 DEF Ledger!Next
<1>7. CASE \/ PeriodicWake
           \/ CloseDrain
           \/ \E t \in Tasks : RunTask(t) /\ PoolUsable
           \/ \E f \in Flushers : Acquire(f) \/ FlushRefused(f)
           \/ ClosePool
           \/ UNCHANGED vars
  <2>1. \A k \in Kinds : Held(k)' = Held(k)
    BY <1>0, <1>7, HeldKept
  <2>2. /\ written' = written /\ stored' = stored
        /\ (closer' # "open") = (closer # "open")
    BY <1>7 DEF PeriodicWake, CloseDrain, RunTask, Acquire, FlushRefused, ClosePool, vars
  <2> QED
    BY <1>b, <2>1, <2>2
<1>8. ASSUME NEW t \in Tasks, RunTask(t), ~PoolUsable
      PROVE  (\E k \in Kinds : Ledger!Overflow(k)) \/ UNCHANGED Ledger!vars
  BY <1>4, <1>8 DEF Flushers
<1> QED
  BY <1>1, <1>2, <1>3, <1>4, <1>5, <1>6, <1>7, <1>8 DEF Next, Ledger!Next

\* The output adapter keeps the promise of a write-behind sink for every row:
\* whatever flushes overlap, fail, are refused or are cancelled, a row leaves
\* memory unstored only above buffer_max_size or during close().
THEOREM AdapterIsALedger == Spec => ImplementsLedger
<1>1. Init => Ledger!Init
  BY DEF Init, Ledger!Init, Held, RowsOf, InFlight, IdleFlush
<1> QED
  BY <1>1, LedgerStep, LedgerInvariant, PTL DEF Spec, ImplementsLedger, Ledger!Spec

-----------------------------------------------------------------------------
(* Refused connections cost no row that is not counted.                    *)

\* A row that is not lost before a step is not lost after it, when every row
\* the step lets go of is stored.
LEMMA LostKept ==
  ASSUME NEW k \in Kinds, written' = written, Held(k) \ Held(k)' \subseteq stored[k],
         stored[k] \subseteq stored'[k]
  PROVE  Lost(k)' \subseteq Lost(k)
  BY DEF Lost

\* The count of lost rows, from what a step adds to them.
LEMMA LostCount ==
  ASSUME TypeOK, NEW k \in Kinds
  PROVE  /\ IsFiniteSet(Lost(k)) /\ Cardinality(Lost(k)) \in Nat
         /\ Lost(k)' \subseteq Lost(k) => Cardinality(Lost(k)') <= Cardinality(Lost(k))
         /\ \A r : Lost(k)' \subseteq Lost(k) \cup {r} =>
              Cardinality(Lost(k)') <= Cardinality(Lost(k)) + 1
<1>1. IsFiniteSet(1..written[k]) /\ Lost(k) \in SUBSET (1..written[k])
  BY FS_Interval DEF TypeOK, Lost
<1>2. IsFiniteSet(Lost(k)) /\ Cardinality(Lost(k)) \in Nat
  BY <1>1, FS_Subset, FS_CardinalityType
<1>3. Lost(k)' \subseteq Lost(k) => Cardinality(Lost(k)') <= Cardinality(Lost(k))
  BY <1>2, FS_Subset
<1>4. ASSUME NEW r, Lost(k)' \subseteq Lost(k) \cup {r}
      PROVE  Cardinality(Lost(k)') <= Cardinality(Lost(k)) + 1
  <2> DEFINE more == Lost(k) \cup {r}
  <2>1. /\ IsFiniteSet(more)
        /\ Cardinality(more) = Cardinality(Lost(k)) \/ Cardinality(more) = Cardinality(Lost(k)) + 1
    BY <1>2, FS_AddElement
  <2>2. IsFiniteSet(Lost(k)') /\ Cardinality(Lost(k)') <= Cardinality(more)
    BY <1>4, <2>1, FS_Subset
  <2>3. Cardinality(Lost(k)') \in Nat
    BY <2>2, FS_CardinalityType
  <2> HIDE DEF more
  <2> QED
    BY <1>2, <2>1, <2>2, <2>3
<1> QED
  BY <1>2, <1>3, <1>4

\* The situation the property is about, and the steps that stay in it.
OnlyRefusals == faults["otherError"] = 0 /\ closer \in {"open", "cancelling"}

\* If only connections have been refused by now, no more had happened before.
LEMMA OnlyRefusalsBefore ==
  ASSUME TypeOK, [Next]_vars, OnlyRefusals'
  PROVE  OnlyRefusals /\ PoolUsable
<1>1. faults["otherError"] \in Nat /\ faults'["otherError"] >= faults["otherError"]
  BY FaultsGrow DEF TypeOK, FaultKinds
<1>2. closer \in {"open", "cancelling"}
  BY DEF Next, vars, OnlyRefusals, Write, RunTask, PeriodicWake, Acquire, Commit,
         FlushSucceeds, FlushRefused, FlushFails, AcquireAfterClose, CloseBegin,
         PeriodicCancelled, CloseDrain, ClosePool
<1> QED
  BY <1>1, <1>2 DEF OnlyRefusals, PoolUsable

\* While connections are only refused and close() has not cancelled the periodic
\* task, every row neither stored nor held is in the drop counter
\* (_maybe_drop_oldest): a refused batch goes back whole, and the only loss is
\* the oldest row of a full buffer.
THEOREM EveryLossIsCounted == Spec => []LossIsCounted
<1>1. Init => LossIsCounted
  <2> SUFFICES ASSUME Init, NEW k \in Kinds
               PROVE  Cardinality(Lost(k)) <= dropped[k]
    BY DEF LossIsCounted
  <2>1. Lost(k) = {} /\ dropped[k] = 0
    BY DEF Init, Lost
  <2> QED
    BY <2>1, FS_EmptySet
<1>2. LedgerInv /\ LossIsCounted /\ [Next]_vars => LossIsCounted'
  <2> SUFFICES ASSUME LedgerInv, LossIsCounted, [Next]_vars, OnlyRefusals', NEW k \in Kinds
               PROVE  Cardinality(Lost(k)') <= dropped'[k]
    BY DEF LossIsCounted, OnlyRefusals
  <2>0. /\ TypeOK /\ CloserWaits /\ RowsPlaced /\ CommittedIsStored
        /\ stored \in [Kinds -> SUBSET Row] /\ dropped[k] \in Nat
        /\ flush \in [Flushers -> FlushState]
    BY DEF LedgerInv, TypeOK
  <2>1. OnlyRefusals /\ PoolUsable
    BY <2>0, OnlyRefusalsBefore
  <2>2. Cardinality(Lost(k)) <= dropped[k] /\ Cardinality(Lost(k)) \in Nat
    BY <2>0, <2>1, LostCount DEF LossIsCounted, OnlyRefusals
  <2>a. ASSUME Lost(k)' \subseteq Lost(k), dropped' = dropped
        PROVE  Cardinality(Lost(k)') <= dropped'[k]
    <3>1. /\ Cardinality(Lost(k)') <= Cardinality(Lost(k))
          /\ IsFiniteSet(Lost(k)')
      BY <2>0, <2>a, LostCount, FS_Subset
    <3>2. Cardinality(Lost(k)') \in Nat
      BY <3>1, FS_CardinalityType
    <3> QED
      BY <2>0, <2>2, <2>a, <3>1, <3>2
  <2>3. ASSUME NEW j \in Kinds, Write(j)
        PROVE  Cardinality(Lost(k)') <= dropped'[k]
    <3>1. /\ written \in [Kinds -> Nat] /\ dropped \in [Kinds -> Nat]
          /\ written' = [written EXCEPT ![j] = @ + 1] /\ stored' = stored
          /\ dropped' = [dropped EXCEPT ![j] = IF Overflows(j) THEN @ + 1 ELSE @]
      BY <2>0, <2>3 DEF Write, TypeOK
    <3>2. CASE k # j
      <4>1. Held(k)' = Held(k)
        BY <2>0, <2>3, <3>2, WriteHolds
      <4>2. written'[k] = written[k] /\ dropped'[k] = dropped[k]
        BY <3>1, <3>2
      <4>3. Lost(k)' = Lost(k)
        BY <3>1, <4>1, <4>2 DEF Lost
      <4> QED
        BY <2>2, <4>2, <4>3
    <3>3. CASE k = j
      <4>1. PICK gone \in SUBSET Held(k) :
              /\ gone # {} => Cardinality(gone) = 1 /\ Overflows(k)
              /\ Held(k)' = (Held(k) \ gone) \cup {written[k] + 1}
        BY <2>0, <2>3, <3>3, WriteHolds
      <4>2. written'[k] = written[k] + 1 /\ written[k] \in Nat
        BY <3>1, <3>3
      <4>3. 1..(written[k] + 1) = (1..written[k]) \cup {written[k] + 1}
        BY <4>2
      <4>4. Lost(k)' \subseteq Lost(k) \cup gone
        BY <3>1, <4>1, <4>2, <4>3 DEF Lost
      <4>5. CASE gone = {}
        <5>1. Lost(k)' \subseteq Lost(k)
          BY <4>4, <4>5
        <5>2. Cardinality(Lost(k)') <= Cardinality(Lost(k)) /\ IsFiniteSet(Lost(k)')
          BY <2>0, <5>1, LostCount, FS_Subset
        <5>3. Cardinality(Lost(k)') \in Nat
          BY <5>2, FS_CardinalityType
        <5>4. dropped'[k] >= dropped[k] /\ dropped'[k] \in Nat
          BY <2>0, <3>1, <3>3
        <5> QED
          BY <2>0, <2>2, <5>2, <5>3, <5>4
      <4>6. CASE gone # {}
        <5>1. IsFiniteSet(gone)
          BY <2>0, HeldIsFinite, FS_Subset
        <5>2. PICK r : gone = {r}
          BY <4>1, <4>6, <5>1, FS_Singleton
        <5>3. Cardinality(Lost(k)') <= Cardinality(Lost(k)) + 1
          BY <2>0, <4>4, <5>2, LostCount
        <5>4. IsFiniteSet(Lost(k)')
          BY <2>0, <4>4, <5>2, LostCount, FS_AddElement, FS_Subset
        <5>5. Cardinality(Lost(k)') \in Nat
          BY <5>4, FS_CardinalityType
        <5>6. dropped'[k] = dropped[k] + 1
          BY <3>1, <3>3, <4>1, <4>6
        <5> QED
          BY <2>0, <2>2, <5>3, <5>5, <5>6
      <4> QED
        BY <4>5, <4>6
    <3> QED
      BY <3>2, <3>3
  <2>4. ASSUME NEW f \in Flushers, Commit(f)
        PROVE  Cardinality(Lost(k)') <= dropped'[k]
    <3>1. Held(k)' = Held(k)
      BY <2>0, <2>4, HeldKept
    <3>2. written' = written /\ dropped' = dropped /\ stored[k] \subseteq stored'[k]
      BY <2>0, <2>4 DEF Commit
    <3> QED
      BY <2>a, <3>1, <3>2, LostKept
  <2>5. ASSUME NEW f \in Flushers, FlushSucceeds(f)
        PROVE  Cardinality(Lost(k)') <= dropped'[k]
    <3>1. PICK j \in Kinds : j = flush[f].kind
      BY <2>0 DEF FlushState
    <3>2. Held(k) \ Held(k)' \subseteq stored[k]
      BY <2>0, <2>5, <3>1, SuccessHolds
    <3>3. written' = written /\ dropped' = dropped /\ stored' = stored
      BY <2>5 DEF FlushSucceeds
    <3> QED
      BY <2>a, <3>2, <3>3, LostKept
  <2>6. ASSUME NEW f \in Flushers, FlushFails(f)
        PROVE  FALSE
    <3>1. faults'["otherError"] = faults["otherError"] + 1 /\ faults["otherError"] \in Nat
      BY <2>0, <2>6, FaultCounts DEF FlushFails, TypeOK, FaultKinds
    <3> QED
      BY <3>1 DEF OnlyRefusals
  <2>7. ASSUME (\E f \in Flushers : AcquireAfterClose(f)) \/ PeriodicCancelled
        PROVE  FALSE
    BY <2>1, <2>7 DEF AcquireAfterClose, PeriodicCancelled, OnlyRefusals
  <2>8. CASE \/ PeriodicWake
             \/ CloseDrain
             \/ \E t \in Tasks : RunTask(t)
             \/ \E f \in Flushers : Acquire(f) \/ FlushRefused(f)
             \/ CloseBegin
             \/ ClosePool
             \/ UNCHANGED vars
    <3>1. Held(k)' = Held(k)
      BY <2>0, <2>1, <2>8, HeldKept
    <3>2. written' = written /\ dropped' = dropped /\ stored' = stored
      BY <2>8 DEF PeriodicWake, CloseDrain, RunTask, Acquire, FlushRefused, CloseBegin,
                  ClosePool, vars
    <3> QED
      BY <2>a, <3>1, <3>2, LostKept
  <2> QED
    BY <2>3, <2>4, <2>5, <2>6, <2>7, <2>8 DEF Next
<1> QED
  BY <1>1, <1>2, LedgerInvariant, PTL DEF Spec

=============================================================================
