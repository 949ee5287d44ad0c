--------------------------- MODULE StationProofs ---------------------------
(***************************************************************************)
(* Proofs about StationService.                                            *)
(* CasterIsSpared is inductive with the types.  DeliveryInvariant needs    *)
(* four strengthenings, each inductive with TypeOK:                        *)
(*   LiveInv    a live connection carries a header and then what the       *)
(*              caster made between two clocks; what is owed is ahead of   *)
(*              the first or sent whole between them;                      *)
(*   ReplayInv  the lines read are ahead or pending, the end of the files  *)
(*              comes behind all of them;                                  *)
(*   PlotInv    a sentence in the plotter's hands is in the database;      *)
(*   PaceInv    the strategy's stamp is whole days away from true time.    *)
(***************************************************************************)
EXTENDS StationService, FiniteSetTheorems, TLAPS

\* ---- sequences

\* A sequence falls into its first e elements and what comes after them.
LEMMA Cut ==
  ASSUME NEW R, NEW s \in Seq(R), NEW e \in 0..Len(s)
  PROVE  /\ SubSeq(s, 1, e) \in Seq(R) /\ Len(SubSeq(s, 1, e)) = e
         /\ \A i \in 1..e : SubSeq(s, 1, e)[i] = s[i]
         /\ After(s, e) \in Seq(R) /\ Len(After(s, e)) = Len(s) - e
         /\ \A i \in 1..(Len(s) - e) : After(s, e)[i] = s[e + i]
  BY DEF After

\* Length and elements of two sequences put together.
LEMMA Joined ==
  ASSUME NEW R, NEW s \in Seq(R), NEW t \in Seq(R)
  PROVE  /\ s \o t \in Seq(R) /\ Len(s \o t) = Len(s) + Len(t)
         /\ \A i \in 1..Len(s) : (s \o t)[i] = s[i]
         /\ \A i \in 1..Len(t) : (s \o t)[Len(s) + i] = t[i]
  OBVIOUS

\* The first element and the rest of a sequence that is not empty.
LEMMA HeadAndRest ==
  ASSUME NEW R, NEW s \in Seq(R), s # <<>>
  PROVE  /\ Len(s) >= 1 /\ s[1] \in R
         /\ Tail(s) \in Seq(R) /\ Len(Tail(s)) = Len(s) - 1
         /\ \A i \in 1..(Len(s) - 1) : Tail(s)[i] = s[i + 1]
  OBVIOUS

\* An appended element comes last.
LEMMA Appended ==
  ASSUME NEW R, NEW s \in Seq(R), NEW x \in R
  PROVE  /\ Append(s, x) \in Seq(R) /\ Len(Append(s, x)) = Len(s) + 1
         /\ \A i \in 1..Len(s) : Append(s, x)[i] = s[i]
         /\ Append(s, x)[Len(s) + 1] = x
  OBVIOUS

\* ---- the types

\* The constants in their ranges.
LEMMA Ranges ==
  /\ Len(Sentence) \in Nat /\ \A n \in Numbers : Sentence[n] \in SentenceKinds /\ n \in Nat
  /\ QueueSize \in Nat /\ ReadSize \in Nat /\ BufferLimit \in Nat /\ HeaderLimit \in Nat
  /\ QueueSize > 0 /\ HeaderLimit > 0 /\ ReadSize > 0 /\ BufferLimit > 0
  /\ BackoffBase \in Nat /\ BackoffBase > 0 /\ BackoffMax \in Nat /\ BackoffBase <= BackoffMax
  /\ MaxFaults \in Nat /\ HalfDay \in Nat /\ Gaps \subseteq Int /\ MaxPause <= HalfDay
  /\ \A g \in Gaps : MaxPause - Day <= g /\ g < Day
  /\ Day \in Nat /\ Day > 0 /\ MaxPause \in Nat
<1>1. Sentence \in Seq(SentenceKinds)
  BY SourceAssumption
<1>2. \A x \in {QueueSize, ReadSize, BufferLimit, HeaderLimit} : x \in Nat /\ x > 0
  BY LimitAssumption
<1>4. HalfDay \in Nat \ {0} /\ MaxPause \in Nat /\ MaxPause <= HalfDay /\ Day \in Nat /\ Day > 0
  BY PaceAssumption DEF Day
<1>5. \A g \in Gaps : g \in Int /\ MaxPause - Day <= g /\ g < Day
  BY <1>4, PaceAssumption
<1>3. \A n \in Numbers : Sentence[n] \in SentenceKinds /\ n \in Nat
  BY <1>1 DEF Numbers
<1> QED
  BY <1>1, <1>2, <1>3, <1>4, <1>5, LimitAssumption

\* What the caster says next is a fragment.
LEMMA FragmentTypes ==
  ASSUME NEW c \in 0..(2 * Len(Sentence) - 1)
  PROVE  FragmentAt(c) \in Fragments
<1>1. c \div 2 + 1 \in Numbers
  BY Ranges DEF Numbers
<1> QED
  BY <1>1 DEF FragmentAt, Fragments

\* The sentence of a sound line is one of those that are sent.
LEMMA SoundNumber ==
  ASSUME NEW x \in Seq(Fragments), x # EndOfFiles, Sound(x)
  PROVE  x[1][1] \in Numbers /\ x = Whole(x[1][1]) /\ x[1][1] \in SoundNumbers
<1>1. x[1] \in Fragments /\ x[1][2] = 1
  BY DEF EndOfFiles, Sound, KindOf
<1>2. x[1][1] \in Numbers
  BY <1>1 DEF Fragments
<1>3. x = Whole(x[1][1])
  BY DEF Sound, KindOf
<1> QED
  BY <1>2, <1>3 DEF SoundNumbers

\* The header lines and the blank line are fragments.
LEMMA LinesAreTyped ==
  /\ \A r \in Replies : Headers(r) \in Seq(Fragments)
  /\ \A n \in Numbers : Whole(n) \in Seq(Fragments)
  /\ EndOfFiles \in Seq(Fragments)
<1>1. <<0, 2>> \in Fragments /\ <<0, 0>> \in Fragments
  BY DEF Fragments
<1>2. \A f, g \in Fragments : <<f, g>> \in Seq(Fragments) /\ <<f>> \in Seq(Fragments)
  OBVIOUS
<1>3. ASSUME NEW r \in Replies
      PROVE  Headers(r) \in Seq(Fragments)
  <2>1. <<<<0, 2>>, <<0, 0>>>> \in Seq(Fragments) /\ <<<<0, 2>>>> \in Seq(Fragments) /\ <<>> \in Seq(Fragments)
    BY <1>1, <1>2
  <2>2. Headers(r) \in {<<<<0, 2>>, <<0, 0>>>>, <<<<0, 2>>>>, <<>>}
    BY DEF Headers
  <2> QED
    BY <2>1, <2>2
<1>4. \A n \in Numbers : <<n, 1>> \in Fragments /\ <<n, 2>> \in Fragments
  BY DEF Fragments
<1> QED
  BY <1>2, <1>3, <1>4 DEF Whole, EndOfFiles

\* The next pause stays within its bounds.
LEMMA LongerStays ==
  ASSUME backoff \in BackoffBase..BackoffMax
  PROVE  Longer \in BackoffBase..BackoffMax
  BY Ranges DEF Longer

\* The record of the strategy keeps its type.
LEMMA PacedIsTyped ==
  ASSUME pace \in [date : Nat, last : Nat \cup {-1}, now : Nat, gap : Int, pause : 0..MaxPause],
         NEW g \in Gaps, pace.now + g >= 0
  PROVE  Paced(g) \in [date : Nat, last : Nat \cup {-1}, now : Nat, gap : Int, pause : 0..MaxPause]
<1> DEFINE time == pace.now + g
           dt == pace.date * Day + TimeOfDay(time)
           over == pace.last # -1 /\ Rollover(pace.last, dt)
           stamp == IF over THEN dt + Day ELSE dt
           delta == stamp - pace.last
           wait == IF pace.last # -1 /\ 0 < delta /\ delta < MaxPause THEN delta ELSE 0
<1>1. time \in Nat /\ g \in Int
  BY Ranges
<1>2. pace.date * Day \in Nat
  BY Ranges
<1>3. TimeOfDay(time) \in Nat
  BY <1>1, Ranges DEF TimeOfDay
<1>4. dt \in Nat
  BY <1>2, <1>3
<1>5. stamp \in Nat
  BY <1>4, Ranges
<1>6. delta \in Int
  BY <1>5
<1>7. wait \in 0..MaxPause
  BY <1>6, Ranges
<1> HIDE DEF time, dt, over, stamp, delta, wait
<1>8. Paced(g) = [date |-> IF over THEN pace.date + 1 ELSE pace.date, last |-> stamp, now |-> time,
                  gap |-> IF pace.last = -1 THEN 0 ELSE g, pause |-> wait]
  BY DEF Paced, time, dt, over, stamp, delta, wait
<1> QED
  BY <1>1, <1>5, <1>7, <1>8

\* ---- the invariants

\* The numbers that are written, handed over or queued, and those that wait to be put.
Ahead == written["db"] \o Handed \o NumbersOf(queue)
Pending == NumbersOf(todo)
Closes(c) == EndsLine(FragmentAt(c))
Streaming == conn \in {"draining", "open"}
HeaderFragments == {<<0, 0>>, <<0, 2>>}

\* m fragments of a header, then what the caster made between the clocks b and e.
HasContent(fs, m, b, e) ==
    /\ Len(fs) = m + (e - b)
    /\ \A k \in 1..m : fs[k] \in HeaderFragments
    /\ \A k \in 1..(e - b) : fs[m + k] = FragmentAt(b + k - 1)

\* This connection carries what the caster has made since the line before, and a
\* header that is drained ends with its blank line, or the caster has closed.
Carried(m, b, e) ==
    /\ since <= b /\ b <= e /\ e <= clock
    /\ closed \/ e = clock
    /\ HasContent(Stream, m, b, e)
    /\ b = since \/ (m = 0 /\ Closes(b - 1))
    /\ conn = "draining" => (closed /\ b = e) \/ (m > 0 /\ Stream[m] = <<0, 0>>)

\* What is ahead is older than b, and together with the whole sentences between b
\* and e it is what is owed.
Delivered(b, e) ==
    /\ Ascends(Ahead) /\ NumbersIn(Ahead) \subseteq SoundNumbers
    /\ \A n \in NumbersIn(Ahead) : 2 * n <= b
    /\ \A n \in SoundNumbers :
          n \in owed <=> n \in NumbersIn(Ahead) \/ (b <= 2 * n - 2 /\ 2 * n <= e /\ SentWhole(n))

LiveInv ==
    Live /\ core = "running" =>
        /\ todo = <<>>
        /\ IF Streaming THEN \E m, b, e \in Nat : Carried(m, b, e) /\ Delivered(b, e)
           ELSE socket = <<>> /\ Delivered(clock, clock)

\* In a replay the lines read so far are ahead or pending, and the end of the files
\* is behind all of them.
EndIsLast ==
    /\ Len(todo) <= 1 /\ conn \in {"open", "ended"}
    /\ \A i \in DOMAIN todo : todo[i] = EndOfFiles => conn = "ended" /\ clock = Len(Sentence)
    /\ \A i \in DOMAIN queue : queue[i] = EndOfFiles =>
          i = Len(queue) /\ todo = <<>> /\ conn = "ended" /\ clock = Len(Sentence)
    /\ core = "ended" => /\ queue = <<>> /\ todo = <<>> /\ hand = <<>>
                         /\ conn = "ended" /\ clock = Len(Sentence)
LinesKept ==
    /\ Ascends(Ahead) /\ NumbersIn(Ahead) \cup NumbersIn(Pending) = {n \in SoundNumbers : n <= clock}
    /\ \A a \in NumbersIn(Ahead), b \in NumbersIn(Pending) : a < b
ReplayInv == mode = "replay" /\ core # "cancelled" => EndIsLast /\ LinesKept

PlotInv == hand # <<>> /\ hand[2] = 2 => hand[1] \in NumbersIn(written["db"])
\* The day the strategy counts is the day of its last stamp, and the stamp is
\* whole days away from the true time.
PaceInv ==
    /\ PaceIsReal
    /\ IF pace.last = -1 THEN pace.date = 0 /\ pace.now = 0
       ELSE /\ pace.date * Day <= pace.last /\ pace.last < pace.date * Day + Day
            /\ \E k \in Int : pace.now = pace.last + k * Day

\* Initially every variable has its type.
LEMMA TypesInit == Init => TypeOK
<1> SUFFICES ASSUME Init PROVE TypeOK
  OBVIOUS
<1>1. /\ closed \in BOOLEAN /\ fatal \in BOOLEAN /\ mode \in Modes
      /\ conn \in {"connecting", "handshake", "draining", "open", "sleeping", "ended"}
      /\ core \in {"running", "ended", "cancelled"}
  BY DEF Init
<1>2. /\ socket \in Seq(Fragments) /\ buffer \in Seq(Fragments) /\ Len(buffer) <= BufferLimit
      /\ todo \in Seq(Seq(Fragments)) /\ queue \in Seq(Seq(Fragments)) /\ Len(queue) <= QueueSize
  BY Ranges DEF Init
<1>3. /\ hand = <<>> \/ hand \in Numbers \X DOMAIN Writers
      /\ owed \subseteq Numbers /\ clock \in 0..(2 * Len(Sentence)) /\ since \in 0..clock
  BY Ranges DEF Init
<1>4. written \in [{"db", "plot"} -> Seq(Numbers)]
  BY DEF Init
<1>5. /\ backoff \in BackoffBase..BackoffMax /\ failures \in Nat
      /\ drained \in Nat /\ faults \in 0..MaxFaults
  BY Ranges DEF Init
<1>6. pace \in [date : Nat, last : Nat \cup {-1}, now : Nat, gap : Int, pause : 0..MaxPause]
  <2>1. 0 \in Nat /\ 0 \in Int /\ 0 \in 0..MaxPause /\ -1 \in Nat \cup {-1}
    BY Ranges
  <2> QED
    BY <2>1 DEF Init
<1> QED
  BY <1>1, <1>2, <1>3, <1>4, <1>5, <1>6 DEF TypeOK

\* What is left of the socket and the buffer after a line or a read is typed.
LEMMA Remains ==
  ASSUME NEW s \in Seq(Fragments), NEW e \in DOMAIN s
  PROVE  /\ After(s, e) \in Seq(Fragments) /\ Len(After(s, e)) = Len(s) - e
         /\ SubSeq(s, 1, e) \in Seq(Fragments) /\ Len(SubSeq(s, 1, e)) = e
<1>1. e \in 0..Len(s)
  OBVIOUS
<1> QED
  BY <1>1, Cut

\* The types of what the adapter and the caster change.
NetOK ==
    /\ conn \in {"connecting", "handshake", "draining", "open", "sleeping", "ended"}
    /\ closed \in BOOLEAN /\ fatal \in BOOLEAN
    /\ socket \in Seq(Fragments) /\ buffer \in Seq(Fragments) /\ Len(buffer) <= BufferLimit
    /\ clock \in Nat /\ clock <= 2 * Len(Sentence) /\ since \in Nat /\ since <= clock /\ owed \subseteq Numbers
    /\ backoff \in BackoffBase..BackoffMax /\ failures \in Nat
    /\ drained \in Nat /\ faults \in Nat /\ faults <= MaxFaults

\* They are among the types.
LEMMA NetOfTypes == TypeOK => NetOK
  BY Ranges DEF TypeOK, NetOK

\* The end of a connection forgets and keeps the types.
LEMMA OverIsTyped ==
  ASSUME NetOK, NEW after \in {"sleeping", "ended"}, Over(after)
  PROVE  /\ conn' = after /\ closed' = FALSE /\ socket' = <<>> /\ socket' \in Seq(Fragments)
         /\ owed' \subseteq owed /\ owed' \subseteq Numbers
         /\ UNCHANGED <<buffer, clock, since, backoff, failures, drained>>
  BY DEF Over, Forgotten, NetOK

\* Where the stream begins the backing off ends.
LEMMA Accepted ==
  ASSUME Streams
  PROVE  /\ conn' = "open" /\ buffer' \in Seq(Fragments) /\ Len(buffer') = 0 /\ Len(buffer') <= BufferLimit
         /\ backoff' = BackoffBase /\ backoff' \in BackoffBase..BackoffMax
         /\ failures' = 0 /\ failures' \in Nat
<1>1. <<>> \in Seq(Fragments) /\ Len(<<>>) = 0
  OBVIOUS
<1>2. BackoffBase \in BackoffBase..BackoffMax /\ 0 <= BufferLimit
  BY Ranges
<1> QED
  BY <1>1, <1>2 DEF Streams

\* Every step keeps the types of what the adapter and the caster change.
LEMMA NetTypes ==
  ASSUME NetOK, [Next]_vars
  PROVE  NetOK'
<1> DEFINE Conns == {"connecting", "handshake", "draining", "open", "sleeping", "ended"}
<1>0. BackoffBase \in BackoffBase..BackoffMax /\ MaxFaults \in Nat /\ <<>> \in Seq(Fragments)
      /\ Len(<<>>) <= BufferLimit
  BY Ranges
<1>1. CASE CasterSends
  <2>1. clock \in 0..(2 * Len(Sentence) - 1)
    BY <1>1, Ranges DEF CasterSends, NetOK
  <2>2. FragmentAt(clock) \in Fragments
    BY <2>1, FragmentTypes
  <2>3. socket' \in Seq(Fragments)
    <3>1. socket' = Append(socket, FragmentAt(clock)) \/ socket' = socket
      BY <1>1 DEF CasterSends
    <3>2. socket \in Seq(Fragments)
      BY DEF NetOK
    <3> QED
      BY <2>2, <3>1, <3>2, Appended
  <2>4. owed' \subseteq Numbers
    BY <1>1 DEF CasterSends, NetOK
  <2>5. clock' \in Nat /\ clock' <= 2 * Len(Sentence) /\ since' \in Nat /\ since' <= clock'
    BY <1>1, <2>1 DEF CasterSends, NetOK
  <2> QED
    BY <1>1, <2>3, <2>4, <2>5 DEF CasterSends, NetOK
<1>2. CASE CasterCloses
  BY <1>2, Ranges DEF CasterCloses, NetOK
<1>3. CASE FileFails
  BY <1>3, Ranges DEF FileFails, NetOK
<1>4. CASE PlotFails
  BY <1>4, Ranges DEF PlotFails, NetOK, net
<1>5. CASE Cancel
  BY <1>5, <1>0 DEF Cancel, NetOK
<1>6. CASE Connect
  <2>1. since' \in Nat /\ since' <= clock'
    BY <1>6 DEF Connect, NetOK, Streams
  <2>2. faults' \in Nat /\ faults' <= MaxFaults
    BY <1>6, Ranges DEF Connect, NetOK
  <2>3. conn' \in Conns /\ buffer' \in Seq(Fragments) /\ Len(buffer') <= BufferLimit
    BY <1>6, <1>0 DEF Connect, NetOK, Streams
  <2>4. backoff' \in BackoffBase..BackoffMax /\ failures' \in Nat
    BY <1>6, <1>0 DEF Connect, NetOK, Streams
  <2> QED
    BY <1>6, <2>1, <2>2, <2>3, <2>4 DEF Connect, NetOK
<1>7. ASSUME NEW r \in Replies, Handshake(r)
      PROVE  NetOK'
  <2>1. fatal' \in BOOLEAN 
    BY <1>7 DEF Handshake, NetOK
  <2>2. CASE r \in Accepting
    <3>1. since' = clock /\ socket' = Headers(r) /\ UNCHANGED <<owed, clock>>
      BY <1>7, <2>2 DEF Handshake
    <3>2. closed' \in BOOLEAN /\ faults' \in Nat /\ faults' <= MaxFaults
      <4>1. \/ closed' = TRUE /\ faults < MaxFaults /\ faults' = faults + 1
            \/ UNCHANGED <<closed, faults>>
        BY <1>7, <2>2 DEF Handshake
      <4> QED
        <5>1. closed' \in BOOLEAN
          BY <4>1 DEF NetOK
        <5>2. faults' \in Nat /\ faults' <= MaxFaults
          BY <4>1, Ranges DEF NetOK
        <5> QED
          BY <5>1, <5>2
    <3>3. /\ conn' \in Conns /\ buffer' \in Seq(Fragments) /\ Len(buffer') <= BufferLimit
          /\ backoff' \in BackoffBase..BackoffMax /\ failures' \in Nat /\ drained' \in Nat
      <4>1. \/ conn' = "draining" /\ drained' = 0 /\ UNCHANGED <<buffer, backoff, failures>>
            \/ Streams /\ UNCHANGED drained
        BY <1>7, <2>2 DEF Handshake
      <4> QED
        BY <1>0, <4>1, Accepted DEF NetOK
    <3> QED
      BY <2>1, <3>1, <3>2, <3>3, LinesAreTyped DEF NetOK
  <2>3. CASE r \notin Accepting
    <3>1. \E after \in {"sleeping", "ended"} : Over(after)
      BY <1>7, <2>3 DEF Handshake
    <3>2. faults' \in Nat /\ faults' <= MaxFaults
      BY <1>7, <2>3, Ranges DEF Handshake, NetOK
    <3> QED
      BY <2>1, <3>1, <3>2, OverIsTyped DEF NetOK
  <2> QED
    BY <2>2, <2>3
<1>8. CASE Drain
  <2>1. socket' \in Seq(Fragments)
    BY <1>8, Remains DEF Drain, NetOK
  <2>2. drained' \in Nat
    BY <1>8 DEF Drain, NetOK
  <2>3. /\ conn' \in Conns /\ buffer' \in Seq(Fragments) /\ Len(buffer') <= BufferLimit
        /\ backoff' \in BackoffBase..BackoffMax /\ failures' \in Nat
    <3>1. Streams \/ UNCHANGED <<conn, buffer, backoff, failures>>
      BY <1>8 DEF Drain
    <3> QED
      BY <1>0, <3>1, Accepted DEF NetOK
  <2> QED
    BY <1>8, <2>1, <2>2, <2>3 DEF Drain, NetOK
<1>9. CASE DrainEnds
  BY <1>9, <1>0 DEF DrainEnds, Streams, NetOK
<1>10. CASE DrainFails
  <2>1. Over("sleeping")
    BY <1>10 DEF DrainFails
  <2>2. faults' \in Nat /\ faults' <= MaxFaults /\ UNCHANGED fatal
    BY <1>10, Ranges DEF DrainFails, NetOK
  <2> QED
    BY <2>1, <2>2, OverIsTyped DEF NetOK
<1>11. CASE Read
  <2>1. PICK k \in DOMAIN socket : ReadFrom(SubSeq(socket, 1, k))
    BY <1>11 DEF Read
  <2>2. SubSeq(socket, 1, k) \in Seq(Fragments) /\ Len(SubSeq(socket, 1, k)) = k
        /\ After(socket, k) \in Seq(Fragments)
    BY Remains DEF NetOK
  <2>3. CASE TooLong(buffer \o SubSeq(socket, 1, k))
    <3>1. Over("sleeping")
      BY <2>1, <2>3 DEF ReadFrom
    <3> QED
      BY <1>11, <3>1, OverIsTyped DEF Read, NetOK
  <2>4. CASE ~TooLong(buffer \o SubSeq(socket, 1, k))
    <3>1. buffer \o SubSeq(socket, 1, k) \in Seq(Fragments)
      BY <2>2 DEF NetOK
    <3>2. Len(buffer \o SubSeq(socket, 1, k)) <= BufferLimit
      BY <2>4, <3>1, Ranges DEF TooLong
    <3>3. buffer' = buffer \o SubSeq(socket, 1, k) /\ socket' = After(socket, k)
          /\ UNCHANGED <<conn, closed, clock, since, owed, backoff, failures, drained>>
      BY <2>1, <2>2, <2>4 DEF ReadFrom
    <3> QED
      BY <1>11, <2>2, <3>1, <3>2, <3>3 DEF Read, NetOK
  <2> QED
    BY <2>3, <2>4
<1>12. CASE PutLine
  <2>1. PICK e \in DOMAIN buffer : buffer' = After(buffer, e)
    BY <1>12 DEF PutLine
  <2>2. After(buffer, e) \in Seq(Fragments) /\ Len(After(buffer, e)) = Len(buffer) - e
    BY Remains DEF NetOK
  <2>3. Len(buffer') <= BufferLimit
    BY <2>1, <2>2, Ranges DEF NetOK
  <2> QED
    BY <1>12, <2>1, <2>2, <2>3 DEF PutLine, NetOK
<1>13. CASE Break
  <2>1. Over("sleeping") /\ UNCHANGED fatal
    BY <1>13 DEF Break
  <2>2. faults' \in Nat /\ faults' <= MaxFaults
    BY <1>13, Ranges DEF Break, NetOK
  <2> QED
    BY <2>1, <2>2, OverIsTyped DEF NetOK
<1>14. CASE Wake
  BY <1>14, LongerStays DEF Wake, NetOK
<1>15. CASE ReadLine
  BY <1>15, Ranges DEF ReadLine, NetOK
<1>16. CASE EndFiles
  BY <1>16 DEF EndFiles, NetOK
<1>17. CASE Put
  BY <1>17 DEF Put, NetOK, net
<1>18. CASE Take
  BY <1>18 DEF Take, NetOK, net
<1>19. CASE Write
  BY <1>19 DEF Write, NetOK, net
<1>20. CASE UNCHANGED vars
  BY <1>20 DEF vars, net, NetOK
<1> QED
  BY <1>1, <1>2, <1>3, <1>4, <1>5, <1>6, <1>7, <1>8, <1>9, <1>10, <1>11, <1>12, <1>13, <1>14,
     <1>15, <1>16, <1>17, <1>18, <1>19, <1>20 DEF Next, Environment, Adapter, Consumer

\* The record of the strategy changes with a recorded line only.
LEMMA PaceSteps ==
  ASSUME [Next]_vars
  PROVE  UNCHANGED pace \/ \E g \in Gaps : pace.now + g >= 0 /\ pace' = Paced(g)
<1>1. CASE CasterSends \/ CasterCloses \/ FileFails \/ PlotFails \/ Cancel
  BY <1>1 DEF CasterSends, CasterCloses, FileFails, PlotFails, Cancel
<1>2. CASE Connect \/ \E r \in Replies : Handshake(r)
  BY <1>2 DEF Connect, Handshake
<1>3. CASE Drain \/ DrainEnds \/ DrainFails \/ Read \/ PutLine \/ Break \/ Wake
  BY <1>3 DEF Drain, DrainEnds, DrainFails, Read, PutLine, Break, Wake
<1>4. CASE ReadLine
  BY <1>4 DEF ReadLine
<1>5. CASE EndFiles \/ Put \/ Take \/ Write \/ UNCHANGED vars
  BY <1>5 DEF EndFiles, Put, Take, Write, vars
<1> QED
  BY <1>1, <1>2, <1>3, <1>4, <1>5 DEF Next, Environment, Adapter, Consumer

\* A writer is served only while there is one.
LEMMA WritersFacts ==
  /\ Live => Writers = <<"db">> /\ DOMAIN Writers = {1} /\ Len(Writers) = 1
  /\ ~Live => Writers = <<"db", "plot">> /\ DOMAIN Writers = {1, 2} /\ Len(Writers) = 2
  /\ Writers[1] = "db"
  /\ mode' = mode => Writers' = Writers
<1>1. 1..1 = {1} /\ 1..2 = {1, 2}
  OBVIOUS
<1> QED
  BY <1>1 DEF Writers, Live

\* A write hands the sentence to one writer, then to the next if there is one.
LEMMA WriteServes ==
  ASSUME TypeOK, Write
  PROVE  \/ /\ hand[2] = 1 /\ written' = [written EXCEPT !["db"] = Append(@, hand[1])]
            /\ hand' = IF Live THEN <<>> ELSE <<hand[1], 2>>
         \/ /\ ~Live /\ hand[2] = 2 /\ written' = [written EXCEPT !["plot"] = Append(@, hand[1])]
            /\ hand' = <<>>
<1>1. hand # <<>> /\ hand \in Numbers \X DOMAIN Writers
  BY DEF Write, TypeOK
<1>2. /\ written' = [written EXCEPT ![Served(hand[2])] = Append(@, hand[1])]
      /\ hand' = IF hand[2] = Len(Writers) THEN <<>> ELSE <<hand[1], hand[2] + 1>>
  BY DEF Write
<1>3. CASE Live
  BY <1>1, <1>2, <1>3, WritersFacts DEF Served
<1>4. CASE ~Live
  <2>1. hand[2] \in {1, 2}
    BY <1>1, <1>4, WritersFacts
  <2> QED
    <3>1. CASE hand[2] = 1
      <4>1. Served(hand[2]) = "db" /\ Len(Writers) = 2
        BY <1>4, <3>1, WritersFacts DEF Served
      <4>2. hand' = <<hand[1], 2>>
        BY <1>2, <3>1, <4>1
      <4>3. written' = [written EXCEPT !["db"] = Append(@, hand[1])]
        BY <1>2, <4>1
      <4> QED
        BY <1>4, <3>1, <4>2, <4>3
    <3>2. CASE hand[2] = 2
      <4>1. Served(hand[2]) = "plot"
        BY <1>4, <3>2 DEF Served, Writers
      <4> QED
        BY <1>2, <1>4, <3>2, <4>1, WritersFacts
    <3> QED
      BY <2>1, <3>1, <3>2
<1> QED
  BY <1>3, <1>4

\* Every step keeps the types of what passes to the writers.
LEMMA PathTypes ==
  ASSUME TypeOK, [Next]_vars
  PROVE  /\ mode' \in Modes /\ mode' = mode
         /\ todo' \in Seq(Seq(Fragments)) /\ queue' \in Seq(Seq(Fragments)) /\ Len(queue') <= QueueSize
         /\ hand' = <<>> \/ hand' \in Numbers \X DOMAIN Writers
         /\ core' \in {"running", "ended", "cancelled"}
         /\ written' \in [{"db", "plot"} -> Seq(Numbers)]
<1> USE DEF TypeOK
<1>0. <<>> \in Seq(Seq(Fragments)) /\ QueueSize \in Nat
  BY Ranges
<1>1. CASE UNCHANGED <<mode, todo, queue, hand, core, written>>
  BY <1>1
<1>2. CASE ReadLine
  <2>1. clock' \in Numbers /\ todo' = <<Whole(clock')>>
    BY <1>2, Ranges DEF ReadLine, Numbers
  <2>2. \A x \in Seq(Fragments) : <<x>> \in Seq(Seq(Fragments))
    OBVIOUS
  <2>3. todo' \in Seq(Seq(Fragments))
    BY <2>1, <2>2, LinesAreTyped
  <2> QED
    BY <1>2, <2>3 DEF ReadLine
<1>3. CASE EndFiles
  <2>1. \A x \in Seq(Fragments) : <<x>> \in Seq(Seq(Fragments))
    OBVIOUS
  <2> QED
    BY <1>3, <2>1, LinesAreTyped DEF EndFiles
<1>4. CASE FileFails \/ Cancel \/ PlotFails
  BY <1>4 DEF FileFails, Cancel, PlotFails
<1>5. CASE PutLine
  <2>1. PICK e \in DOMAIN buffer : \/ UNCHANGED queue
                                   \/ Len(queue) < QueueSize /\ queue' = Append(queue, SubSeq(buffer, 1, e))
    BY <1>5 DEF PutLine
  <2>2. SubSeq(buffer, 1, e) \in Seq(Fragments)
    BY Remains
  <2>3. queue' \in Seq(Seq(Fragments)) /\ Len(queue') <= QueueSize
    <3>1. CASE UNCHANGED queue
      BY <3>1
    <3>2. CASE Len(queue) < QueueSize /\ queue' = Append(queue, SubSeq(buffer, 1, e))
      <4>1. queue' \in Seq(Seq(Fragments)) /\ Len(queue') = Len(queue) + 1
        BY <3>2, <2>2, Appended
      <4>2. Len(queue) \in Nat
        OBVIOUS
      <4> HIDE DEF TypeOK
      <4> QED
        BY <3>2, <4>1, <4>2, <1>0
    <3> QED
      BY <2>1, <3>1, <3>2
  <2> QED
    BY <1>5, <2>3 DEF PutLine
<1>6. CASE Put
  <2>1. todo # <<>> /\ todo \in Seq(Seq(Fragments)) /\ queue' = Append(queue, todo[1]) /\ todo' = Tail(todo)
        /\ Len(queue) < QueueSize
    BY <1>6 DEF Put
  <2>2. todo[1] \in Seq(Fragments) /\ todo' \in Seq(Seq(Fragments))
    BY <2>1, HeadAndRest
  <2>3. queue' \in Seq(Seq(Fragments)) /\ Len(queue') <= QueueSize
    BY <2>1, <2>2, <1>0, Appended
  <2> QED
    BY <1>6, <2>2, <2>3 DEF Put
<1>7. CASE Take
  <2>1. queue # <<>> /\ queue \in Seq(Seq(Fragments)) /\ queue' = Tail(queue) /\ hand = <<>>
    BY <1>7 DEF Take
  <2>2. queue[1] \in Seq(Fragments) /\ queue' \in Seq(Seq(Fragments)) /\ Len(queue') = Len(queue) - 1
    BY <2>1, HeadAndRest
  <2>3. hand' = <<>> \/ hand' \in Numbers \X DOMAIN Writers
    <3>1. CASE queue[1] # EndOfFiles /\ Sound(queue[1])
      <4>1. hand' = <<queue[1][1][1], 1>> /\ queue[1][1][1] \in Numbers
        BY <1>7, <2>2, <3>1, SoundNumber DEF Take
      <4>2. 1 \in DOMAIN Writers
        BY WritersFacts
      <4> QED
        BY <4>1, <4>2
    <3>2. CASE ~(queue[1] # EndOfFiles /\ Sound(queue[1]))
      BY <1>7, <3>2, <2>1 DEF Take
    <3> QED
      BY <3>1, <3>2
  <2>4. Len(queue') <= QueueSize /\ core' \in {"running", "ended", "cancelled"}
    <3>1. core' \in {"running", "ended", "cancelled"}
      BY <1>7 DEF Take
    <3>2. Len(queue) \in Nat /\ Len(queue) <= QueueSize
      BY <2>2
    <3>3. Len(queue') <= Len(queue)
      BY <2>2, <3>2
    <3>4. Len(queue') \in Nat
      BY <2>2
    <3> QED
      BY <1>0, <3>1, <3>2, <3>3, <3>4
  <2> QED
    BY <1>7, <2>2, <2>3, <2>4 DEF Take
<1>8. CASE Write
  <2>1. hand \in Numbers \X DOMAIN Writers
    BY <1>8 DEF Write
  <2>2. written["db"] \in Seq(Numbers) /\ written["plot"] \in Seq(Numbers) /\ hand[1] \in Numbers
    BY <2>1
  <2>3. Append(written["db"], hand[1]) \in Seq(Numbers) /\ Append(written["plot"], hand[1]) \in Seq(Numbers)
    BY <2>2
  <2>4. written' \in [{"db", "plot"} -> Seq(Numbers)]
    BY <1>8, <2>3, WriteServes
  <2>5. hand' = <<>> \/ hand' \in Numbers \X DOMAIN Writers
    BY <1>8, <2>2, WriteServes, WritersFacts
  <2> QED
    BY <1>8, <2>4, <2>5 DEF Write
<1>9. CASE CasterSends \/ CasterCloses \/ Connect
  BY <1>1, <1>9 DEF CasterSends, CasterCloses, Connect
<1>10. CASE \E r \in Replies : Handshake(r)
  BY <1>1, <1>10 DEF Handshake
<1>11. CASE Drain \/ DrainEnds \/ DrainFails \/ Read \/ Break \/ Wake
  BY <1>1, <1>11 DEF Drain, DrainEnds, DrainFails, Read, Break, Wake
<1>12. CASE UNCHANGED vars
  BY <1>1, <1>12 DEF vars
<1> QED
  BY <1>2, <1>3, <1>4, <1>5, <1>6, <1>7, <1>8, <1>9, <1>10, <1>11, <1>12
     DEF Next, Environment, Adapter, Consumer

\* Every step keeps the type of the strategy's record.
LEMMA PaceTypes ==
  ASSUME TypeOK, [Next]_vars
  PROVE  pace' \in [date : Nat, last : Nat \cup {-1}, now : Nat, gap : Int, pause : 0..MaxPause]
<1>1. CASE UNCHANGED pace
  BY <1>1 DEF TypeOK
<1>2. CASE \E g \in Gaps : pace.now + g >= 0 /\ pace' = Paced(g)
  BY <1>2, PacedIsTyped DEF TypeOK
<1> QED
  BY <1>1, <1>2, PaceSteps

\* Every variable keeps its type.
LEMMA TypeInvariant == Spec => []TypeOK
<1>1. TypeOK /\ [Next]_vars => TypeOK'
  <2> SUFFICES ASSUME TypeOK, [Next]_vars PROVE TypeOK'
    OBVIOUS
  <2>1. NetOK'
    BY NetOfTypes, NetTypes
  <2>2. Writers' = Writers /\ mode' = mode
    BY PathTypes, WritersFacts
  <2>3. clock' \in 0..(2 * Len(Sentence)) /\ since' \in 0..clock' /\ faults' \in 0..MaxFaults
    BY <2>1, Ranges DEF NetOK
  <2> QED
    BY <2>1, <2>2, <2>3, PathTypes, PaceTypes DEF TypeOK, NetOK
<1> QED
  BY <1>1, TypesInit, PTL DEF Spec

\* ---- the pace of a replay

\* Whole days do not change the time of day.
LEMMA DaysPass ==
  ASSUME NEW q \in Int, NEW r \in Int, 0 <= r, r < Day
  PROVE  TimeOfDay(q * Day + r) = r
<1> DEFINE D == Day
<1>1. D \in Nat /\ D > 0
  BY Ranges
<1> HIDE DEF D
<1>2. ASSUME NEW x \in Int, NEW y \in Int, x < D, y < D, x >= 0, y >= 0, NEW u \in Int, NEW v \in Int,
             u * D + x = v * D + y
      PROVE  x = y
  <2>1. (u - v) * D = y - x
    BY <1>1, <1>2
  <2>2. CASE u - v >= 1
    <3>1. (u - v) * D >= D
      BY <1>1, <2>2
    <3> QED
      BY <1>1, <1>2, <2>1, <3>1
  <2>3. CASE u - v <= -1
    <3>1. (v - u) * D >= D
      BY <1>1, <2>3
    <3>2. (u - v) * D = -((v - u) * D)
      BY <1>1
    <3> QED
      BY <1>1, <1>2, <2>1, <3>1, <3>2
  <2>4. CASE u = v
    BY <1>1, <1>2, <2>4
  <2> QED
    BY <2>2, <2>3, <2>4
<1>3. q * D + r \in Int /\ r >= 0 /\ r < D /\ r \in Int
  BY <1>1 DEF D
<1>4. PICK d \in Int, m \in Int : q * D + r = d * D + m /\ 0 <= m /\ m < D /\ m = (q * D + r) % D
  BY <1>1, <1>3
<1>5. r = m
  BY <1>1, <1>2, <1>3, <1>4
<1> QED
  BY <1>4, <1>5 DEF TimeOfDay, D

\* A time is some whole days and a time of day.
LEMMA DaysAndTime ==
  ASSUME NEW t \in Int
  PROVE  \E q, r \in Int : t = q * Day + r /\ 0 <= r /\ r < Day
<1> DEFINE D == Day
<1>1. D \in Nat /\ D > 0
  BY Ranges
<1> HIDE DEF D
<1>2. PICK q \in Int, r \in Int : t = q * D + r /\ 0 <= r /\ r < D /\ r = t % D
  BY <1>1
<1> QED
  BY <1>2 DEF D

\* Where the stamp of a line falls, how far it is from the one before, and how
\* long the strategy pauses.
LEMMA PacedIsReal ==
  ASSUME TypeOK, PaceInv, NEW g \in Gaps, pace.now + g >= 0
  PROVE  /\ Paced(g).last >= 0
         /\ Paced(g).date * Day <= Paced(g).last /\ Paced(g).last < Paced(g).date * Day + Day
         /\ \E k \in Int : Paced(g).now = Paced(g).last + k * Day
         /\ Paced(g).pause = IF 0 < Paced(g).gap /\ Paced(g).gap < MaxPause THEN Paced(g).gap ELSE 0
<1> DEFINE D == Day
           t0 == pace.now
           l0 == pace.last
           d0 == pace.date
           time == t0 + g
           dt == d0 * D + TimeOfDay(time)
           over == l0 # -1 /\ Rollover(l0, dt)
           stamp == IF over THEN dt + D ELSE dt
           delta == stamp - l0
           wait == IF l0 # -1 /\ 0 < delta /\ delta < MaxPause THEN delta ELSE 0
           gap1 == IF l0 = -1 THEN 0 ELSE g
           date1 == IF over THEN d0 + 1 ELSE d0
<1>1. /\ D \in Nat /\ D > 0 /\ D = 2 * HalfDay /\ HalfDay \in Nat /\ g \in Int /\ MaxPause \in Nat
      /\ MaxPause <= HalfDay /\ MaxPause - D <= g /\ g < D
  BY Ranges DEF Day
<1>2. t0 \in Nat /\ l0 \in Nat \cup {-1} /\ d0 \in Nat
  BY DEF TypeOK
<1>3. time \in Nat
  BY <1>1, <1>2
<1>4. Paced(g).last = stamp /\ Paced(g).date = date1 /\ Paced(g).now = time
      /\ Paced(g).gap = gap1 /\ Paced(g).pause = wait
  BY DEF Paced
<1>5. \A q \in Int, r \in Int : 0 <= r /\ r < D => TimeOfDay(q * D + r) = r
  BY <1>1, DaysPass DEF D
<1> SUFFICES /\ stamp >= 0 /\ date1 * D <= stamp /\ stamp < date1 * D + D
             /\ \E k \in Int : time = stamp + k * D
             /\ wait = IF 0 < gap1 /\ gap1 < MaxPause THEN gap1 ELSE 0
  BY <1>4 DEF D
<1>6. CASE l0 = -1
  <2>1. d0 = 0 /\ time = g
    BY <1>1, <1>2, <1>6 DEF PaceInv
  <2>2. PICK q \in Int, r \in Int : time = q * D + r /\ 0 <= r /\ r < D
    BY <1>3, DaysAndTime
  <2>3. TimeOfDay(time) = r
    BY <1>5, <2>2
  <2>4. stamp = r /\ ~over /\ date1 = 0 /\ gap1 = 0 /\ wait = 0
    <3>1. d0 * D = 0
      BY <1>1, <2>1
    <3>2. dt = r
      BY <2>2, <2>3, <3>1
    <3> QED
      BY <1>6, <2>1, <3>2
  <2>5. date1 * D = 0 /\ time = stamp + q * D
    <3> HIDE DEF D, time, stamp, date1
    <3> QED
      BY <1>1, <2>2, <2>4
  <2> HIDE DEF D, time, stamp, date1, gap1, wait
  <2> QED
    BY <1>1, <2>2, <2>4, <2>5
<1>7. CASE l0 # -1
  <2>1. PICK k \in Int : t0 = l0 + k * D
    BY <1>7 DEF PaceInv
  <2>2. d0 * D <= l0 /\ l0 < d0 * D + D
    BY <1>7 DEF PaceInv
  <2> DEFINE r0 == l0 - d0 * D
             b0 == d0 * D
  <2>3. b0 \in Int /\ b0 >= 0 /\ r0 \in Int /\ 0 <= r0 /\ r0 < D /\ l0 = b0 + r0 /\ l0 >= 0 /\ k * D \in Int
    <3> HIDE DEF D
    <3> QED
      BY <1>1, <1>2, <2>2
  <2>4. /\ (d0 + k) * D = b0 + k * D
        /\ (d0 + k + 1) * D = b0 + k * D + D
        /\ (d0 + k - 1) * D = b0 + k * D - D
        /\ (d0 + 1) * D = b0 + D
    <3> HIDE DEF D
    <3> QED
      BY <1>1, <1>2
  <2>5. /\ k * D = 0 + k * D /\ (k + 1) * D = k * D + D /\ (k - 1) * D = k * D - D
    <3> HIDE DEF D
    <3> QED
      BY <1>1
  <2>6. /\ dt = b0 + TimeOfDay(time) /\ gap1 = g
        /\ over => l0 - dt > HalfDay
        /\ ~over => ~(l0 - dt > HalfDay)
    BY <1>7 DEF Rollover
  <2>7. time = b0 + k * D + r0 + g
    BY <1>1, <1>2, <2>1, <2>3
  <2>8. /\ stamp = (IF over THEN dt + D ELSE dt) /\ delta = stamp - l0
        /\ wait = (IF 0 < delta /\ delta < MaxPause THEN delta ELSE 0)
        /\ date1 * D = (IF over THEN b0 + D ELSE b0)
    BY <1>7, <2>4
  <2>9. d0 + k \in Int /\ d0 + k + 1 \in Int /\ d0 + k - 1 \in Int /\ k + 1 \in Int /\ k - 1 \in Int
    BY <1>2
  <2> HIDE DEF D, t0, l0, d0, time, dt, over, stamp, delta, wait, gap1, date1, r0, b0
  <2>10. CASE 0 <= r0 + g /\ r0 + g < D
    <3>1. TimeOfDay(time) = r0 + g
      <4>1. PICK q \in Int : q = d0 + k
        BY <2>9
      <4>2. PICK r \in Int : r = r0 + g
        BY <1>1, <2>3
      <4>3. q * D + r = time
        BY <1>1, <2>3, <2>4, <2>7, <4>1, <4>2
      <4>4. 0 <= r /\ r < D
        BY <1>1, <2>3, <2>10, <4>2
      <4>5. TimeOfDay(q * D + r) = r
        BY <1>5, <4>4
      <4> QED
        BY <4>2, <4>3, <4>5
    <3>2. CASE over
      <4>1. stamp = l0 + g + D /\ -g > HalfDay
        BY <1>1, <2>3, <2>6, <2>8, <3>1, <3>2
      <4>2. time = stamp + (k - 1) * D
        BY <1>1, <2>3, <2>5, <2>7, <4>1
      <4>3. wait = IF 0 < gap1 /\ gap1 < MaxPause THEN gap1 ELSE 0
        BY <1>1, <2>3, <2>6, <2>8, <4>1
      <4>4. stamp >= 0 /\ date1 * D <= stamp /\ stamp < date1 * D + D
        BY <1>1, <2>3, <2>8, <2>10, <3>2, <4>1
      <4> QED
        BY <2>9, <4>2, <4>3, <4>4
    <3>3. CASE ~over
      <4>1. stamp = l0 + g
        BY <1>1, <2>3, <2>6, <2>8, <3>1, <3>3
      <4>2. time = stamp + k * D
        BY <1>1, <2>3, <2>5, <2>7, <4>1
      <4>3. wait = IF 0 < gap1 /\ gap1 < MaxPause THEN gap1 ELSE 0
        BY <1>1, <2>3, <2>6, <2>8, <4>1
      <4>4. stamp >= 0 /\ date1 * D <= stamp /\ stamp < date1 * D + D
        BY <1>1, <2>3, <2>8, <2>10, <3>3, <4>1
      <4> QED
        BY <2>9, <4>2, <4>3, <4>4
    <3> QED
      BY <3>2, <3>3
  <2>11. CASE r0 + g >= D
    <3>1. TimeOfDay(time) = r0 + g - D
      <4>1. PICK q \in Int : q = d0 + k + 1
        BY <2>9
      <4>2. PICK r \in Int : r = r0 + g - D
        BY <1>1, <2>3
      <4>3. q * D + r = time
        BY <1>1, <2>3, <2>4, <2>7, <4>1, <4>2
      <4>4. 0 <= r /\ r < D
        BY <1>1, <2>3, <2>11, <4>2
      <4>5. TimeOfDay(q * D + r) = r
        BY <1>5, <4>4
      <4> QED
        BY <4>2, <4>3, <4>5
    <3>2. CASE over
      <4>1. stamp = l0 + g
        BY <1>1, <2>3, <2>6, <2>8, <3>1, <3>2
      <4>2. time = stamp + k * D
        BY <1>1, <2>3, <2>5, <2>7, <4>1
      <4>3. wait = IF 0 < gap1 /\ gap1 < MaxPause THEN gap1 ELSE 0
        BY <1>1, <2>3, <2>6, <2>8, <4>1
      <4>4. stamp >= 0 /\ date1 * D <= stamp /\ stamp < date1 * D + D
        BY <1>1, <2>3, <2>8, <2>11, <3>2, <4>1
      <4> QED
        BY <2>9, <4>2, <4>3, <4>4
    <3>3. CASE ~over
      <4>1. stamp = l0 + g - D /\ g >= HalfDay
        BY <1>1, <2>3, <2>6, <2>8, <3>1, <3>3
      <4>2. time = stamp + (k + 1) * D
        BY <1>1, <2>3, <2>5, <2>7, <4>1
      <4>3. wait = IF 0 < gap1 /\ gap1 < MaxPause THEN gap1 ELSE 0
        BY <1>1, <2>3, <2>6, <2>8, <4>1
      <4>4. stamp >= 0 /\ date1 * D <= stamp /\ stamp < date1 * D + D
        BY <1>1, <2>3, <2>8, <2>11, <3>3, <4>1
      <4> QED
        BY <2>9, <4>2, <4>3, <4>4
    <3> QED
      BY <3>2, <3>3
  <2>12. CASE r0 + g < 0
    <3>1. TimeOfDay(time) = r0 + g + D
      <4>1. PICK q \in Int : q = d0 + k - 1
        BY <2>9
      <4>2. PICK r \in Int : r = r0 + g + D
        BY <1>1, <2>3
      <4>3. q * D + r = time
        BY <1>1, <2>3, <2>4, <2>7, <4>1, <4>2
      <4>4. 0 <= r /\ r < D
        BY <1>1, <2>3, <2>12, <4>2
      <4>5. TimeOfDay(q * D + r) = r
        BY <1>5, <4>4
      <4> QED
        BY <4>2, <4>3, <4>5
    <3>2. ~over /\ stamp = l0 + g + D
      BY <1>1, <2>3, <2>6, <2>8, <3>1
    <3>3. time = stamp + (k - 1) * D
      BY <1>1, <2>3, <2>5, <2>7, <3>2
    <3>4. wait = IF 0 < gap1 /\ gap1 < MaxPause THEN gap1 ELSE 0
      BY <1>1, <2>3, <2>6, <2>8, <2>12, <3>2
    <3>5. stamp >= 0 /\ date1 * D <= stamp /\ stamp < date1 * D + D
      BY <1>1, <2>3, <2>8, <2>12, <3>2
    <3> QED
      BY <2>9, <3>3, <3>4, <3>5
  <2> QED
    BY <1>1, <2>3, <2>10, <2>11, <2>12
<1> QED
  BY <1>6, <1>7

\* The pace of a replay is that of the recording, over any number of midnights.
LEMMA PaceInvariant == Spec => []PaceInv
<1>1. Init => PaceInv
  BY DEF Init, PaceInv, PaceIsReal
<1>2. TypeOK /\ PaceInv /\ [Next]_vars => PaceInv'
  <2> SUFFICES ASSUME TypeOK, PaceInv, [Next]_vars PROVE PaceInv'
    OBVIOUS
  <2>1. CASE UNCHANGED pace
    BY <2>1 DEF PaceInv, PaceIsReal
  <2>2. CASE \E g \in Gaps : pace.now + g >= 0 /\ pace' = Paced(g)
    <3>1. PICK g \in Gaps : pace.now + g >= 0 /\ pace' = Paced(g)
      BY <2>2
    <3>2. PICK p : p = Paced(g)
      OBVIOUS
    <3>3. /\ p.last >= 0 /\ p.date * Day <= p.last /\ p.last < p.date * Day + Day
          /\ \E k \in Int : p.now = p.last + k * Day
          /\ p.pause = IF 0 < p.gap /\ p.gap < MaxPause THEN p.gap ELSE 0
      BY <3>1, <3>2, PacedIsReal
    <3>4. p.last # -1
      <4>1. p.last \in Nat \cup {-1}
        BY <3>1, <3>2, PacedIsTyped DEF TypeOK
      <4> QED
        BY <3>3, <4>1
    <3>5. pace' = p
      BY <3>1, <3>2
    <3> QED
      BY <3>3, <3>4, <3>5 DEF PaceInv, PaceIsReal
  <2> QED
    BY <2>1, <2>2, PaceSteps
<1> QED
  BY <1>1, <1>2, TypeInvariant, PTL DEF Spec

\* ---- backing off

\* One more member doubles the subsets, so one more failure doubles the power.
LEMMA PowersDouble ==
  /\ 2 ^ 0 = 1
  /\ \A f \in Nat : 2 ^ f \in Nat /\ 2 ^ f > 0 /\ 2 ^ (f + 1) = 2 * 2 ^ f
<1>1. ASSUME NEW f \in Nat
      PROVE  /\ IsFiniteSet(SUBSET (1..f)) /\ Cardinality(SUBSET (1..f)) = 2 ^ f
             /\ 2 ^ f \in Nat
  <2>1. IsFiniteSet(1..f) /\ Cardinality(1..f) = f
    BY FS_Interval
  <2>2. IsFiniteSet(SUBSET (1..f)) /\ Cardinality(SUBSET (1..f)) = 2 ^ Cardinality(1..f)
    BY <2>1, FS_SUBSET
  <2> QED
    BY <2>1, <2>2, FS_CardinalityType
<1>2. ASSUME NEW f \in Nat
      PROVE  2 ^ (f + 1) = 2 * 2 ^ f
  <2> DEFINE S == SUBSET (1..f)
             T == {x \cup {f + 1} : x \in S}
             up == [x \in S |-> x \cup {f + 1}]
  <2>1. SUBSET (1..(f + 1)) = S \cup T
    <3>1. ASSUME NEW x \in SUBSET (1..(f + 1)) PROVE x \in S \cup T
      <4>1. CASE f + 1 \in x
        <5>1. x \ {f + 1} \in S /\ x = (x \ {f + 1}) \cup {f + 1}
          BY <4>1
        <5> QED
          BY <5>1
      <4>2. CASE f + 1 \notin x
        BY <4>2
      <4> QED
        BY <4>1, <4>2
    <3>2. ASSUME NEW x \in S \cup T PROVE x \in SUBSET (1..(f + 1))
      OBVIOUS
    <3> QED
      BY <3>1, <3>2
  <2>2. S \cap T = {}
    OBVIOUS
  <2>3. up \in Bijection(S, T)
    <3>1. up \in [S -> T] /\ \A y \in T : \E x \in S : up[x] = y
      OBVIOUS
    <3>2. ASSUME NEW x \in S, NEW y \in S, up[x] = up[y] PROVE x = y
      <4>1. f + 1 \notin x /\ f + 1 \notin y /\ x \cup {f + 1} = y \cup {f + 1}
        BY <3>2
      <4> QED
        BY <4>1
    <3> QED
      BY <3>1, <3>2 DEF Bijection, Injection, Surjection, IsInjective
  <2>4. IsFiniteSet(S) /\ Cardinality(S) = 2 ^ f /\ 2 ^ f \in Nat
    BY <1>1
  <2>5. IsFiniteSet(T) /\ Cardinality(T) = Cardinality(S)
    BY <2>3, <2>4, FS_Bijection DEF ExistsBijection
  <2>6. Cardinality(S \cap T) = 0
    BY <2>2, FS_EmptySet
  <2>7. Cardinality(S \cup T) = Cardinality(S) + Cardinality(T) - Cardinality(S \cap T)
    BY <2>4, <2>5, FS_Union
  <2>8. Cardinality(SUBSET (1..(f + 1))) = 2 ^ (f + 1)
    <3>1. f + 1 \in Nat
      OBVIOUS
    <3> QED
      BY <1>1, <3>1
  <2>9. Cardinality(S \cup T) = Cardinality(S) + Cardinality(S) /\ Cardinality(S) \in Nat
    <3> HIDE DEF S, T
    <3> QED
      BY <2>4, <2>5, <2>6, <2>7
  <2>10. \A c \in Nat : c + c = 2 * c
    OBVIOUS
  <2> QED
    BY <2>1, <2>4, <2>8, <2>9, <2>10, Zenon
<1>3. 2 ^ 0 = 1
  <2>1. SUBSET (1..0) = {{}}
    OBVIOUS
  <2> QED
    BY <1>1, <2>1, FS_Singleton
<1>4. \A f \in Nat : 2 ^ f > 0
  <2> SUFFICES ASSUME NEW f \in Nat PROVE 2 ^ f > 0
    OBVIOUS
  <2>1. {} \in SUBSET (1..f) /\ SUBSET (1..f) # {}
    OBVIOUS
  <2>2. Cardinality(SUBSET (1..f)) # 0
    BY <1>1, <2>1, FS_EmptySet
  <2>3. 2 ^ f \in Nat /\ 2 ^ f # 0
    BY <1>1, <2>2, Zenon
  <2>4. \A c \in Nat : c # 0 => c > 0
    OBVIOUS
  <2> QED
    BY <2>3, <2>4, Zenon
<1> QED
  BY <1>1, <1>2, <1>3, <1>4

\* The backoff is what the failures make it, and a refusal for good is for good.
LEMMA SparedStep == TypeOK /\ CasterIsSpared /\ [Next]_vars => CasterIsSpared'
<1> SUFFICES ASSUME TypeOK, CasterIsSpared, [Next]_vars
             PROVE  CasterIsSpared'
  OBVIOUS
<1>0. /\ fatal \in BOOLEAN /\ failures \in Nat /\ backoff \in BackoffBase..BackoffMax
      /\ BackoffBase \in Nat /\ BackoffMax \in Nat /\ BackoffBase <= BackoffMax /\ BackoffBase > 0
      /\ fatal => conn = "ended"
  BY Ranges DEF TypeOK, CasterIsSpared
<1>1. \/ UNCHANGED <<backoff, failures>>
      \/ backoff' = BackoffBase /\ failures' = 0
      \/ backoff' = Longer /\ failures' = failures + 1
  <2>1. CASE CasterSends \/ CasterCloses \/ FileFails \/ PlotFails \/ Cancel \/ UNCHANGED vars
    BY <2>1 DEF CasterSends, CasterCloses, FileFails, PlotFails, Cancel, vars, net
  <2>2. CASE Connect
    BY <2>2 DEF Connect, Streams
  <2>3. CASE \E r \in Replies : Handshake(r)
    <3>1. PICK r \in Replies : Handshake(r)
      BY <2>3
    <3>2. \/ UNCHANGED <<buffer, backoff, failures>>
          \/ Streams
          \/ \E after \in {"sleeping", "ended"} : Over(after)
      BY <3>1 DEF Handshake
    <3> QED
      BY <3>2 DEF Streams, Over
  <2>4. CASE Drain
    BY <2>4 DEF Drain, Streams
  <2>5. CASE DrainEnds \/ DrainFails \/ Break
    BY <2>5 DEF DrainEnds, DrainFails, Break, Streams, Over
  <2>6. CASE Read
    BY <2>6 DEF Read, ReadFrom, Over
  <2>7. CASE PutLine \/ ReadLine \/ EndFiles \/ Put \/ Take \/ Write
    BY <2>7 DEF PutLine, ReadLine, EndFiles, Put, Take, Write, net
  <2>8. CASE Wake
    BY <2>8 DEF Wake
  <2> QED
    BY <2>1, <2>2, <2>3, <2>4, <2>5, <2>6, <2>7, <2>8 DEF Next, Environment, Adapter, Consumer
<1>2. backoff' = Doubled'
  <2>1. PICK p \in Nat : p = 2 ^ failures /\ p > 0
    BY <1>0, PowersDouble
  <2>2. Doubled = IF BackoffBase * p < BackoffMax THEN BackoffBase * p ELSE BackoffMax
    BY <2>1 DEF Doubled
  <2>3. backoff = Doubled
    BY DEF CasterIsSpared
  <2>4. CASE UNCHANGED <<backoff, failures>>
    BY <2>3, <2>4 DEF Doubled
  <2>5. CASE backoff' = BackoffBase /\ failures' = 0
    <3>1. Doubled' = IF BackoffBase * 1 < BackoffMax THEN BackoffBase * 1 ELSE BackoffMax
      BY <2>5, PowersDouble DEF Doubled
    <3> QED
      BY <1>0, <2>5, <3>1
  <2>6. CASE backoff' = Longer /\ failures' = failures + 1
    <3>1. 2 ^ failures' = 2 * p
      BY <1>0, <2>1, <2>6, PowersDouble
    <3>2. PICK x \in Nat : x = BackoffBase * p
      BY <1>0, <2>1
    <3>3. BackoffBase * (2 * p) = 2 * x
      BY <1>0, <2>1, <3>2
    <3>4. Doubled' = IF 2 * x < BackoffMax THEN 2 * x ELSE BackoffMax
      BY <3>1, <3>3 DEF Doubled
    <3>5. backoff = IF x < BackoffMax THEN x ELSE BackoffMax
      BY <2>2, <2>3, <3>2
    <3> QED
      BY <1>0, <2>6, <3>4, <3>5 DEF Longer
  <2> QED
    BY <1>1, <2>4, <2>5, <2>6
<1>3. fatal' => conn' = "ended"
  <2>1. CASE \E r \in Replies : Handshake(r)
    <3>1. PICK r \in Replies : Handshake(r)
      BY <2>1
    <3>2. conn = "handshake" /\ ~fatal /\ (fatal' <=> r \in Fatal)
      BY <1>0, <3>1 DEF Handshake
    <3>3. CASE r \in Fatal
      <4>1. r \notin Accepting
        BY <3>3 DEF Fatal, Accepting
      <4>2. Over("ended")
        BY <3>1, <3>3, <4>1 DEF Handshake, GivesUp
      <4> QED
        BY <4>2 DEF Over
    <3> QED
      BY <3>2, <3>3
  <2>2. CASE UNCHANGED <<fatal, conn>>
    BY <1>0, <2>2
  <2>3. CASE FileFails \/ Cancel \/ EndFiles
    BY <1>0, <2>3 DEF FileFails, Cancel, EndFiles
  <2>4. CASE Connect \/ Drain \/ DrainEnds \/ DrainFails \/ Break \/ Wake \/ Read
    <3>1. conn # "ended" /\ fatal' = fatal
      BY <2>4 DEF Connect, Drain, DrainEnds, DrainFails, Break, Wake, Read
    <3> QED
      BY <1>0, <3>1
  <2>5. CASE CasterSends \/ CasterCloses \/ PlotFails \/ PutLine \/ ReadLine \/ Put \/ Take \/ Write \/ UNCHANGED vars
    BY <2>2, <2>5 DEF CasterSends, CasterCloses, PlotFails, PutLine, ReadLine, Put, Take, Write, vars, net
  <2> QED
    BY <2>1, <2>3, <2>4, <2>5 DEF Next, Environment, Adapter, Consumer
<1> QED
  BY <1>2, <1>3 DEF CasterIsSpared

\* However the caster refuses, resets or falls silent: a refusal for good ends the
\* adapter, and otherwise the longest pause has doubled with each failure in a row,
\* up to its limit, and is the base again once the caster has accepted.
THEOREM TheCasterIsSpared == Spec => []CasterIsSpared
<1>1. Init => CasterIsSpared
  <2> SUFFICES ASSUME Init PROVE CasterIsSpared
    OBVIOUS
  <2>1. Doubled = IF BackoffBase * 1 < BackoffMax THEN BackoffBase * 1 ELSE BackoffMax
    BY PowersDouble DEF Init, Doubled
  <2> QED
    BY <2>1, Ranges DEF Init, CasterIsSpared
<1> QED
  BY <1>1, SparedStep, TypeInvariant, PTL DEF Spec

\* ---- numbers on their way

\* The numbers of two sequences put together, and when they ascend.
LEMMA JoinedNumbers ==
  ASSUME NEW s \in Seq(Nat), NEW t \in Seq(Nat)
  PROVE  /\ s \o t \in Seq(Nat)
         /\ NumbersIn(s \o t) = NumbersIn(s) \cup NumbersIn(t)
         /\ Ascends(s \o t) <=> /\ Ascends(s) /\ Ascends(t)
                                /\ \A a \in NumbersIn(s), b \in NumbersIn(t) : a < b
<1> DEFINE u == s \o t
<1>1. /\ u \in Seq(Nat) /\ Len(u) = Len(s) + Len(t) /\ Len(s) \in Nat /\ Len(t) \in Nat
      /\ \A i \in 1..Len(s) : u[i] = s[i]
      /\ \A i \in 1..Len(t) : u[Len(s) + i] = t[i]
      /\ DOMAIN u = 1..Len(u) /\ DOMAIN s = 1..Len(s) /\ DOMAIN t = 1..Len(t)
  BY Joined
<1> HIDE DEF u
<1>2. \A i \in DOMAIN u : i \in DOMAIN s \/ (i - Len(s) \in DOMAIN t /\ u[i] = t[i - Len(s)])
  <2> SUFFICES ASSUME NEW i \in DOMAIN u, i \notin DOMAIN s
               PROVE  i - Len(s) \in DOMAIN t /\ u[i] = t[i - Len(s)]
    OBVIOUS
  <2>1. PICK k \in Int : k = i - Len(s)
    BY <1>1
  <2>2. k \in 1..Len(t) /\ i = Len(s) + k
    BY <1>1, <2>1
  <2> QED
    BY <1>1, <2>1, <2>2
<1>3. \A i \in DOMAIN s : i \in DOMAIN u /\ u[i] = s[i]
  BY <1>1
<1>4. \A i \in DOMAIN t : Len(s) + i \in DOMAIN u /\ u[Len(s) + i] = t[i]
  BY <1>1
<1>5. NumbersIn(u) = NumbersIn(s) \cup NumbersIn(t)
  <2>1. ASSUME NEW x \in NumbersIn(u) PROVE x \in NumbersIn(s) \cup NumbersIn(t)
    BY <1>2, <1>3 DEF NumbersIn
  <2>2. ASSUME NEW x \in NumbersIn(s) \cup NumbersIn(t) PROVE x \in NumbersIn(u)
    BY <1>3, <1>4 DEF NumbersIn
  <2> QED
    BY <2>1, <2>2
<1>6. ASSUME Ascends(u)
      PROVE  Ascends(s) /\ Ascends(t) /\ \A a \in NumbersIn(s), b \in NumbersIn(t) : a < b
  <2>1. Ascends(s)
    BY <1>3, <1>6 DEF Ascends
  <2>2. Ascends(t)
    <3> SUFFICES ASSUME NEW i \in DOMAIN t, NEW j \in DOMAIN t, i < j, t[i] # 0, t[j] # 0
                 PROVE  t[i] < t[j]
      BY DEF Ascends
    <3>1. Len(s) + i < Len(s) + j
      BY <1>1
    <3> QED
      BY <1>4, <1>6, <3>1 DEF Ascends
  <2>3. ASSUME NEW a \in NumbersIn(s), NEW b \in NumbersIn(t) PROVE a < b
    <3>1. PICK i \in DOMAIN s : s[i] = a /\ a # 0
      BY DEF NumbersIn
    <3>2. PICK j \in DOMAIN t : t[j] = b /\ b # 0
      BY DEF NumbersIn
    <3>3. i < Len(s) + j
      BY <1>1
    <3> QED
      BY <1>3, <1>4, <1>6, <3>1, <3>2, <3>3 DEF Ascends
  <2> QED
    BY <2>1, <2>2, <2>3
<1>7. ASSUME Ascends(s), Ascends(t), \A a \in NumbersIn(s), b \in NumbersIn(t) : a < b
      PROVE  Ascends(u)
  <2> SUFFICES ASSUME NEW i \in DOMAIN u, NEW j \in DOMAIN u, i < j, u[i] # 0, u[j] # 0
               PROVE  u[i] < u[j]
    BY DEF Ascends
  <2>1. CASE j \in DOMAIN s
    <3>1. i \in DOMAIN s
      BY <1>1, <2>1
    <3> QED
      BY <1>3, <1>7, <2>1, <3>1 DEF Ascends
  <2>2. CASE i \in DOMAIN s /\ j \notin DOMAIN s
    <3>1. u[i] \in NumbersIn(s)
      BY <1>3, <2>2 DEF NumbersIn
    <3>2. u[j] \in NumbersIn(t)
      BY <1>2, <2>2 DEF NumbersIn
    <3> QED
      BY <1>7, <3>1, <3>2
  <2>3. CASE i \notin DOMAIN s
    <3>1. i - Len(s) \in DOMAIN t /\ j - Len(s) \in DOMAIN t /\ j \notin DOMAIN s
      BY <1>1, <1>2, <2>3, SMTT(30)
    <3>2. i - Len(s) < j - Len(s)
      BY <1>1
    <3> QED
      BY <1>2, <1>7, <2>3, <3>1, <3>2 DEF Ascends
  <2> QED
    BY <2>1, <2>2, <2>3
<1> QED
  BY <1>1, <1>5, <1>6, <1>7 DEF u

\* One number, or none.
LEMMA FewNumbers ==
  /\ <<>> \in Seq(Nat) /\ NumbersIn(<<>>) = {} /\ Ascends(<<>>)
  /\ \A x \in Nat : <<x>> \in Seq(Nat) /\ NumbersIn(<<x>>) = {x} \ {0} /\ Ascends(<<x>>)
<1>1. <<>> \in Seq(Nat) /\ NumbersIn(<<>>) = {} /\ Ascends(<<>>)
  BY DEF NumbersIn, Ascends
<1>2. ASSUME NEW x \in Nat
      PROVE  <<x>> \in Seq(Nat) /\ NumbersIn(<<x>>) = {x} \ {0} /\ Ascends(<<x>>)
  <2>1. <<x>> \in Seq(Nat) /\ Len(<<x>>) = 1 /\ <<x>>[1] = x /\ DOMAIN <<x>> = {1}
    OBVIOUS
  <2>2. NumbersIn(<<x>>) = {x} \ {0}
    BY <2>1 DEF NumbersIn
  <2>3. Ascends(<<x>>)
    BY <2>1 DEF Ascends
  <2> QED
    BY <2>1, <2>2, <2>3
<1> QED
  BY <1>1, <1>2

\* The number of a line.
LEMMA NumberOfLine ==
  ASSUME NEW x \in Seq(Fragments)
  PROVE  /\ NumberOf(x) \in Nat /\ (NumberOf(x) # 0 => NumberOf(x) \in SoundNumbers /\ x = Whole(NumberOf(x)))
         /\ (x # EndOfFiles /\ Sound(x)) => NumberOf(x) = x[1][1] /\ NumberOf(x) \in Numbers
         /\ ~(x # EndOfFiles /\ Sound(x)) => NumberOf(x) = 0
<1>1. CASE x # EndOfFiles /\ Sound(x)
  <2>1. NumberOf(x) = x[1][1]
    BY <1>1 DEF NumberOf
  <2> QED
    BY <1>1, <2>1, SoundNumber, Ranges
<1>2. CASE ~(x # EndOfFiles /\ Sound(x))
  BY <1>2 DEF NumberOf
<1> QED
  BY <1>1, <1>2

\* A recorded line has its own number if it is sound.
LEMMA NumberOfWhole ==
  ASSUME NEW n \in Numbers
  PROVE  /\ NumberOf(Whole(n)) = (IF n \in SoundNumbers THEN n ELSE 0) /\ Whole(n) # EndOfFiles
         /\ Whole(n) # Blank /\ n # 0
<1>1. Whole(n)[1][1] = n /\ Len(Whole(n)) = 2
  BY DEF Whole
<1>2. Whole(n) # EndOfFiles /\ Whole(n) # Blank /\ n # 0
  <2>1. Len(Blank) = 1 /\ Len(EndOfFiles) = 0
    BY DEF Blank, EndOfFiles
  <2>2. Whole(n) # EndOfFiles /\ Whole(n) # Blank
    BY <1>1, <2>1
  <2> QED
    BY <2>2 DEF Numbers
<1> QED
  BY <1>1, <1>2 DEF NumberOf, SoundNumbers

\* Sequences of numbers are equal if they are as long and agree everywhere.
LEMMA SameNumbers ==
  ASSUME NEW s \in Seq(Nat), NEW t \in Seq(Nat), Len(s) = Len(t), \A i \in 1..Len(s) : s[i] = t[i]
  PROVE  s = t
  OBVIOUS

\* Lists of numbers put together.
LEMMA JoinedLists ==
  \A s, t \in Seq(Nat) :
     /\ s \o t \in Seq(Nat) /\ Len(s \o t) = Len(s) + Len(t)
     /\ \A i \in 1..Len(s) : (s \o t)[i] = s[i]
     /\ \A i \in 1..Len(t) : (s \o t)[Len(s) + i] = t[i]
  BY Joined

\* Each line has its number.
LEMMA NumbersOfEach ==
  ASSUME NEW q \in Seq(Seq(Fragments))
  PROVE  /\ NumbersOf(q) \in Seq(Nat) /\ Len(NumbersOf(q)) = Len(q)
         /\ \A i \in 1..Len(q) : NumbersOf(q)[i] = NumberOf(q[i])
<1>1. DOMAIN q = 1..Len(q) /\ Len(q) \in Nat /\ \A i \in DOMAIN q : q[i] \in Seq(Fragments)
  OBVIOUS
<1>2. \A i \in DOMAIN q : NumberOf(q[i]) \in Nat
  BY <1>1, NumberOfLine
<1>3. \A n \in Nat : \A s \in [1..n -> Nat] : s \in Seq(Nat) /\ Len(s) = n
  OBVIOUS
<1> QED
  BY <1>1, <1>2, <1>3 DEF NumbersOf

\* The number of an appended line comes last.
LEMMA NumbersAppended ==
  ASSUME NEW q \in Seq(Seq(Fragments)), NEW x \in Seq(Fragments)
  PROVE  NumbersOf(Append(q, x)) = NumbersOf(q) \o <<NumberOf(x)>>
<1> DEFINE a == Append(q, x)
           y == <<NumberOf(x)>>
           h == NumbersOf(q) \o y
<1>1. /\ a \in Seq(Seq(Fragments)) /\ Len(a) = Len(q) + 1 /\ Len(q) \in Nat
      /\ (\A i \in 1..Len(q) : a[i] = q[i]) /\ a[Len(q) + 1] = x
  BY Appended
<1>2. y \in Seq(Nat) /\ Len(y) = 1 /\ y[1] = NumberOf(x)
  BY NumberOfLine, FewNumbers
<1> HIDE DEF a, y
<1>3. /\ NumbersOf(q) \in Seq(Nat) /\ Len(NumbersOf(q)) = Len(q)
      /\ \A i \in 1..Len(q) : NumbersOf(q)[i] = NumberOf(q[i])
  BY NumbersOfEach
<1>4. /\ NumbersOf(a) \in Seq(Nat) /\ Len(NumbersOf(a)) = Len(q) + 1
      /\ \A i \in 1..(Len(q) + 1) : NumbersOf(a)[i] = NumberOf(a[i])
  BY <1>1, NumbersOfEach
<1>5. /\ h \in Seq(Nat) /\ Len(h) = Len(q) + 1
      /\ (\A i \in 1..Len(q) : h[i] = NumberOf(q[i])) /\ h[Len(q) + 1] = NumberOf(x)
  <2>1. /\ h \in Seq(Nat) /\ Len(h) = Len(NumbersOf(q)) + Len(y)
        /\ \A i \in 1..Len(NumbersOf(q)) : h[i] = NumbersOf(q)[i]
        /\ \A i \in 1..Len(y) : h[Len(NumbersOf(q)) + i] = y[i]
    BY <1>2, <1>3, JoinedLists
  <2> HIDE DEF h
  <2> QED
    BY <1>1, <1>2, <1>3, <2>1
<1> HIDE DEF h
<1>6. \A i \in 1..(Len(q) + 1) : NumbersOf(a)[i] = h[i]
  <2> SUFFICES ASSUME NEW i \in 1..(Len(q) + 1) PROVE NumbersOf(a)[i] = h[i]
    OBVIOUS
  <2>1. CASE i = Len(q) + 1
    BY <1>1, <1>4, <1>5, <2>1
  <2>2. CASE i \in 1..Len(q)
    BY <1>1, <1>4, <1>5, <2>2
  <2> QED
    BY <1>1, <2>1, <2>2
<1>7. NumbersOf(a) = h
  BY <1>4, <1>5, <1>6, SameNumbers
<1> QED
  BY <1>7 DEF a, h, y

\* The number of the first line comes first.
LEMMA NumbersHeaded ==
  ASSUME NEW q \in Seq(Seq(Fragments)), q # <<>>
  PROVE  NumbersOf(q) = <<NumberOf(q[1])>> \o NumbersOf(Tail(q))
<1> DEFINE r == Tail(q)
           y == <<NumberOf(q[1])>>
           h == y \o NumbersOf(r)
<1>1. /\ r \in Seq(Seq(Fragments)) /\ Len(q) \in Nat /\ Len(q) >= 1 /\ Len(r) = Len(q) - 1
      /\ (\A i \in 1..Len(r) : r[i] = q[i + 1]) /\ q[1] \in Seq(Fragments)
  BY HeadAndRest
<1>2. y \in Seq(Nat) /\ Len(y) = 1 /\ y[1] = NumberOf(q[1])
  BY <1>1, NumberOfLine, FewNumbers
<1> HIDE DEF r, y
<1>3. /\ NumbersOf(r) \in Seq(Nat) /\ Len(NumbersOf(r)) = Len(r)
      /\ \A i \in 1..Len(r) : NumbersOf(r)[i] = NumberOf(r[i])
  BY <1>1, NumbersOfEach
<1>4. /\ NumbersOf(q) \in Seq(Nat) /\ Len(NumbersOf(q)) = Len(q)
      /\ \A i \in 1..Len(q) : NumbersOf(q)[i] = NumberOf(q[i])
  BY NumbersOfEach
<1>5. /\ h \in Seq(Nat) /\ Len(h) = Len(q) /\ h[1] = NumberOf(q[1])
      /\ \A i \in 1..Len(r) : h[i + 1] = NumberOf(r[i])
  <2>1. /\ h \in Seq(Nat) /\ Len(h) = Len(y) + Len(NumbersOf(r))
        /\ \A i \in 1..Len(y) : h[i] = y[i]
        /\ \A i \in 1..Len(NumbersOf(r)) : h[Len(y) + i] = NumbersOf(r)[i]
    BY <1>2, <1>3, JoinedLists
  <2> HIDE DEF h
  <2>2. \A i \in 1..Len(r) : h[1 + i] = NumberOf(r[i]) /\ 1 + i = i + 1
    <3> SUFFICES ASSUME NEW i \in 1..Len(r) PROVE h[1 + i] = NumberOf(r[i]) /\ 1 + i = i + 1
      OBVIOUS
    <3>1. i \in 1..Len(NumbersOf(r)) /\ Len(y) = 1 /\ 1 + i = i + 1
      BY <1>2, <1>3
    <3>2. h[Len(y) + i] = NumbersOf(r)[i]
      BY <2>1, <3>1
    <3>3. NumbersOf(r)[i] = NumberOf(r[i])
      BY <1>3
    <3> QED
      BY <3>1, <3>2, <3>3
  <2> QED
    BY <1>1, <1>2, <1>3, <2>1, <2>2
<1> HIDE DEF h
<1>6. \A i \in 1..Len(q) : NumbersOf(q)[i] = h[i]
  <2> SUFFICES ASSUME NEW i \in 1..Len(q) PROVE NumbersOf(q)[i] = h[i]
    OBVIOUS
  <2>1. CASE i = 1
    BY <1>1, <1>4, <1>5, <2>1
  <2>2. CASE i # 1
    <3>1. PICK k \in Nat : k + 1 = i /\ k \in 1..Len(r)
      <4>1. i - 1 \in Nat /\ (i - 1) + 1 = i /\ i - 1 \in 1..Len(r)
        BY <1>1, <2>2
      <4> QED
        BY <4>1
    <3> QED
      BY <1>1, <1>4, <1>5, <3>1
  <2> QED
    BY <2>1, <2>2
<1>7. NumbersOf(q) = h
  BY <1>4, <1>5, <1>6, SameNumbers
<1> QED
  BY <1>7 DEF h, y, r

\* ---- what is ahead of the source: written, handed over or queued

\* The numbers in three sequences put together, and when they ascend.
LEMMA ThreeParts ==
  ASSUME NEW d \in Seq(Nat), NEW h \in Seq(Nat), NEW q \in Seq(Nat)
  PROVE  /\ d \o h \o q \in Seq(Nat)
         /\ NumbersIn(d \o h \o q) = NumbersIn(d) \cup NumbersIn(h) \cup NumbersIn(q)
         /\ Ascends(d \o h \o q) <=>
              /\ Ascends(d) /\ Ascends(h) /\ Ascends(q)
              /\ \A a \in NumbersIn(d), b \in NumbersIn(h) : a < b
              /\ \A a \in NumbersIn(d) \cup NumbersIn(h), b \in NumbersIn(q) : a < b
<1>1. PICK u \in Seq(Nat) : u = d \o h
  BY JoinedNumbers
<1>2. NumbersIn(u) = NumbersIn(d) \cup NumbersIn(h)
  BY <1>1, JoinedNumbers
<1>3. Ascends(u) <=> Ascends(d) /\ Ascends(h) /\ \A a \in NumbersIn(d), b \in NumbersIn(h) : a < b
  BY <1>1, JoinedNumbers
<1>4. /\ u \o q \in Seq(Nat) /\ NumbersIn(u \o q) = NumbersIn(u) \cup NumbersIn(q)
      /\ Ascends(u \o q) <=> Ascends(u) /\ Ascends(q) /\ \A a \in NumbersIn(u), b \in NumbersIn(q) : a < b
  BY JoinedNumbers
<1> QED
  BY <1>1, <1>2, <1>3, <1>4

\* The same of any three.
LEMMA ThreeLists ==
  \A d, h, q \in Seq(Nat) :
     /\ NumbersIn(d \o h \o q) = NumbersIn(d) \cup NumbersIn(h) \cup NumbersIn(q)
     /\ Ascends(d \o h \o q) <=>
          /\ Ascends(d) /\ Ascends(h) /\ Ascends(q)
          /\ \A a \in NumbersIn(d), b \in NumbersIn(h) : a < b
          /\ \A a \in NumbersIn(d) \cup NumbersIn(h), b \in NumbersIn(q) : a < b
  BY ThreeParts

\* A number that is taken out of the queue is handed over, or was none.
LEMMA TakenNumber ==
  ASSUME NEW d \in Seq(Nat), NEW q \in Seq(Nat), NEW x \in Nat, NEW k, k = IF x = 0 THEN <<>> ELSE <<x>>
  PROVE  /\ NumbersIn(d \o k \o q) = NumbersIn(d \o <<>> \o (<<x>> \o q))
         /\ Ascends(d \o <<>> \o (<<x>> \o q)) => Ascends(d \o k \o q)
<1>1. /\ <<>> \in Seq(Nat) /\ NumbersIn(<<>>) = {} /\ Ascends(<<>>)
      /\ <<x>> \in Seq(Nat) /\ NumbersIn(<<x>>) = {x} \ {0} /\ Ascends(<<x>>)
  BY FewNumbers
<1>2. PICK h \in Seq(Nat) : h = k /\ NumbersIn(h) = {x} \ {0} /\ Ascends(h)
  <2>1. CASE x = 0
    BY <1>1, <2>1
  <2>2. CASE x # 0
    BY <1>1, <2>2
  <2> QED
    BY <2>1, <2>2
<1>3. PICK r \in Seq(Nat) : r = <<x>> \o q
  BY <1>1, JoinedNumbers
<1>4. /\ NumbersIn(r) = ({x} \ {0}) \cup NumbersIn(q)
      /\ Ascends(r) <=> Ascends(q) /\ \A a \in {x} \ {0}, b \in NumbersIn(q) : a < b
  <2>1. /\ NumbersIn(<<x>> \o q) = NumbersIn(<<x>>) \cup NumbersIn(q)
        /\ Ascends(<<x>> \o q) <=> Ascends(<<x>>) /\ Ascends(q)
                                      /\ \A a \in NumbersIn(<<x>>), b \in NumbersIn(q) : a < b
    BY <1>1, JoinedNumbers, Zenon
  <2> QED
    BY <1>1, <1>3, <2>1, Zenon
<1>5. /\ NumbersIn(d \o h \o q) = NumbersIn(d) \cup NumbersIn(h) \cup NumbersIn(q)
      /\ Ascends(d \o h \o q) <=>
              /\ Ascends(d) /\ Ascends(h) /\ Ascends(q)
              /\ \A a \in NumbersIn(d), b \in NumbersIn(h) : a < b
              /\ \A a \in NumbersIn(d) \cup NumbersIn(h), b \in NumbersIn(q) : a < b
  BY ThreeLists
<1>6. /\ NumbersIn(d \o <<>> \o r) = NumbersIn(d) \cup NumbersIn(<<>>) \cup NumbersIn(r)
      /\ Ascends(d \o <<>> \o r) <=>
              /\ Ascends(d) /\ Ascends(<<>>) /\ Ascends(r)
              /\ \A a \in NumbersIn(d), b \in NumbersIn(<<>>) : a < b
              /\ \A a \in NumbersIn(d) \cup NumbersIn(<<>>), b \in NumbersIn(r) : a < b
  BY <1>1, ThreeLists, ZenonT(60)
<1>7. NumbersIn(d \o h \o q) = NumbersIn(d \o <<>> \o r)
  BY <1>1, <1>2, <1>4, <1>5, <1>6
<1>8. ASSUME Ascends(d \o <<>> \o r)
      PROVE  Ascends(d \o h \o q)
  <2>1. Ascends(d) /\ Ascends(q)
    BY <1>4, <1>6, <1>8
  <2>2. \A a \in NumbersIn(d), b \in ({x} \ {0}) \cup NumbersIn(q) : a < b
    BY <1>4, <1>6, <1>8
  <2>3. \A a \in {x} \ {0}, b \in NumbersIn(q) : a < b
    BY <1>4, <1>6, <1>8
  <2> QED
    BY <1>2, <1>5, <2>1, <2>2, <2>3
<1> QED
  BY <1>2, <1>3, <1>7, <1>8

\* A number that is written was handed over.
LEMMA WrittenNumber ==
  ASSUME NEW d \in Seq(Nat), NEW q \in Seq(Nat), NEW x \in Nat
  PROVE  /\ Append(d, x) \in Seq(Nat)
         /\ NumbersIn(Append(d, x)) = NumbersIn(d) \cup ({x} \ {0})
         /\ Append(d, x) \o <<>> \o q = d \o <<x>> \o q
<1>1. Append(d, x) \in Seq(Nat) /\ Append(d, x) = d \o <<x>> /\ <<x>> \in Seq(Nat)
      /\ NumbersIn(<<x>>) = {x} \ {0}
  BY FewNumbers
<1>2. NumbersIn(d \o <<x>>) = NumbersIn(d) \cup NumbersIn(<<x>>)
  BY <1>1, JoinedNumbers, Zenon
<1>3. \A s \in Seq(Nat) : s \o <<>> = s
  OBVIOUS
<1> QED
  BY <1>1, <1>2, <1>3, Zenon

\* A number that is queued comes last.
LEMMA QueuedNumber ==
  ASSUME NEW u \in Seq(Nat), NEW q \in Seq(Nat), NEW x \in Nat
  PROVE  /\ NumbersIn(u \o (q \o <<x>>)) = NumbersIn(u \o q) \cup ({x} \ {0})
         /\ Ascends(u \o (q \o <<x>>)) <=> Ascends(u \o q) /\ (x # 0 => \A a \in NumbersIn(u \o q) : a < x)
<1>1. PICK w \in Seq(Nat) : w = u \o q
  BY JoinedNumbers
<1>2. <<x>> \in Seq(Nat) /\ NumbersIn(<<x>>) = {x} \ {0} /\ Ascends(<<x>>)
  BY FewNumbers
<1>3. u \o (q \o <<x>>) = w \o <<x>>
  BY <1>1, <1>2
<1>4. /\ NumbersIn(w \o <<x>>) = NumbersIn(w) \cup NumbersIn(<<x>>)
      /\ Ascends(w \o <<x>>) <=>
           Ascends(w) /\ Ascends(<<x>>) /\ \A a \in NumbersIn(w), b \in NumbersIn(<<x>>) : a < b
  BY <1>2, JoinedNumbers
<1> QED
  BY <1>1, <1>2, <1>3, <1>4

\* The types of what is ahead.
LEMMA AheadTypes ==
  ASSUME TypeOK
  PROVE  /\ written["db"] \in Seq(Nat) /\ Handed \in Seq(Nat) /\ NumbersOf(queue) \in Seq(Nat)
         /\ NumbersOf(todo) \in Seq(Nat)
         /\ written["db"] \o Handed \in Seq(Nat) /\ Ahead \in Seq(Nat)
<1>1. written["db"] \in Seq(Nat)
  <2>1. written["db"] \in Seq(Numbers)
    BY DEF TypeOK
  <2>2. \A s \in Seq(Numbers) : s \in Seq(Nat)
    BY DEF Numbers
  <2> QED
    BY <2>1, <2>2
<1>2. Handed \in Seq(Nat)
  <2>1. hand # <<>> => hand[1] \in Nat
    BY Ranges DEF TypeOK
  <2> QED
    BY <2>1, FewNumbers DEF Handed
<1>3. NumbersOf(queue) \in Seq(Nat) /\ NumbersOf(todo) \in Seq(Nat)
  BY NumbersOfEach DEF TypeOK
<1>4. written["db"] \o Handed \in Seq(Nat)
  BY <1>1, <1>2, JoinedNumbers
<1> QED
  BY <1>1, <1>2, <1>3, <1>4, JoinedNumbers DEF Ahead

\* The consumer keeps what is ahead and its order.
LEMMA ConsumerKeeps ==
  ASSUME TypeOK, Take \/ Write \/ PlotFails
  PROVE  NumbersIn(Ahead') = NumbersIn(Ahead) /\ (Ascends(Ahead) => Ascends(Ahead'))
<1>0. written["db"] \in Seq(Nat) /\ Handed \in Seq(Nat) /\ NumbersOf(queue) \in Seq(Nat)
  BY AheadTypes
<1>1. CASE Take
  <2>1. queue # <<>> /\ queue \in Seq(Seq(Fragments)) /\ queue' = Tail(queue) /\ hand = <<>>
        /\ written' = written
    BY <1>1 DEF Take, TypeOK
  <2>2. queue[1] \in Seq(Fragments) /\ queue' \in Seq(Seq(Fragments))
    BY <2>1, HeadAndRest
  <2>3. PICK x \in Nat : x = NumberOf(queue[1])
    BY <2>2, NumberOfLine
  <2>4. NumbersOf(queue) = <<x>> \o NumbersOf(queue')
    BY <2>1, <2>3, NumbersHeaded
  <2>5. Handed' = IF x = 0 THEN <<>> ELSE <<x>>
    <3>1. CASE queue[1] # EndOfFiles /\ Sound(queue[1])
      <4>1. x = queue[1][1][1] /\ x # 0
        BY <2>2, <2>3, <3>1, NumberOfLine DEF Numbers
      <4>2. hand' = <<x, 1>>
        BY <1>1, <3>1, <4>1 DEF Take
      <4>3. Handed' = <<x>>
        BY <4>2 DEF Handed
      <4> QED
        BY <4>1, <4>3
    <3>2. CASE ~(queue[1] # EndOfFiles /\ Sound(queue[1]))
      <4>1. x = 0
        BY <2>2, <2>3, <3>2, NumberOfLine
      <4>2. hand' = <<>>
        BY <1>1, <2>1, <3>2 DEF Take
      <4> QED
        BY <4>1, <4>2 DEF Handed
    <3> QED
      BY <3>1, <3>2
  <2>6. Handed = <<>>
    BY <2>1 DEF Handed
  <2>7. NumbersOf(queue') \in Seq(Nat)
    BY <2>2, NumbersOfEach
  <2>8. Ahead = written["db"] \o <<>> \o (<<x>> \o NumbersOf(queue'))
    BY <2>4, <2>6 DEF Ahead
  <2>9. Ahead' = written["db"] \o Handed' \o NumbersOf(queue')
    BY <2>1 DEF Ahead, NumbersOf
  <2> QED
    BY <1>0, <2>5, <2>7, <2>8, <2>9, TakenNumber
<1>2. CASE Write
  <2>1. hand # <<>> /\ hand[1] \in Nat /\ queue' = queue
    BY <1>2, Ranges DEF Write, TypeOK
  <2>2. NumbersOf(queue)' = NumbersOf(queue)
    BY <2>1 DEF NumbersOf
  <2>3. CASE hand[2] = 1 /\ written' = [written EXCEPT !["db"] = Append(@, hand[1])]
             /\ hand' = IF Live THEN <<>> ELSE <<hand[1], 2>>
    <3>1. Handed = <<hand[1]>> /\ Handed' = <<>>
      BY <2>1, <2>3 DEF Handed
    <3>2. written'["db"] = Append(written["db"], hand[1])
      BY <2>3 DEF TypeOK
    <3>3. Ahead' = Append(written["db"], hand[1]) \o <<>> \o NumbersOf(queue)
      BY <2>2, <3>1, <3>2 DEF Ahead
    <3>4. Ahead = written["db"] \o <<hand[1]>> \o NumbersOf(queue)
      BY <3>1 DEF Ahead
    <3>5. \A d, q \in Seq(Nat) : \A x \in Nat : Append(d, x) \o <<>> \o q = d \o <<x>> \o q
      BY WrittenNumber
    <3>6. Ahead' = Ahead
      BY <1>0, <2>1, <3>3, <3>4, <3>5, Zenon
    <3> QED
      BY <3>6
  <2>4. CASE ~Live /\ hand[2] = 2 /\ written' = [written EXCEPT !["plot"] = Append(@, hand[1])]
             /\ hand' = <<>>
    <3>1. Handed = <<>> /\ Handed' = <<>>
      BY <2>4 DEF Handed
    <3>2. written'["db"] = written["db"]
      BY <2>4 DEF TypeOK
    <3> QED
      BY <2>2, <3>1, <3>2 DEF Ahead
  <2> QED
    BY <1>2, <2>3, <2>4, WriteServes
<1>3. CASE PlotFails
  <2>1. hand # <<>> /\ hand' = <<>> /\ UNCHANGED <<queue, written>> /\ Served(hand[2]) = "plot"
    BY <1>3 DEF PlotFails
  <2>2. hand[2] # 1
    <3>1. Served(1) # "plot"
      BY WritersFacts DEF Served
    <3> QED
      BY <2>1, <3>1
  <2>3. Handed = <<>> /\ Handed' = <<>>
    BY <2>1, <2>2 DEF Handed
  <2> QED
    BY <2>1, <2>3 DEF Ahead, NumbersOf
<1> QED
  BY <1>1, <1>2, <1>3

\* A line that is queued is ahead, after everything else.
LEMMA QueueingAdds ==
  ASSUME TypeOK, NEW x \in Seq(Fragments), queue' = Append(queue, x), UNCHANGED <<written, hand>>
  PROVE  /\ NumbersIn(Ahead') = NumbersIn(Ahead) \cup ({NumberOf(x)} \ {0})
         /\ Ascends(Ahead') <=> Ascends(Ahead) /\ (NumberOf(x) # 0 => \A a \in NumbersIn(Ahead) : a < NumberOf(x))
<1>1. NumbersOf(queue)' = NumbersOf(queue) \o <<NumberOf(x)>>
  <2>1. NumbersOf(queue') = NumbersOf(queue) \o <<NumberOf(x)>>
    BY NumbersAppended DEF TypeOK
  <2> QED
    BY <2>1 DEF NumbersOf
<1>2. Ahead' = written["db"] \o Handed \o (NumbersOf(queue) \o <<NumberOf(x)>>)
  BY <1>1 DEF Ahead, Handed
<1>3. NumberOf(x) \in Nat
  BY NumberOfLine
<1>4. PICK u \in Seq(Nat), q \in Seq(Nat) : u = written["db"] \o Handed /\ q = NumbersOf(queue)
  BY AheadTypes
<1>5. Ahead = u \o q /\ Ahead' = u \o (q \o <<NumberOf(x)>>)
  BY <1>2, <1>4 DEF Ahead
<1> QED
  BY <1>3, <1>5, QueuedNumber

\* ---- the replay

\* What a write adds to the database stays there.
LEMMA WrittenStays ==
  ASSUME TypeOK, Write
  PROVE  /\ NumbersIn(written["db"]) \subseteq NumbersIn(written'["db"])
         /\ hand[2] = 1 => hand[1] \in NumbersIn(written'["db"]) /\ written'["plot"] = written["plot"]
         /\ hand[2] = 2 => /\ written'["db"] = written["db"]
                           /\ NumbersIn(written'["plot"]) = NumbersIn(written["plot"]) \cup {hand[1]}
<1>1. hand[1] \in Nat /\ hand[1] # 0
  <2>1. hand[1] \in Numbers
    BY DEF Write, TypeOK
  <2> QED
    BY <2>1 DEF Numbers
<1>2. written["db"] \in Seq(Nat) /\ written["plot"] \in Seq(Nat)
  <2>1. written["db"] \in Seq(Numbers) /\ written["plot"] \in Seq(Numbers)
    BY DEF TypeOK
  <2>2. \A s \in Seq(Numbers) : s \in Seq(Nat)
    BY DEF Numbers
  <2> QED
    BY <2>1, <2>2
<1>3. \A d \in Seq(Nat) : \A x \in Nat : NumbersIn(Append(d, x)) = NumbersIn(d) \cup ({x} \ {0})
  BY WrittenNumber
<1>4. CASE hand[2] = 1 /\ written' = [written EXCEPT !["db"] = Append(@, hand[1])]
  <2>1. written'["db"] = Append(written["db"], hand[1]) /\ written'["plot"] = written["plot"]
    BY <1>4 DEF TypeOK
  <2> QED
    BY <1>1, <1>2, <1>3, <1>4, <2>1
<1>5. CASE hand[2] = 2 /\ written' = [written EXCEPT !["plot"] = Append(@, hand[1])]
  <2>1. written'["plot"] = Append(written["plot"], hand[1]) /\ written'["db"] = written["db"]
    BY <1>5 DEF TypeOK
  <2> QED
    BY <1>1, <1>2, <1>3, <1>5, <2>1
<1> QED
  BY <1>4, <1>5, WriteServes

\* The steps that leave the consumer alone.
LEMMA ConsumerSteps ==
  ASSUME [Next]_vars
  PROVE  Take \/ Write \/ PlotFails \/ FileFails \/ Cancel \/ UNCHANGED <<hand, core, written>>
<1>1. CASE CasterSends \/ CasterCloses \/ Connect \/ \E r \in Replies : Handshake(r)
  BY <1>1 DEF CasterSends, CasterCloses, Connect, Handshake
<1>2. CASE Drain \/ DrainEnds \/ DrainFails \/ Read \/ PutLine \/ Break \/ Wake
  BY <1>2 DEF Drain, DrainEnds, DrainFails, Read, PutLine, Break, Wake
<1>3. CASE ReadLine \/ EndFiles \/ Put \/ UNCHANGED vars
  BY <1>3 DEF ReadLine, EndFiles, Put, vars
<1> QED
  BY <1>1, <1>2, <1>3 DEF Next, Environment, Adapter, Consumer

\* The plot shows what the database has, and a sentence in the plotter's hands is in
\* the database.
LEMMA PlotInvariant == Spec => [](PlotBehindDatabase /\ PlotInv)
<1>1. Init => PlotBehindDatabase /\ PlotInv
  BY FewNumbers DEF Init, PlotBehindDatabase, PlotInv
<1>2. TypeOK /\ PlotBehindDatabase /\ PlotInv /\ [Next]_vars => PlotBehindDatabase' /\ PlotInv'
  <2> SUFFICES ASSUME TypeOK, PlotBehindDatabase, PlotInv, [Next]_vars
               PROVE  PlotBehindDatabase' /\ PlotInv'
    OBVIOUS
  <2>1. CASE UNCHANGED <<hand, core, written>>
    BY <2>1 DEF PlotBehindDatabase, PlotInv
  <2>2. CASE FileFails \/ Cancel \/ PlotFails
    BY <2>2 DEF FileFails, Cancel, PlotFails, PlotBehindDatabase, PlotInv
  <2>3. CASE Take
    <3>1. written' = written /\ (hand' = <<>> \/ hand'[2] = 1)
      BY <2>3 DEF Take
    <3> QED
      BY <3>1 DEF PlotBehindDatabase, PlotInv
  <2>4. CASE Write
    <3>1. hand # <<>>
      BY <2>4 DEF Write
    <3>2. CASE hand[2] = 1 /\ hand' = IF Live THEN <<>> ELSE <<hand[1], 2>>
      <4>1. hand' # <<>> => hand'[1] = hand[1]
        BY <3>2
      <4> QED
        BY <2>4, <3>2, <4>1, WrittenStays DEF PlotBehindDatabase, PlotInv
    <3>3. CASE hand[2] = 2 /\ hand' = <<>>
      BY <2>4, <3>1, <3>3, WrittenStays DEF PlotBehindDatabase, PlotInv
    <3> QED
      BY <2>4, <3>2, <3>3, WriteServes
  <2> QED
    BY <2>1, <2>2, <2>3, <2>4, ConsumerSteps
<1> QED
  BY <1>1, <1>2, TypeInvariant, PTL DEF Spec

\* Which steps a replay takes.
LEMMA ReplaySteps ==
  ASSUME mode = "replay", conn \in {"open", "ended"}, [Next]_vars
  PROVE  \/ ReadLine \/ EndFiles \/ Put \/ Take \/ Write \/ PlotFails
         \/ core' = "cancelled" \/ UNCHANGED vars
<1>1. ~Live
  BY DEF Live
<1>2. ~CasterSends /\ ~CasterCloses /\ ~Connect /\ ~Read /\ ~PutLine /\ ~Break
  BY <1>1 DEF CasterSends, CasterCloses, Connect, Read, PutLine, Break
<1>3. ~Drain /\ ~DrainEnds /\ ~DrainFails /\ ~Wake
  BY DEF Drain, DrainEnds, DrainFails, Wake
<1>4. ~\E r \in Replies : Handshake(r)
  BY DEF Handshake
<1>5. FileFails \/ Cancel => core' = "cancelled"
  BY DEF FileFails, Cancel
<1> QED
  BY <1>2, <1>3, <1>4, <1>5 DEF Next, Environment, Adapter, Consumer

\* A recorded line is read while the line before is put.
LEMMA ReadLineKeeps ==
  ASSUME TypeOK, EndIsLast, LinesKept, core # "cancelled", ReadLine
  PROVE  EndIsLast' /\ LinesKept'
<1>1. PICK n \in Numbers : n = clock + 1 /\ clock' = n /\ todo' = <<Whole(n)>>
  BY Ranges DEF ReadLine, TypeOK, Numbers
<1>2. /\ todo = <<>> /\ conn = "open" /\ UNCHANGED <<conn, queue, hand, core, written>>
      /\ clock # Len(Sentence)
  BY Ranges DEF ReadLine, TypeOK
<1>3. Whole(n) # EndOfFiles /\ NumberOf(Whole(n)) = IF n \in SoundNumbers THEN n ELSE 0
  BY NumberOfWhole
<1>4. Len(todo') = 1 /\ DOMAIN todo' = {1} /\ todo'[1] = Whole(n)
  BY <1>1
<1>5. EndIsLast'
  BY <1>2, <1>3, <1>4 DEF EndIsLast
<1>6. NumbersIn(Pending) = {}
  <2>1. NumbersOf(todo) = <<>>
    BY <1>2 DEF NumbersOf
  <2> QED
    BY <2>1, FewNumbers DEF Pending
<1>7. NumbersIn(Pending') = {n} \cap SoundNumbers
  <2>1. NumbersOf(todo') = [i \in {1} |-> NumberOf(Whole(n))]
    BY <1>4 DEF NumbersOf
  <2>2. NumbersIn(NumbersOf(todo')) = {NumberOf(Whole(n))} \ {0}
    BY <2>1 DEF NumbersIn
  <2>3. NumbersIn(Pending') = {NumberOf(Whole(n))} \ {0}
    BY <2>2 DEF Pending, NumbersOf
  <2>4. n # 0
    BY DEF Numbers
  <2> QED
    BY <1>3, <2>3, <2>4
<1>8. Ahead' = Ahead
  BY <1>2 DEF Ahead, Handed, NumbersOf
<1>9. \A m \in SoundNumbers : m \in Nat /\ (m <= n <=> m <= clock \/ m = n)
  <2>1. \A m \in SoundNumbers : m \in Nat
    BY Ranges DEF SoundNumbers
  <2>2. clock \in Nat /\ n \in Nat
    BY <1>1, Ranges DEF TypeOK
  <2> QED
    BY <1>1, <2>1, <2>2
<1>10. NumbersIn(Ahead') \cup NumbersIn(Pending') = {m \in SoundNumbers : m <= n}
  BY <1>6, <1>7, <1>8, <1>9 DEF LinesKept
<1>11. \A a \in NumbersIn(Ahead), b \in {n} \cap SoundNumbers : a < b
  <2>1. \A a \in NumbersIn(Ahead) : a \in SoundNumbers /\ a <= clock
    BY DEF LinesKept
  <2>2. clock \in Nat /\ n \in Nat
    BY <1>1, Ranges DEF TypeOK
  <2> QED
    BY <1>1, <1>9, <2>1, <2>2
<1>12. clock' = n
  BY <1>1
<1>13. LinesKept'
  BY <1>7, <1>8, <1>10, <1>11, <1>12 DEF LinesKept
<1> QED
  BY <1>5, <1>13

\* The end of the files comes after every line.
LEMMA EndFilesKeeps ==
  ASSUME TypeOK, EndIsLast, LinesKept, core # "cancelled", EndFiles
  PROVE  EndIsLast' /\ LinesKept'
<1>1. /\ todo = <<>> /\ conn = "open" /\ UNCHANGED <<clock, queue, hand, core, written>>
      /\ clock = Len(Sentence) /\ conn' = "ended" /\ todo' = <<EndOfFiles>>
  BY DEF EndFiles
<1>2. Len(todo') = 1 /\ DOMAIN todo' = {1} /\ todo'[1] = EndOfFiles
  BY <1>1
<1>3. \A i \in DOMAIN queue : queue[i] # EndOfFiles
  BY <1>1 DEF EndIsLast
<1>4. EndIsLast'
  BY <1>1, <1>2, <1>3 DEF EndIsLast
<1>5. NumbersIn(Pending) = {} /\ NumbersIn(Pending') = {}
  <2>1. NumbersOf(todo) = <<>>
    BY <1>1 DEF NumbersOf
  <2>2. NumbersOf(todo') = [i \in {1} |-> 0]
    BY <1>2 DEF NumbersOf, NumberOf
  <2>3. NumbersIn(NumbersOf(todo')) = {}
    BY <2>2 DEF NumbersIn
  <2> QED
    BY <2>1, <2>3, FewNumbers DEF Pending, NumbersOf
<1>6. Ahead' = Ahead
  BY <1>1 DEF Ahead, Handed, NumbersOf
<1> QED
  BY <1>1, <1>4, <1>5, <1>6 DEF LinesKept

\* The pending line goes into the queue.
LEMMA PutKeeps ==
  ASSUME TypeOK, EndIsLast, LinesKept, core # "cancelled", Put
  PROVE  EndIsLast' /\ LinesKept'
<1>1. /\ todo # <<>> /\ todo \in Seq(Seq(Fragments)) /\ queue \in Seq(Seq(Fragments))
      /\ queue' = Append(queue, todo[1]) /\ todo' = Tail(todo)
      /\ UNCHANGED <<conn, clock, hand, core, written>>
  BY DEF Put, TypeOK, net
<1>2. PICK x \in Seq(Fragments) : x = todo[1]
  BY <1>1, HeadAndRest
<1>3. Len(todo) = 1 /\ todo' = <<>> /\ todo = <<x>>
  <2>1. Len(todo) >= 1 /\ Len(todo) <= 1 /\ Len(todo) \in Nat /\ todo' \in Seq(Seq(Fragments))
        /\ Len(todo') = Len(todo) - 1
    BY <1>1, HeadAndRest DEF EndIsLast
  <2>2. Len(todo) = 1 /\ Len(todo') = 0
    BY <2>1
  <2>3. \A t \in Seq(Seq(Fragments)) : (Len(t) = 0 => t = <<>>) /\ (Len(t) = 1 => t = <<t[1]>>)
    OBVIOUS
  <2> QED
    BY <1>1, <1>2, <2>1, <2>2, <2>3
<1>4. /\ Len(queue') = Len(queue) + 1 /\ Len(queue) \in Nat
      /\ (\A i \in 1..Len(queue) : queue'[i] = queue[i]) /\ queue'[Len(queue) + 1] = x
      /\ DOMAIN queue' = 1..(Len(queue) + 1) /\ DOMAIN queue = 1..Len(queue)
  BY <1>1, <1>2, Appended
<1>5. EndIsLast'
  <2>1. \A i \in DOMAIN queue : queue[i] # EndOfFiles
    BY <1>3 DEF EndIsLast
  <2>2. x = EndOfFiles => conn = "ended" /\ clock = Len(Sentence)
    <3>1. 1 \in DOMAIN todo /\ todo[1] = x
      BY <1>3
    <3> QED
      BY <3>1 DEF EndIsLast
  <2>3. \A i \in DOMAIN queue' : queue'[i] = EndOfFiles => i = Len(queue') /\ x = EndOfFiles
    BY <1>4, <2>1
  <2>4. core # "ended"
    BY <1>1 DEF EndIsLast
  <2>5. Len(todo') <= 1 /\ DOMAIN todo' = {}
    BY <1>3
  <2> QED
    BY <1>1, <1>3, <2>2, <2>3, <2>4, <2>5 DEF EndIsLast
<1>6. NumbersIn(Pending) = {NumberOf(x)} \ {0} /\ NumbersIn(Pending') = {}
  <2>1. NumbersOf(todo) = [i \in {1} |-> NumberOf(x)]
    BY <1>3 DEF NumbersOf
  <2>2. NumbersIn(NumbersOf(todo)) = {NumberOf(x)} \ {0}
    BY <2>1 DEF NumbersIn
  <2>3. NumbersOf(todo)' = <<>>
    BY <1>3 DEF NumbersOf
  <2> QED
    BY <2>2, <2>3, FewNumbers DEF Pending
<1>7. /\ NumbersIn(Ahead') = NumbersIn(Ahead) \cup ({NumberOf(x)} \ {0})
      /\ Ascends(Ahead') <=> Ascends(Ahead) /\ (NumberOf(x) # 0 => \A a \in NumbersIn(Ahead) : a < NumberOf(x))
  BY <1>1, <1>2, QueueingAdds
<1>8. Ascends(Ahead')
  BY <1>6, <1>7 DEF LinesKept
<1>9. NumbersIn(Ahead') \cup NumbersIn(Pending') = NumbersIn(Ahead) \cup NumbersIn(Pending) /\ clock' = clock
  BY <1>1, <1>6, <1>7
<1>10. LinesKept'
  BY <1>6, <1>8, <1>9 DEF LinesKept
<1> QED
  BY <1>5, <1>10

\* The consumer leaves the end of the files where it is, or ends with it.
LEMMA ConsumerEndsLast ==
  ASSUME TypeOK, EndIsLast, LinesKept, core # "cancelled", Take \/ Write \/ PlotFails
  PROVE  EndIsLast' /\ LinesKept'
<1>1. UNCHANGED <<todo, conn, clock>> /\ core = "running"
  BY DEF Take, Write, PlotFails, net
<1>2. Pending' = Pending
  BY <1>1 DEF Pending, NumbersOf
<1>3. LinesKept'
  BY <1>1, <1>2, ConsumerKeeps DEF LinesKept
<1>4. CASE Write \/ PlotFails
  <2>1. UNCHANGED <<queue, core>>
    BY <1>4 DEF Write, PlotFails
  <2>2. EndIsLast'
    BY <1>1, <2>1 DEF EndIsLast
  <2> QED
    BY <1>3, <2>2
<1>5. CASE Take
  <2>1. queue # <<>> /\ queue \in Seq(Seq(Fragments)) /\ queue' = Tail(queue) /\ hand = <<>>
    BY <1>5 DEF Take, TypeOK
  <2>2. /\ Len(queue) \in Nat /\ Len(queue) >= 1 /\ queue' \in Seq(Seq(Fragments)) /\ Len(queue') = Len(queue) - 1
        /\ \A i \in 1..(Len(queue) - 1) : queue'[i] = queue[i + 1]
        /\ DOMAIN queue = 1..Len(queue) /\ DOMAIN queue' = 1..(Len(queue) - 1)
    BY <2>1, HeadAndRest
  <2>3. \A i \in DOMAIN queue' : queue'[i] = EndOfFiles =>
            i = Len(queue') /\ todo = <<>> /\ conn = "ended" /\ clock = Len(Sentence)
    <3> SUFFICES ASSUME NEW i \in DOMAIN queue', queue'[i] = EndOfFiles
                 PROVE  i = Len(queue') /\ todo = <<>> /\ conn = "ended" /\ clock = Len(Sentence)
      OBVIOUS
    <3>1. i + 1 \in DOMAIN queue /\ queue[i + 1] = EndOfFiles
      BY <2>2
    <3>2. i + 1 = Len(queue) /\ todo = <<>> /\ conn = "ended" /\ clock = Len(Sentence)
      BY <3>1 DEF EndIsLast
    <3> QED
      BY <2>2, <3>2
  <2>4. CASE queue[1] = EndOfFiles
    <3>1. 1 = Len(queue) /\ todo = <<>> /\ conn = "ended" /\ clock = Len(Sentence)
      BY <2>2, <2>4 DEF EndIsLast
    <3>2. queue' = <<>> /\ hand' = <<>> /\ core' = "ended"
      <4>1. Len(queue') = 0
        <5>1. Len(queue') = Len(queue) - 1 /\ Len(queue) = 1
          BY <2>2, <3>1, Zenon
        <5> QED
          BY <5>1
      <4>2. \A q \in Seq(Seq(Fragments)) : Len(q) = 0 => q = <<>>
        OBVIOUS
      <4> QED
        BY <1>5, <2>1, <2>2, <2>4, <4>1, <4>2 DEF Take
    <3> QED
      BY <1>1, <1>3, <2>3, <3>1, <3>2 DEF EndIsLast
  <2>5. CASE queue[1] # EndOfFiles
    <3>1. core' = core
      BY <1>5, <2>5 DEF Take
    <3> QED
      BY <1>1, <1>3, <2>3, <3>1 DEF EndIsLast
  <2> QED
    BY <2>4, <2>5
<1> QED
  BY <1>4, <1>5

\* Through a replay the lines read stay accounted for.
LEMMA ReplayInvariant == Spec => []ReplayInv
<1>1. Init => ReplayInv
  <2> SUFFICES ASSUME Init, mode = "replay" PROVE EndIsLast /\ LinesKept
    BY DEF ReplayInv
  <2>1. conn = "open" /\ todo = <<>> /\ queue = <<>> /\ core = "running" /\ hand = <<>> /\ clock = 0
        /\ written["db"] = <<>>
    BY DEF Init, Live
  <2>2. Len(todo) <= 1 /\ DOMAIN todo = {} /\ DOMAIN queue = {}
    BY <2>1
  <2>3. EndIsLast
    BY <2>1, <2>2 DEF EndIsLast
  <2>4. NumbersOf(queue) = <<>> /\ NumbersOf(todo) = <<>> /\ Handed = <<>>
    BY <2>1 DEF NumbersOf, Handed
  <2>5. Ahead = <<>> /\ Pending = <<>>
    BY <2>1, <2>4 DEF Ahead, Pending
  <2>6. {n \in SoundNumbers : n <= clock} = {}
    BY <2>1 DEF SoundNumbers, Numbers
  <2> QED
    BY <2>3, <2>5, <2>6, FewNumbers DEF LinesKept
<1>2. TypeOK /\ ReplayInv /\ [Next]_vars => ReplayInv'
  <2> SUFFICES ASSUME TypeOK, ReplayInv, [Next]_vars, mode' = "replay", core' # "cancelled"
               PROVE  EndIsLast' /\ LinesKept'
    BY DEF ReplayInv
  <2>1. mode = "replay"
    BY PathTypes
  <2>2. core # "cancelled"
    <3>1. core = "cancelled" => core' = "cancelled"
      BY ConsumerSteps DEF Take, Write, PlotFails, FileFails, Cancel
    <3> QED
      BY <3>1
  <2>3. EndIsLast /\ LinesKept
    BY <2>1, <2>2 DEF ReplayInv
  <2>4. CASE UNCHANGED vars
    BY <2>3, <2>4 DEF vars, net, EndIsLast, LinesKept, Ahead, Pending, Handed, NumbersOf
  <2>5. conn \in {"open", "ended"}
    BY <2>3 DEF EndIsLast
  <2> QED
    BY <2>1, <2>2, <2>3, <2>4, <2>5, ReplaySteps, ReadLineKeeps, EndFilesKeeps, PutKeeps, ConsumerEndsLast
<1> QED
  BY <1>1, <1>2, TypeInvariant, PTL DEF Spec

\* When the replay says it is complete, every sound line of the files is in the
\* database, in order.
LEMMA CompleteReplay == TypeOK /\ ReplayInv => ReplayComplete
<1> SUFFICES ASSUME TypeOK, ReplayInv, mode = "replay", core = "ended"
             PROVE  NumbersIn(written["db"]) = SoundNumbers /\ Ascends(written["db"])
  BY DEF ReplayComplete
<1>1. EndIsLast /\ LinesKept
  BY DEF ReplayInv
<1>2. queue = <<>> /\ todo = <<>> /\ hand = <<>> /\ clock = Len(Sentence)
  BY <1>1 DEF EndIsLast
<1>3. NumbersOf(queue) = <<>> /\ Pending = <<>> /\ Handed = <<>>
  BY <1>2 DEF NumbersOf, Pending, Handed
<1>4. Ahead = written["db"]
  <2>1. written["db"] \in Seq(Nat)
    BY AheadTypes
  <2>2. \A s \in Seq(Nat) : s \o <<>> \o <<>> = s
    OBVIOUS
  <2> QED
    BY <1>3, <2>1, <2>2 DEF Ahead
<1>5. {n \in SoundNumbers : n <= clock} = SoundNumbers
  BY <1>2, Ranges DEF SoundNumbers, Numbers
<1> QED
  BY <1>1, <1>3, <1>4, <1>5, FewNumbers DEF LinesKept

\* ---- the stream

\* A sentence goes over the wire in two halves.
LEMMA Halves ==
  /\ \A n \in Numbers : /\ n \in Nat /\ n >= 1
                        /\ FragmentAt(2 * n - 2) = <<n, 1>> /\ ~Closes(2 * n - 2)
                        /\ FragmentAt(2 * n - 1) = <<n, IF Sentence[n] = "unended" THEN 3 ELSE 2>>
                        /\ Closes(2 * n - 1) <=> Sentence[n] # "unended"
  /\ \A c \in Nat : c < 2 * Len(Sentence) => \E n \in Numbers : c = 2 * n - 2 \/ c = 2 * n - 1
<1>1. ASSUME NEW n \in Numbers
      PROVE  /\ n \in Nat /\ n >= 1
             /\ FragmentAt(2 * n - 2) = <<n, 1>> /\ ~Closes(2 * n - 2)
             /\ FragmentAt(2 * n - 1) = <<n, IF Sentence[n] = "unended" THEN 3 ELSE 2>>
             /\ Closes(2 * n - 1) <=> Sentence[n] # "unended"
  <2>1. n \in Nat /\ n >= 1
    BY DEF Numbers
  <2>2. (2 * n - 2) \div 2 + 1 = n /\ (2 * n - 2) % 2 = 0 /\ (2 * n - 1) \div 2 + 1 = n /\ (2 * n - 1) % 2 = 1
    BY <2>1
  <2>3. FragmentAt(2 * n - 2) = <<n, 1>>
    BY <2>2 DEF FragmentAt
  <2>4. FragmentAt(2 * n - 1) = <<n, IF Sentence[n] = "unended" THEN 3 ELSE 2>>
    BY <2>2 DEF FragmentAt
  <2> QED
    BY <2>1, <2>3, <2>4 DEF Closes, EndsLine
<1>2. ASSUME NEW c \in Nat, c < 2 * Len(Sentence)
      PROVE  \E n \in Numbers : c = 2 * n - 2 \/ c = 2 * n - 1
  <2>1. c \div 2 + 1 \in Numbers /\ (c = 2 * (c \div 2 + 1) - 2 \/ c = 2 * (c \div 2 + 1) - 1)
    BY <1>2, Ranges DEF Numbers
  <2> QED
    BY <2>1
<1> QED
  BY <1>1, <1>2

\* Which fragment of the caster is the first, which the last half of a sentence.
LEMMA HalfAt ==
  ASSUME NEW c \in Nat, c < 2 * Len(Sentence), NEW n \in Nat
  PROVE  /\ FragmentAt(c) = <<n, 1>> => n \in Numbers /\ c = 2 * n - 2
         /\ FragmentAt(c) = <<n, 2>> => n \in Numbers /\ c = 2 * n - 1 /\ Sentence[n] # "unended"
         /\ FragmentAt(c) \notin HeaderFragments
         /\ Closes(c) => \E i \in Numbers : c = 2 * i - 1 /\ Sentence[i] # "unended"
<1>1. PICK i \in Numbers : c = 2 * i - 2 \/ c = 2 * i - 1
  BY Halves
<1>2. i \in Nat /\ i >= 1
  BY Halves
<1>3. CASE c = 2 * i - 2
  <2>1. FragmentAt(c) = <<i, 1>> /\ ~Closes(c)
    BY <1>3, Halves
  <2> QED
    BY <1>2, <1>3, <2>1 DEF HeaderFragments
<1>4. CASE c = 2 * i - 1
  <2>1. FragmentAt(c) = <<i, IF Sentence[i] = "unended" THEN 3 ELSE 2>> /\ (Closes(c) => Sentence[i] # "unended")
    BY <1>4, Halves
  <2> QED
    BY <1>2, <1>4, <2>1 DEF HeaderFragments
<1> QED
  BY <1>1, <1>3, <1>4

\* The sentence of a sound line is not one without a line's end.
LEMMA SoundIsEnded ==
  ASSUME NEW n \in SoundNumbers
  PROVE  n \in Numbers /\ n \in Nat /\ n >= 1 /\ Sentence[n] # "unended" /\ Sound(Whole(n))
<1>1. n \in Numbers /\ Sound(Whole(n))
  BY DEF SoundNumbers
<1>2. Whole(n)[1] = <<n, 1>> /\ Whole(n)[1][1] = n /\ Whole(n)[1][2] = 1
  BY DEF Whole
<1>3. KindOf(Whole(n)) = Sentence[n]
  BY <1>2 DEF KindOf
<1>4. Sentence[n] \in {"velocity", "displacement"}
  BY <1>1, <1>3 DEF Sound
<1> QED
  BY <1>1, <1>4, Halves

\* The line that is taken between two clocks is a sentence that was sent whole, or
\* unsound; and no sentence that was sent whole lies across its end.
LEMMA LineTaken ==
  ASSUME TypeOK, NEW b \in Nat, NEW x \in Nat, x >= 1, b + x <= clock, since <= b,
         b = since \/ Closes(b - 1),
         Closes(b + x - 1), \A j \in b..(b + x - 2) : ~Closes(j),
         NEW line \in Seq(Fragments), Len(line) = x, \A i \in 1..x : line[i] = FragmentAt(b + i - 1)
  PROVE  /\ \A n \in SoundNumbers : n = NumberOf(line) <=> b <= 2 * n - 2 /\ 2 * n <= b + x /\ SentWhole(n)
         /\ \A n \in SoundNumbers : b <= 2 * n - 2 /\ SentWhole(n) /\ ~(2 * n <= b + x) => b + x <= 2 * n - 2
<1>0. clock \in Nat /\ clock <= 2 * Len(Sentence) /\ since \in Nat /\ Len(Sentence) \in Nat
  BY Ranges DEF TypeOK
<1>1. PICK i \in Numbers : b + x - 1 = 2 * i - 1
  <2>1. PICK c \in Nat : c = b + x - 1 /\ c < 2 * Len(Sentence)
    <3>1. b + x - 1 \in Nat /\ b + x - 1 < 2 * Len(Sentence)
      BY <1>0
    <3> QED
      BY <3>1
  <2>2. 0 \in Nat /\ Closes(c)
    BY <2>1
  <2> QED
    BY <2>1, <2>2, HalfAt
<1>2. i \in Nat /\ i >= 1 /\ b + x = 2 * i
  <2>1. i \in Nat /\ i >= 1
    BY Halves
  <2> QED
    BY <1>1, <2>1
<1>3. ASSUME NEW n \in SoundNumbers, b <= 2 * n - 2, SentWhole(n), ~(2 * n <= b + x)
      PROVE  b + x <= 2 * n - 2
  BY <1>2, <1>3, SoundIsEnded
<1>4. ASSUME NEW n \in SoundNumbers, n = NumberOf(line)
      PROVE  b <= 2 * n - 2 /\ 2 * n <= b + x /\ SentWhole(n)
  <2>1. n \in Numbers /\ n \in Nat /\ n >= 1 /\ Sentence[n] # "unended"
    BY SoundIsEnded
  <2>2. line = Whole(n)
    BY <1>4, <2>1, NumberOfLine
  <2>3. x = 2 /\ line[1] = <<n, 1>>
    BY <2>2 DEF Whole
  <2>4. FragmentAt(b) = <<n, 1>>
    <3>1. line[1] = FragmentAt(b + 1 - 1) /\ b + 1 - 1 = b
      BY <2>3
    <3> QED
      BY <2>3, <3>1
  <2>5. b < 2 * Len(Sentence)
    BY <1>0, <2>3
  <2>6. b = 2 * n - 2
    BY <2>1, <2>4, <2>5, HalfAt
  <2>7. n = 1 \/ 2 * n - 2 = since \/ Sentence[n - 1] # "unended"
    <3>1. CASE b = since
      BY <2>6, <3>1
    <3>2. CASE b # since /\ n # 1
      <4>1. PICK k \in Nat : k = n - 1 /\ k \in Numbers /\ b - 1 = 2 * k - 1
        <5>1. n - 1 \in Nat /\ n - 1 \in Numbers /\ b - 1 = 2 * (n - 1) - 1
          BY <1>0, <2>1, <2>6, <3>2 DEF Numbers
        <5> QED
          BY <5>1
      <4>2. Closes(2 * k - 1)
        BY <3>2, <4>1
      <4> QED
        BY <4>1, <4>2, Halves
    <3> QED
      BY <3>1, <3>2
  <2> QED
    <3>1. 2 * n - 2 >= since /\ 2 * n <= b + x
      BY <1>0, <2>1, <2>3, <2>6
    <3>2. b <= 2 * n - 2
      BY <2>1, <2>6
    <3> QED
      BY <2>1, <2>7, <3>1, <3>2 DEF SentWhole
<1>5. ASSUME NEW n \in SoundNumbers, b <= 2 * n - 2, 2 * n <= b + x, SentWhole(n)
      PROVE  n = NumberOf(line)
  <2>1. n \in Numbers /\ n \in Nat /\ n >= 1 /\ Sentence[n] # "unended" /\ Sound(Whole(n))
    BY SoundIsEnded
  <2>2. Closes(2 * n - 1)
    BY <2>1, Halves
  <2>3. b + x = 2 * n
    <3>1. 2 * n - 1 \in b..(b + x - 2) \/ 2 * n = b + x
      BY <1>5, <2>1
    <3> QED
      BY <2>2, <3>1
  <2>4. b = 2 * n - 2
    <3> SUFFICES ASSUME b < 2 * n - 2 PROVE FALSE
      BY <1>5, <2>1
    <3>1. n # 1 /\ 2 * n - 2 # since
      BY <1>0, <2>1
    <3>2. Sentence[n - 1] # "unended"
      BY <1>5, <3>1 DEF SentWhole
    <3>3. PICK k \in Nat : k = n - 1 /\ k \in Numbers
      BY <2>1, <3>1 DEF Numbers
    <3>4. Closes(2 * k - 1)
      BY <3>2, <3>3, Halves
    <3>5. 2 * k - 1 \in b..(b + x - 2)
      BY <2>1, <2>3, <3>3
    <3> QED
      BY <3>4, <3>5
  <2>5. x = 2
    BY <2>1, <2>3, <2>4
  <2>6. line[1] = <<n, 1>> /\ line[2] = <<n, 2>>
    <3>1. line[1] = FragmentAt(b + 1 - 1) /\ b + 1 - 1 = 2 * n - 2
      BY <2>1, <2>4, <2>5
    <3>2. line[2] = FragmentAt(b + 2 - 1) /\ b + 2 - 1 = 2 * n - 1
      BY <2>1, <2>4, <2>5
    <3> QED
      BY <2>1, <3>1, <3>2, Halves
  <2>7. line = Whole(n)
    <3>1. \A s \in Seq(Fragments) : Len(s) = 2 => s = <<s[1], s[2]>>
      OBVIOUS
    <3> QED
      BY <2>5, <2>6, <3>1 DEF Whole
  <2> QED
    BY <2>1, <2>7, NumberOfWhole
<1> QED
  BY <1>3, <1>4, <1>5

\* A line at the front of the stream is a header line, or what the caster made up to
\* the end of a sentence.
LEMMA CutLine ==
  ASSUME NEW s \in Seq(Fragments), NEW m \in Nat, NEW b \in Nat, NEW e \in Nat, b <= e,
         HasContent(s, m, b, e), NEW x \in DOMAIN s, IsLine(s, 1, x)
  PROVE  \/ m > 0 /\ x = 1 /\ s[1] \in HeaderFragments /\ HasContent(After(s, 1), m - 1, b, e)
         \/ /\ m = 0 /\ x \in Nat /\ x >= 1 /\ b + x <= e
            /\ Closes(b + x - 1) /\ \A j \in b..(b + x - 2) : ~Closes(j)
            /\ \A i \in 1..x : s[i] = FragmentAt(b + i - 1)
            /\ HasContent(After(s, x), 0, b + x, e)
<1>1. x \in Nat /\ x >= 1 /\ x <= Len(s) /\ Len(s) \in Nat /\ Len(s) = m + (e - b)
  BY DEF HasContent
<1>2. /\ Len(After(s, x)) = Len(s) - x
      /\ \A i \in 1..(Len(s) - x) : After(s, x)[i] = s[x + i]
  <2>1. x \in 0..Len(s)
    BY <1>1
  <2> QED
    BY <2>1, Cut
<1>3. CASE m > 0
  <2>1. s[1] \in HeaderFragments
    BY <1>3 DEF HasContent
  <2>2. EndsLine(s[1])
    BY <2>1 DEF HeaderFragments, EndsLine
  <2>3. x = 1
    <3> SUFFICES ASSUME x > 1 PROVE FALSE
      BY <1>1
    <3>1. 1 \in 1..(x - 1)
      BY <1>1
    <3> QED
      BY <2>2, <3>1 DEF IsLine
  <2>4. HasContent(After(s, 1), m - 1, b, e)
    <3>1. Len(After(s, 1)) = (m - 1) + (e - b)
      BY <1>1, <1>2, <2>3
    <3>2. ASSUME NEW k \in 1..(m - 1)
          PROVE  After(s, 1)[k] \in HeaderFragments
      <4>1. After(s, 1)[k] = s[1 + k] /\ 1 + k \in 1..m
        BY <1>1, <1>2, <2>3
      <4> QED
        BY <4>1 DEF HasContent
    <3>3. ASSUME NEW k \in 1..(e - b)
          PROVE  After(s, 1)[(m - 1) + k] = FragmentAt(b + k - 1)
      <4>1. (m - 1) + k \in 1..(Len(s) - x) /\ x + ((m - 1) + k) = m + k
        BY <1>1, <1>3, <2>3
      <4>2. After(s, 1)[(m - 1) + k] = s[m + k]
        BY <1>2, <2>3, <4>1
      <4> QED
        BY <4>2 DEF HasContent
    <3> QED
      BY <3>1, <3>2, <3>3 DEF HasContent
  <2> QED
    BY <1>3, <2>1, <2>3, <2>4
<1>4. CASE m = 0
  <2>1. \A k \in 1..(e - b) : s[k] = FragmentAt(b + k - 1)
    BY <1>4 DEF HasContent
  <2>2. b + x <= e /\ Len(s) = e - b
    BY <1>1, <1>4
  <2>3. Closes(b + x - 1)
    <3>1. s[x] = FragmentAt(b + x - 1)
      BY <1>1, <2>1, <2>2
    <3> QED
      BY <3>1 DEF IsLine, Closes
  <2>4. ASSUME NEW j \in b..(b + x - 2)
        PROVE  ~Closes(j)
    <3>1. PICK i \in 1..(x - 1) : j = b + i - 1
      <4>1. j - b + 1 \in 1..(x - 1) /\ j = b + (j - b + 1) - 1
        BY <1>1
      <4> QED
        BY <4>1
    <3>2. ~EndsLine(s[i])
      BY DEF IsLine
    <3>3. s[i] = FragmentAt(b + i - 1)
      BY <1>1, <2>1, <2>2
    <3> QED
      BY <3>1, <3>2, <3>3 DEF Closes
  <2>5. \A i \in 1..x : s[i] = FragmentAt(b + i - 1)
    BY <1>1, <2>1, <2>2
  <2>6. HasContent(After(s, x), 0, b + x, e)
    <3>1. Len(After(s, x)) = 0 + (e - (b + x))
      BY <1>1, <1>2, <2>2
    <3>2. ASSUME NEW k \in 1..(e - (b + x))
          PROVE  After(s, x)[0 + k] = FragmentAt((b + x) + k - 1)
      <4>0. k \in Nat /\ 1 <= k /\ k <= e - (b + x)
        BY <1>1
      <4>1. 0 + k = k /\ k \in 1..(Len(s) - x) /\ x + k \in 1..(e - b) /\ b + (x + k) - 1 = (b + x) + k - 1
        <5>1. 0 + k = k /\ b + (x + k) - 1 = (b + x) + k - 1
          BY <1>1, <4>0
        <5>2. k \in 1..(Len(s) - x)
          <6>1. Len(s) - x = e - (b + x)
            BY <1>1, <2>2
          <6> QED
            BY <6>1
        <5>3. x + k \in 1..(e - b)
          BY <1>1, <4>0, SMTT(30)
        <5> QED
          BY <5>1, <5>2, <5>3
      <4> QED
        BY <1>2, <2>1, <4>1
    <3> QED
      BY <3>1, <3>2 DEF HasContent
  <2> QED
    BY <1>1, <1>4, <2>2, <2>3, <2>4, <2>5, <2>6
<1> QED
  BY <1>3, <1>4

\* The fragments of the stream are those of a header and of what the caster makes.
LEMMA PlaceInStream ==
  ASSUME NEW s \in Seq(Fragments), NEW m \in Nat, NEW b \in Nat, NEW e \in Nat, b <= e,
         HasContent(s, m, b, e)
  PROVE  /\ \A i \in DOMAIN s : s[i] \in HeaderFragments \/ \E c \in b..(e - 1) : s[i] = FragmentAt(c)
         /\ \A c \in b..(e - 1) : \E i \in DOMAIN s : s[i] = FragmentAt(c)
<1>1. DOMAIN s = 1..(m + (e - b))
  BY DEF HasContent
<1>2. ASSUME NEW i \in DOMAIN s
      PROVE  s[i] \in HeaderFragments \/ \E c \in b..(e - 1) : s[i] = FragmentAt(c)
  <2>1. CASE i <= m
    <3>1. i \in 1..m
      BY <1>1, <2>1
    <3> QED
      BY <3>1 DEF HasContent
  <2>2. CASE ~(i <= m)
    <3>1. PICK k \in 1..(e - b) : i = m + k
      <4>1. i - m \in 1..(e - b) /\ i = m + (i - m)
        BY <1>1, <2>2
      <4> QED
        BY <4>1
    <3>2. s[i] = FragmentAt(b + k - 1)
      BY <3>1 DEF HasContent
    <3>3. b + k - 1 \in b..(e - 1)
      OBVIOUS
    <3> QED
      BY <3>2, <3>3
  <2> QED
    BY <2>1, <2>2
<1>3. ASSUME NEW c \in b..(e - 1)
      PROVE  \E i \in DOMAIN s : s[i] = FragmentAt(c)
  <2>1. PICK k \in 1..(e - b) : c = b + k - 1
    <3>1. c - b + 1 \in 1..(e - b) /\ c = b + (c - b + 1) - 1
      OBVIOUS
    <3> QED
      BY <3>1
  <2>2. m + k \in DOMAIN s
    BY <1>1
  <2>3. s[m + k] = FragmentAt(c)
    BY <2>1 DEF HasContent
  <2> QED
    BY <2>2, <2>3
<1> QED
  BY <1>2, <1>3

\* What the caster makes next comes after the content.
LEMMA ContentGrows ==
  ASSUME NEW s \in Seq(Fragments), NEW m \in Nat, NEW b \in Nat, NEW e \in Nat, b <= e,
         HasContent(s, m, b, e), NEW t \in Seq(Fragments), Len(t) = Len(s) + 1,
         \A i \in 1..Len(s) : t[i] = s[i], t[Len(s) + 1] = FragmentAt(e)
  PROVE  HasContent(t, m, b, e + 1) /\ (m > 0 => t[m] = s[m])
<1>1. Len(s) = m + (e - b) /\ Len(s) \in Nat
  BY DEF HasContent
<1>2. Len(t) = Len(s) + 1 /\ (\A i \in 1..Len(s) : t[i] = s[i]) /\ t[Len(s) + 1] = FragmentAt(e)
  OBVIOUS
<1>3. ASSUME NEW k \in 1..m PROVE t[k] \in HeaderFragments /\ t[k] = s[k]
  BY <1>1, <1>2 DEF HasContent
<1>4. ASSUME NEW k \in 1..((e + 1) - b) PROVE t[m + k] = FragmentAt(b + k - 1)
  <2>1. CASE k \in 1..(e - b)
    <3>1. m + k \in 1..Len(s)
      BY <1>1, <2>1
    <3> QED
      BY <1>2, <2>1, <3>1 DEF HasContent
  <2>2. CASE k = e - b + 1
    <3>1. m + k = Len(s) + 1 /\ b + k - 1 = e
      BY <1>1, <2>2
    <3> QED
      BY <1>2, <3>1
  <2>3. k \in Int /\ 1 <= k /\ k <= (e + 1) - b
    OBVIOUS
  <2>4. k \in 1..(e - b) \/ k = e - b + 1
    BY <2>3
  <2> QED
    BY <2>1, <2>2, <2>4, Zenon
<1>5. Len(t) = m + ((e + 1) - b)
  BY <1>1, <1>2
<1>6. m > 0 => m \in 1..m
  OBVIOUS
<1> QED
  BY <1>3, <1>4, <1>5, <1>6 DEF HasContent

\* Two sequences with the same fragments are the same.
LEMMA SameFragments ==
  ASSUME NEW s \in Seq(Fragments), NEW t \in Seq(Fragments), Len(s) = Len(t), \A i \in 1..Len(t) : s[i] = t[i]
  PROVE  s = t
  OBVIOUS

\* A sequence that is cut in two and put together again is the same.
LEMMA CutAndJoined ==
  ASSUME NEW s \in Seq(Fragments), NEW e \in 0..Len(s)
  PROVE  /\ Len(SubSeq(s, 1, e)) = e
         /\ \E u, v \in Seq(Fragments) : u = SubSeq(s, 1, e) /\ v = After(s, e) /\ u \o v = s
<1>1. /\ SubSeq(s, 1, e) \in Seq(Fragments) /\ Len(SubSeq(s, 1, e)) = e
      /\ \A i \in 1..e : SubSeq(s, 1, e)[i] = s[i]
      /\ After(s, e) \in Seq(Fragments) /\ Len(After(s, e)) = Len(s) - e
      /\ \A i \in 1..(Len(s) - e) : After(s, e)[i] = s[e + i]
  BY Cut
<1>2. PICK u \in Seq(Fragments), v \in Seq(Fragments) : u = SubSeq(s, 1, e) /\ v = After(s, e)
  BY <1>1
<1>3. /\ Len(u) = e /\ (\A i \in 1..e : u[i] = s[i])
      /\ Len(v) = Len(s) - e /\ (\A i \in 1..(Len(s) - e) : v[i] = s[e + i])
  BY <1>1, <1>2
<1>4. PICK w \in Seq(Fragments) : /\ w = u \o v /\ Len(w) = Len(u) + Len(v)
                                  /\ \A i \in 1..Len(u) : w[i] = u[i]
                                  /\ \A i \in 1..Len(v) : w[Len(u) + i] = v[i]
  <2>1. /\ u \o v \in Seq(Fragments) /\ Len(u \o v) = Len(u) + Len(v)
        /\ \A i \in 1..Len(u) : (u \o v)[i] = u[i]
        /\ \A i \in 1..Len(v) : (u \o v)[Len(u) + i] = v[i]
    BY Joined
  <2> QED
    BY <2>1
<1>5. e \in Nat /\ Len(s) \in Nat /\ e <= Len(s) /\ Len(w) = Len(s)
  BY <1>3, <1>4
<1>6. ASSUME NEW i \in 1..Len(s)
      PROVE  w[i] = s[i]
  <2>1. CASE i <= e
    BY <1>3, <1>4, <1>5, <2>1
  <2>2. CASE ~(i <= e)
    <3>1. PICK j \in 1..(Len(s) - e) : i = e + j
      <4>1. i - e \in 1..(Len(s) - e) /\ i = e + (i - e)
        BY <1>5, <2>2
      <4> QED
        BY <4>1
    <3> QED
      BY <1>3, <1>4, <3>1
  <2> QED
    BY <2>1, <2>2
<1>7. w = s
  BY <1>5, <1>6, SameFragments
<1> QED
  BY <1>1, <1>2, <1>4, <1>7

\* ---- the connection

\* The types of what a live station keeps for this connection.
LEMMA LiveTypes ==
  ASSUME TypeOK
  PROVE  /\ Stream \in Seq(Fragments) /\ socket \in Seq(Fragments) /\ buffer \in Seq(Fragments)
         /\ clock \in Nat /\ clock <= 2 * Len(Sentence) /\ since \in Nat /\ since <= clock
         /\ Len(Sentence) \in Nat /\ owed \subseteq Numbers
<1>1. socket \in Seq(Fragments) /\ buffer \in Seq(Fragments)
  BY DEF TypeOK
<1>2. buffer \o socket \in Seq(Fragments)
  BY <1>1, Joined
<1>3. clock \in Nat /\ clock <= 2 * Len(Sentence) /\ since \in Nat /\ since <= clock /\ Len(Sentence) \in Nat
  BY Ranges DEF TypeOK
<1>4. Stream \in Seq(Fragments)
  <2>1. <<>> \in Seq(Fragments)
    OBVIOUS
  <2> QED
    BY <1>1, <1>2, <2>1 DEF Stream
<1> QED
  BY <1>1, <1>3, <1>4 DEF TypeOK

\* What a live station has received and can still receive, state by state.
LEMMA StreamIs ==
  /\ conn = "draining" => Stream = socket
  /\ conn = "open" => Stream = buffer \o socket
  BY DEF Stream

\* Putting the empty sequence before another one changes nothing.
LEMMA NothingBefore == \A s \in Seq(Fragments) : <<>> \o s = s
  OBVIOUS

\* What is owed does not change while what is ahead keeps its numbers.
LEMMA DeliveredKeeps ==
  ASSUME NEW b \in Nat, NEW e \in Nat, Delivered(b, e),
         NumbersIn(Ahead') = NumbersIn(Ahead), Ascends(Ahead) => Ascends(Ahead'), UNCHANGED <<owed, since>>
  PROVE  Delivered(b, e)'
<1>1. \A n \in SoundNumbers : SentWhole(n)' <=> SentWhole(n)
  BY DEF SentWhole
<1> QED
  BY <1>1 DEF Delivered

\* Nothing ahead changes while the queue, the hand and the writers do not.
LEMMA AheadStays ==
  ASSUME UNCHANGED <<written, hand, queue>>
  PROVE  Ahead' = Ahead
  BY DEF Ahead, Handed, NumbersOf

\* What a connection carries does not change while nothing is sent or received.
LEMMA CarriedKeeps ==
  ASSUME NEW m \in Nat, NEW b \in Nat, NEW e \in Nat, Carried(m, b, e),
         UNCHANGED <<conn, since, clock, socket, buffer>>, closed => closed'
  PROVE  Carried(m, b, e)'
<1>1. Stream' = Stream
  BY DEF Stream
<1> QED
  BY <1>1 DEF Carried, HasContent

\* Nothing is on its way: what is owed is ahead.
LEMMA AllAhead ==
  ASSUME NEW b \in Nat, NEW e \in Nat, Delivered(b, e), NEW c \in Nat, b <= c,
         \A n \in SoundNumbers : n \in owed' <=> n \in NumbersIn(Ahead),
         UNCHANGED <<written, hand, queue>>
  PROVE  Delivered(c, c)'
<1>1. Ahead' = Ahead
  BY AheadStays
<1>2. \A n \in SoundNumbers : n \in Nat /\ n >= 1 /\ ~(c <= 2 * n - 2 /\ 2 * n <= c)
  BY SoundIsEnded
<1>3. \A n \in NumbersIn(Ahead) : 2 * n <= c
  <2>1. \A n \in NumbersIn(Ahead) : n \in Nat /\ 2 * n <= b
    BY SoundIsEnded DEF Delivered
  <2> QED
    BY <2>1
<1> QED
  BY <1>1, <1>2, <1>3 DEF Delivered

\* When the connection is over, the sentences whose end it took are forgotten, and
\* what was received holds no line's end.
LEMMA OverDelivers ==
  ASSUME TypeOK, Streaming, conn = "open" => ~HasLine(buffer),
         NEW m \in Nat, NEW b \in Nat, NEW e \in Nat, Carried(m, b, e), Delivered(b, e)
  PROVE  \A n \in SoundNumbers : n \in Forgotten <=> n \in NumbersIn(Ahead)
<1>0. b <= e /\ e <= clock /\ HasContent(Stream, m, b, e) /\ since <= b
  BY DEF Carried
<1>1. /\ \A i \in DOMAIN Stream : Stream[i] \in HeaderFragments \/ \E c \in b..(e - 1) : Stream[i] = FragmentAt(c)
      /\ \A c \in b..(e - 1) : \E i \in DOMAIN Stream : Stream[i] = FragmentAt(c)
  <2>1. Stream \in Seq(Fragments)
    BY LiveTypes
  <2> QED
    BY <1>0, <2>1, PlaceInStream
<1>2. /\ \A i \in DOMAIN socket : \E j \in DOMAIN Stream : Stream[j] = socket[i]
      /\ \A j \in DOMAIN Stream : EndsLine(Stream[j]) => \E i \in DOMAIN socket : Stream[j] = socket[i]
  <2>1. CASE conn = "draining"
    BY <2>1, StreamIs
  <2>2. CASE conn = "open"
    <3>1. /\ Len(buffer) \in Nat /\ Len(socket) \in Nat
          /\ DOMAIN buffer = 1..Len(buffer) /\ DOMAIN socket = 1..Len(socket)
          /\ DOMAIN Stream = 1..(Len(buffer) + Len(socket))
          /\ \A i \in 1..Len(buffer) : Stream[i] = buffer[i]
          /\ \A i \in 1..Len(socket) : Stream[Len(buffer) + i] = socket[i]
      <4>1. socket \in Seq(Fragments) /\ buffer \in Seq(Fragments)
        BY LiveTypes
      <4> QED
        BY <2>2, <4>1, Joined, StreamIs
    <3>2. \A i \in DOMAIN buffer : ~EndsLine(buffer[i])
      BY <2>2 DEF HasLine
    <3>3. ASSUME NEW j \in DOMAIN Stream, EndsLine(Stream[j])
          PROVE  \E i \in DOMAIN socket : Stream[j] = socket[i]
      <4>1. ~(j \in 1..Len(buffer))
        BY <3>1, <3>2, <3>3
      <4>2. j - Len(buffer) \in 1..Len(socket) /\ j = Len(buffer) + (j - Len(buffer))
        BY <3>1, <4>1
      <4> QED
        BY <3>1, <4>2
    <3>4. \A i \in 1..Len(socket) : Len(buffer) + i \in DOMAIN Stream
      BY <3>1
    <3> QED
      BY <3>1, <3>3, <3>4
  <2> QED
    BY <2>1, <2>2 DEF Streaming
<1>3. ASSUME NEW n \in SoundNumbers, n \in NumbersIn(Ahead)
      PROVE  n \in Forgotten
  <2>1. n \in Nat /\ n >= 1 /\ 2 * n <= b /\ n \in owed
    BY <1>3, SoundIsEnded DEF Delivered
  <2>2. ASSUME NEW i \in DOMAIN socket, socket[i] = <<n, 2>>
        PROVE  FALSE
    <3>1. <<n, 2>> \notin HeaderFragments
      BY <2>1 DEF HeaderFragments
    <3>2. PICK c \in b..(e - 1) : FragmentAt(c) = <<n, 2>>
      BY <1>1, <1>2, <2>2, <3>1
    <3>3. c \in Nat /\ c < 2 * Len(Sentence)
      BY <1>0, LiveTypes
    <3>4. c = 2 * n - 1
      BY <2>1, <3>2, <3>3, HalfAt
    <3> QED
      BY <2>1, <3>4
  <2> QED
    BY <2>1, <2>2 DEF Forgotten
<1>4. ASSUME NEW n \in SoundNumbers, n \in Forgotten
      PROVE  n \in NumbersIn(Ahead)
  <2> SUFFICES ASSUME n \notin NumbersIn(Ahead) PROVE FALSE
    OBVIOUS
  <2>1. n \in owed /\ \A i \in DOMAIN socket : socket[i] # <<n, 2>>
    BY <1>4 DEF Forgotten
  <2>2. b <= 2 * n - 2 /\ 2 * n <= e
    BY <2>1 DEF Delivered
  <2>3. n \in Numbers /\ n \in Nat /\ n >= 1 /\ Sentence[n] # "unended"
    BY SoundIsEnded
  <2>4. FragmentAt(2 * n - 1) = <<n, 2>>
    BY <2>3, Halves
  <2>5. 2 * n - 1 \in b..(e - 1)
    BY <2>2, <2>3
  <2>6. PICK j \in DOMAIN Stream : Stream[j] = <<n, 2>>
    BY <1>1, <2>4, <2>5
  <2>7. EndsLine(Stream[j])
    BY <2>6 DEF EndsLine
  <2> QED
    BY <1>2, <2>1, <2>6, <2>7
<1> QED
  BY <1>3, <1>4

\* A connection that ends leaves the live invariant behind.
LEMMA OverKeeps ==
  ASSUME TypeOK, Live, core = "running", LiveInv, Streaming, conn = "open" => ~HasLine(buffer),
         NEW after \in {"sleeping", "ended"}, Over(after), UNCHANGED <<mode, todo, queue, hand, core, written>>
  PROVE  LiveInv'
<1>1. PICK m \in Nat, b \in Nat, e \in Nat : Carried(m, b, e) /\ Delivered(b, e)
  BY DEF LiveInv
<1>2. /\ clock' = clock /\ socket' = <<>> /\ conn' = after /\ todo' = <<>> /\ owed' = Forgotten
  BY DEF LiveInv, Over
<1>3. PICK c \in Nat : c = clock /\ b <= c
  <2>1. clock \in Nat /\ b <= clock
    BY <1>1, LiveTypes DEF Carried
  <2> QED
    BY <2>1
<1>4. \A n \in SoundNumbers : n \in owed' <=> n \in NumbersIn(Ahead)
  BY <1>1, <1>2, OverDelivers
<1>5. Delivered(c, c)'
  BY <1>1, <1>3, <1>4, AllAhead
<1>6. ~Streaming'
  BY <1>2 DEF Streaming
<1> QED
  BY <1>2, <1>3, <1>5, <1>6 DEF LiveInv

\* ---- the steps of a live station

\* The consumer moves sentences along what is ahead.
LEMMA ConsumerIsLive ==
  ASSUME TypeOK, Live, core = "running", LiveInv, Take \/ Write \/ PlotFails
  PROVE  LiveInv'
<1>1. UNCHANGED <<todo, conn, closed, socket, buffer, clock, since, owed>>
  BY DEF Take, Write, PlotFails, net
<1>2. NumbersIn(Ahead') = NumbersIn(Ahead) /\ (Ascends(Ahead) => Ascends(Ahead'))
  BY ConsumerKeeps
<1>3. CASE Streaming
  <2>1. PICK m \in Nat, b \in Nat, e \in Nat : Carried(m, b, e) /\ Delivered(b, e)
    BY <1>3 DEF LiveInv
  <2>2. Carried(m, b, e)'
    BY <1>1, <2>1, CarriedKeeps
  <2>3. Delivered(b, e)'
    BY <1>1, <1>2, <2>1, DeliveredKeeps
  <2>4. Streaming' /\ todo' = <<>>
    BY <1>1, <1>3 DEF Streaming, LiveInv
  <2> QED
    BY <2>2, <2>3, <2>4 DEF LiveInv
<1>4. CASE ~Streaming
  <2>1. PICK c \in Nat : c = clock /\ Delivered(c, c)
    BY <1>4, LiveTypes DEF LiveInv
  <2>2. Delivered(c, c)'
    BY <1>1, <1>2, <2>1, DeliveredKeeps
  <2>3. ~Streaming' /\ todo' = <<>> /\ clock' = c /\ socket' = <<>>
    BY <1>1, <1>4, <2>1 DEF Streaming, LiveInv
  <2> QED
    BY <2>2, <2>3 DEF LiveInv
<1> QED
  BY <1>3, <1>4

\* The caster closes; or a connection that has ended is waited for.
LEMMA QuietSteps ==
  ASSUME TypeOK, Live, core = "running", LiveInv,
         CasterCloses \/ Wake \/ (Connect /\ ~Streaming')
  PROVE  LiveInv'
<1>1. /\ UNCHANGED <<todo, socket, clock, owed, written, hand, queue>>
      /\ CasterCloses => UNCHANGED <<conn, since, buffer>> /\ closed'
  BY DEF CasterCloses, Wake, Connect
<1>2. CASE CasterCloses
  <2>1. Streaming
    BY <1>2 DEF CasterCloses, Streaming
  <2>2. PICK m \in Nat, b \in Nat, e \in Nat : Carried(m, b, e) /\ Delivered(b, e)
    BY <2>1 DEF LiveInv
  <2>3. Carried(m, b, e)'
    BY <1>1, <1>2, <2>2, CarriedKeeps
  <2>4. Ahead' = Ahead
    BY <1>1, AheadStays
  <2>5. Delivered(b, e)'
    BY <1>1, <1>2, <2>2, <2>4, DeliveredKeeps
  <2>6. Streaming' /\ todo' = <<>>
    BY <1>1, <1>2, <2>1 DEF Streaming, LiveInv
  <2> QED
    BY <2>3, <2>5, <2>6 DEF LiveInv
<1>3. CASE Wake \/ (Connect /\ ~Streaming')
  <2>1. ~Streaming /\ ~Streaming'
    BY <1>3 DEF Wake, Connect, Streaming
  <2>2. PICK c \in Nat : c = clock /\ Delivered(c, c)
    BY <2>1, LiveTypes DEF LiveInv
  <2>3. \A n \in SoundNumbers : n \in owed' <=> n \in NumbersIn(Ahead)
    <3>1. \A n \in SoundNumbers : n \in Nat /\ n >= 1 /\ ~(c <= 2 * n - 2 /\ 2 * n <= c)
      BY SoundIsEnded
    <3> QED
      BY <1>1, <2>2, <3>1 DEF Delivered
  <2>4. Delivered(c, c)'
    BY <1>1, <2>2, <2>3, AllAhead
  <2>5. todo' = <<>> /\ socket' = <<>> /\ clock' = c
    BY <1>1, <2>1, <2>2 DEF LiveInv
  <2> QED
    BY <2>1, <2>4, <2>5 DEF LiveInv
<1> QED
  BY <1>2, <1>3

\* A connection begins to stream at the clock, behind a header of m fragments.
LEMMA StreamBegins ==
  ASSUME TypeOK, Live, core = "running", LiveInv, ~Streaming, Streaming',
         NEW h \in Seq(Fragments), \A i \in DOMAIN h : h[i] \in HeaderFragments,
         Stream' = h, since' = clock,
         UNCHANGED <<clock, owed, todo, written, hand, queue>>,
         conn' = "draining" => closed' \/ (Len(h) > 0 /\ h[Len(h)] = <<0, 0>>)
  PROVE  LiveInv'
<1>1. PICK c \in Nat : c = clock /\ Delivered(c, c)
  BY LiveTypes DEF LiveInv
<1>2. PICK m \in Nat : m = Len(h) /\ DOMAIN h = 1..m
  OBVIOUS
<1>3. \A n \in SoundNumbers : n \in owed' <=> n \in NumbersIn(Ahead)
  <2>1. \A n \in SoundNumbers : n \in Nat /\ n >= 1 /\ ~(c <= 2 * n - 2 /\ 2 * n <= c)
    BY SoundIsEnded
  <2> QED
    BY <1>1, <2>1 DEF Delivered
<1>4. Delivered(c, c)'
  BY <1>1, <1>3, AllAhead
<1>5. HasContent(h, m, c, c)
  BY <1>2 DEF HasContent
<1>6. /\ since' <= c /\ c <= c /\ c <= clock' /\ c = clock' /\ c = since'
  BY <1>1
<1>7. conn' = "draining" => (closed' /\ c = c) \/ (m > 0 /\ h[m] = <<0, 0>>)
  BY <1>2
<1>8. Carried(m, c, c)'
  <2>1. HasContent(Stream', m, c, c)
    BY <1>5
  <2>2. HasContent(Stream, m, c, c)'
    BY <2>1 DEF HasContent, FragmentAt
  <2>3. conn' = "draining" => (closed' /\ c = c) \/ (m > 0 /\ Stream'[m] = <<0, 0>>)
    BY <1>7
  <2> QED
    BY <1>6, <2>2, <2>3 DEF Carried
<1>9. todo' = <<>>
  BY DEF LiveInv
<1> QED
  BY <1>4, <1>8, <1>9 DEF LiveInv

\* A raw connection streams at once.
LEMMA ConnectIsLive ==
  ASSUME TypeOK, Live, core = "running", LiveInv, Connect
  PROVE  LiveInv'
<1>1. CASE ~Streaming'
  BY <1>1, QuietSteps
<1>2. CASE Streaming'
  <2>1. conn' = "open" /\ buffer' = <<>> /\ since' = clock /\ ~Streaming
        /\ UNCHANGED <<clock, owed, todo, written, hand, queue, socket>>
    BY <1>2 DEF Connect, Streaming, Streams
  <2>2. socket' = <<>>
    BY <2>1 DEF LiveInv
  <2>3. PICK h \in Seq(Fragments) : h = <<>>
    <3>1. <<>> \in Seq(Fragments)
      OBVIOUS
    <3> QED
      BY <3>1
  <2>4. Stream' = h
    <3>1. Stream' = <<>> \o h
      BY <2>1, <2>2, <2>3 DEF Stream
    <3> QED
      BY <3>1, NothingBefore
  <2>5. DOMAIN h = {}
    BY <2>3
  <2> QED
    BY <1>2, <2>1, <2>4, <2>5, StreamBegins
<1> QED
  BY <1>1, <1>2

\* Every reply of a caster that accepts starts the stream behind its headers.
LEMMA HandshakeIsLive ==
  ASSUME TypeOK, Live, core = "running", LiveInv, NEW r \in Replies, Handshake(r)
  PROVE  LiveInv'
<1>1. conn = "handshake" /\ ~Streaming /\ UNCHANGED <<mode, todo, queue, hand, core, written>>
  BY DEF Handshake, Streaming
<1>2. CASE r \in Accepting
  <2>1. /\ since' = clock /\ socket' = Headers(r) /\ UNCHANGED <<owed, clock>>
        /\ r = "HTTP cut" => closed'
        /\ \/ Drains(r) /\ conn' = "draining"
           \/ ~Drains(r) /\ conn' = "open" /\ buffer' = <<>>
    BY <1>2 DEF Handshake, Streams
  <2>2. Headers(r) \in Seq(Fragments) /\ \A i \in DOMAIN Headers(r) : Headers(r)[i] \in HeaderFragments
    <3>1. Headers(r) = <<<<0, 2>>, <<0, 0>>>> \/ Headers(r) = <<<<0, 2>>>> \/ Headers(r) = <<>>
      BY DEF Headers
    <3> QED
      BY <3>1, LinesAreTyped DEF HeaderFragments
  <2>3. PICK h \in Seq(Fragments) : h = Headers(r) /\ \A i \in DOMAIN h : h[i] \in HeaderFragments
    BY <2>2
  <2>4. Stream' = h /\ Streaming'
    <3>1. CASE conn' = "draining"
      BY <2>1, <2>3, <3>1 DEF Stream, Streaming
    <3>2. CASE conn' = "open" /\ buffer' = <<>>
      <4>1. Stream' = <<>> \o h
        BY <2>1, <2>3, <3>2 DEF Stream
      <4> QED
        BY <3>2, <4>1, NothingBefore DEF Streaming
    <3> QED
      BY <2>1, <3>1, <3>2
  <2>5. conn' = "draining" => closed' \/ (Len(h) > 0 /\ h[Len(h)] = <<0, 0>>)
    <3>1. CASE r = "HTTP"
      <4>1. h = <<<<0, 2>>, <<0, 0>>>>
        BY <2>3, <3>1 DEF Headers
      <4> QED
        BY <4>1
    <3>2. CASE r = "HTTP cut"
      BY <2>1, <3>2
    <3>3. CASE r # "HTTP" /\ r # "HTTP cut"
      BY <2>1, <3>3 DEF Drains
    <3> QED
      BY <3>1, <3>2, <3>3
  <2> QED
    BY <1>1, <2>1, <2>3, <2>4, <2>5, StreamBegins
<1>3. CASE r \notin Accepting
  <2>1. PICK after \in {"sleeping", "ended"} : Over(after)
    BY <1>3 DEF Handshake
  <2>2. conn' = after /\ socket' = <<>> /\ socket = <<>> /\ clock' = clock /\ todo' = <<>> /\ owed' = Forgotten
    BY <1>1, <2>1 DEF Over, LiveInv
  <2>3. PICK c \in Nat : c = clock /\ Delivered(c, c)
    BY <1>1, LiveTypes DEF LiveInv
  <2>4. Forgotten = owed
    <3>1. DOMAIN socket = {}
      BY <2>2
    <3> QED
      BY <3>1 DEF Forgotten
  <2>5. \A n \in SoundNumbers : n \in owed' <=> n \in NumbersIn(Ahead)
    <3>1. \A n \in SoundNumbers : n \in Nat /\ n >= 1 /\ ~(c <= 2 * n - 2 /\ 2 * n <= c)
      BY SoundIsEnded
    <3> QED
      BY <2>2, <2>3, <2>4, <3>1 DEF Delivered
  <2>6. Delivered(c, c)'
    BY <1>1, <2>3, <2>5, AllAhead
  <2>7. ~Streaming'
    BY <2>2 DEF Streaming
  <2> QED
    BY <2>2, <2>3, <2>6, <2>7 DEF LiveInv
<1> QED
  BY <1>2, <1>3

\* What the caster sends is carried, and what it sends while nobody listens is lost.
LEMMA CasterSendsIsLive ==
  ASSUME TypeOK, Live, core = "running", LiveInv, CasterSends
  PROVE  LiveInv'
<1>1. /\ clock \in Nat /\ clock < 2 * Len(Sentence) /\ clock' = clock + 1
      /\ UNCHANGED <<conn, closed, buffer, since, todo, queue, hand, core, written>>
  BY LiveTypes DEF CasterSends
<1>2. Ahead' = Ahead /\ todo' = <<>> /\ (Streaming' <=> Streaming)
  BY <1>1, AheadStays DEF LiveInv, Streaming
<1>3. CASE Streaming /\ ~closed
  <2>1. /\ socket' = Append(socket, FragmentAt(clock))
        /\ owed' = owed \cup {n \in Numbers : 2 * n = clock' /\ SentWhole(n)}
    BY <1>3 DEF CasterSends, Streaming
  <2>2. PICK m \in Nat, b \in Nat, e \in Nat : Carried(m, b, e) /\ Delivered(b, e)
    BY <1>3 DEF LiveInv
  <2>3. e = clock /\ b <= e /\ since <= b /\ HasContent(Stream, m, b, e)
        /\ (b = since \/ (m = 0 /\ Closes(b - 1)))
        /\ (conn = "draining" => m > 0 /\ Stream[m] = <<0, 0>>)
    BY <1>3, <2>2 DEF Carried
  <2>4. PICK f \in Fragments : f = FragmentAt(e)
    BY <1>1, <2>3, LiveTypes, FragmentTypes
  <2>5. Stream' = Append(Stream, f)
    <3>1. CASE conn = "draining"
      BY <1>1, <2>1, <2>3, <2>4, <3>1 DEF Stream
    <3>2. CASE conn = "open"
      <4>1. Stream' = buffer \o Append(socket, f) /\ Stream = buffer \o socket
        BY <1>1, <2>1, <2>3, <2>4, <3>2 DEF Stream
      <4>2. \A s, t \in Seq(Fragments) : \A x \in Fragments : s \o Append(t, x) = Append(s \o t, x)
        OBVIOUS
      <4> QED
        BY <4>1, <4>2, LiveTypes
    <3> QED
      BY <1>3, <3>1, <3>2 DEF Streaming
  <2>6. PICK s \in Seq(Fragments), t \in Seq(Fragments) : s = Stream /\ t = Append(s, f)
    BY LiveTypes, Appended
  <2>7. HasContent(t, m, b, e + 1) /\ (m > 0 => t[m] = Stream[m])
    <3>1. HasContent(s, m, b, e)
      BY <2>3, <2>6
    <3>2. Len(t) = Len(s) + 1 /\ (\A i \in 1..Len(s) : t[i] = s[i]) /\ t[Len(s) + 1] = FragmentAt(e)
      BY <2>4, <2>6, Appended
    <3>3. HasContent(t, m, b, e + 1) /\ (m > 0 => t[m] = s[m])
      BY <2>3, <3>1, <3>2, ContentGrows, SMTT(30)
    <3> QED
      BY <2>6, <3>3
  <2>8. PICK g \in Nat : g = e + 1
    OBVIOUS
  <2>9. Carried(m, b, g)'
    <3>1. Stream' = t /\ since' = since /\ clock' = g /\ conn' = conn
      BY <1>1, <2>3, <2>5, <2>6, <2>8
    <3>2. HasContent(Stream', m, b, g)
      BY <2>7, <2>8, <3>1
    <3>3. HasContent(Stream, m, b, g)'
      BY <3>2 DEF HasContent, FragmentAt
    <3>4. since' <= b /\ b <= g /\ g <= clock' /\ g = clock'
      BY <2>3, <2>8, <3>1
    <3>5. b = since' \/ (m = 0 /\ Closes(b - 1)')
      BY <2>3, <3>1 DEF Closes, FragmentAt, EndsLine
    <3>6. conn' = "draining" => m > 0 /\ Stream'[m] = <<0, 0>>
      BY <2>3, <2>7, <3>1
    <3> QED
      BY <3>3, <3>4, <3>5, <3>6 DEF Carried
  <2>10. Delivered(b, g)'
    <3>1. \A n \in SoundNumbers : SentWhole(n)' <=> SentWhole(n)
      BY <1>1 DEF SentWhole
    <3>2. ASSUME NEW n \in SoundNumbers
          PROVE  n \in owed' <=> n \in NumbersIn(Ahead) \/ (b <= 2 * n - 2 /\ 2 * n <= g /\ SentWhole(n))
      <4>1. n \in Numbers /\ n \in Nat /\ n >= 1
        BY SoundIsEnded
      <4>2. n \in owed' <=> n \in owed \/ (2 * n = g /\ SentWhole(n))
        BY <1>1, <2>1, <2>3, <2>8, <4>1
      <4>3. n \in owed <=> n \in NumbersIn(Ahead) \/ (b <= 2 * n - 2 /\ 2 * n <= e /\ SentWhole(n))
        BY <2>2 DEF Delivered
      <4>4. 2 * n = g /\ SentWhole(n) => b <= 2 * n - 2
        <5> SUFFICES ASSUME 2 * n = g, SentWhole(n), ~(b <= 2 * n - 2) PROVE FALSE
          OBVIOUS
        <5>1. b = 2 * n - 1
          BY <2>3, <2>8, <4>1
        <5>2. since \in Nat /\ 2 * n - 2 >= since
          BY LiveTypes DEF SentWhole
        <5>3. b # since
          BY <4>1, <5>1, <5>2
        <5>4. Closes(b - 1) /\ b - 1 = 2 * n - 2
          BY <2>3, <4>1, <5>1, <5>3
        <5> QED
          BY <4>1, <5>4, Halves
      <4>5. 2 * n <= g <=> 2 * n <= e \/ 2 * n = g
        BY <2>8, <4>1
      <4> QED
        BY <4>2, <4>3, <4>4, <4>5
    <3> QED
      BY <1>2, <2>2, <3>1, <3>2 DEF Delivered
  <2> QED
    BY <1>2, <1>3, <2>9, <2>10 DEF LiveInv
<1>4. CASE Streaming /\ closed
  <2>1. socket' = socket /\ owed' = owed
    BY <1>4 DEF CasterSends
  <2>2. PICK m \in Nat, b \in Nat, e \in Nat : Carried(m, b, e) /\ Delivered(b, e)
    BY <1>4 DEF LiveInv
  <2>3. Delivered(b, e)'
    BY <1>1, <1>2, <2>1, <2>2, DeliveredKeeps
  <2>4. Stream' = Stream
    BY <1>1, <2>1 DEF Stream
  <2>5. e <= clock'
    BY <1>1, <2>2 DEF Carried
  <2>6. Carried(m, b, e)'
    BY <1>1, <1>4, <2>2, <2>4, <2>5 DEF Carried, HasContent, Closes, FragmentAt
  <2> QED
    BY <1>2, <1>4, <2>3, <2>6 DEF LiveInv
<1>5. CASE ~Streaming
  <2>1. socket' = socket /\ owed' = owed /\ socket = <<>>
    BY <1>5 DEF CasterSends, Streaming, LiveInv
  <2>2. PICK c \in Nat : c = clock /\ Delivered(c, c)
    BY <1>5, LiveTypes DEF LiveInv
  <2>3. PICK g \in Nat : g = c + 1
    OBVIOUS
  <2>4. \A n \in SoundNumbers : n \in owed' <=> n \in NumbersIn(Ahead)
    <3>1. \A n \in SoundNumbers : n \in Nat /\ n >= 1 /\ ~(c <= 2 * n - 2 /\ 2 * n <= c)
      BY SoundIsEnded
    <3> QED
      BY <2>1, <2>2, <3>1 DEF Delivered
  <2>5. c <= g
    BY <2>3
  <2>6. Delivered(g, g)'
    BY <1>1, <2>2, <2>4, <2>5, AllAhead
  <2>7. clock' = g
    BY <1>1, <2>2, <2>3
  <2> QED
    BY <1>2, <1>5, <2>1, <2>6, <2>7 DEF LiveInv
<1> QED
  BY <1>3, <1>4, <1>5

\* A drained header line goes, and the stream begins after the last.
LEMMA DrainIsLive ==
  ASSUME TypeOK, Live, core = "running", LiveInv, Drain
  PROVE  LiveInv'
<1>1. /\ conn = "draining" /\ Streaming /\ Stream = socket /\ socket \in Seq(Fragments)
      /\ UNCHANGED <<mode, closed, clock, since, owed, todo, queue, hand, core, written>>
  BY StreamIs, LiveTypes DEF Drain, Streaming
<1>2. PICK x \in DOMAIN socket :
         /\ IsLine(socket, 1, x) /\ socket' = After(socket, x)
         /\ \/ conn' = "open" /\ buffer' = <<>>
            \/ SubSeq(socket, 1, x) # Blank /\ conn' = conn
  BY DEF Drain, Streams
<1>3. PICK m \in Nat, b \in Nat, e \in Nat : Carried(m, b, e) /\ Delivered(b, e)
  BY <1>1 DEF LiveInv
<1>4. /\ b <= e /\ HasContent(socket, m, b, e) /\ since <= b /\ e <= clock /\ (closed \/ e = clock)
      /\ (b = since \/ (m = 0 /\ Closes(b - 1)))
      /\ ((closed /\ b = e) \/ (m > 0 /\ socket[m] = <<0, 0>>))
  BY <1>1, <1>3 DEF Carried
<1>5. m > 0 /\ x = 1 /\ HasContent(After(socket, 1), m - 1, b, e)
  <2>1. \/ m > 0 /\ x = 1 /\ socket[1] \in HeaderFragments /\ HasContent(After(socket, 1), m - 1, b, e)
        \/ m = 0 /\ x \in Nat /\ x >= 1 /\ b + x <= e
    BY <1>1, <1>2, <1>4, CutLine
  <2> QED
    BY <1>4, <2>1
<1>6. PICK k \in Nat : k = m - 1
  BY <1>5
<1>7. PICK t \in Seq(Fragments) : t = After(socket, 1) /\ Len(t) = Len(socket) - 1
                                  /\ \A i \in 1..(Len(socket) - 1) : t[i] = socket[1 + i]
  <2>1. 1 \in 0..Len(socket) /\ socket \in Seq(Fragments)
    BY <1>1, <1>2, <1>5
  <2>2. /\ After(socket, 1) \in Seq(Fragments) /\ Len(After(socket, 1)) = Len(socket) - 1
        /\ \A i \in 1..(Len(socket) - 1) : After(socket, 1)[i] = socket[1 + i]
    <3>1. \A u \in Seq(Fragments) : 1 \in 0..Len(u) =>
             /\ After(u, 1) \in Seq(Fragments) /\ Len(After(u, 1)) = Len(u) - 1
             /\ \A i \in 1..(Len(u) - 1) : After(u, 1)[i] = u[1 + i]
      BY Cut, ZenonT(60)
    <3> QED
      BY <2>1, <3>1, Zenon
  <2> QED
    BY <2>2
<1>8. HasContent(t, k, b, e) /\ socket' = t
  BY <1>2, <1>5, <1>6, <1>7
<1>9. Stream' = t /\ Streaming'
  <2>1. CASE conn' = "open" /\ buffer' = <<>>
    <3>1. Stream' = <<>> \o t
      BY <1>8, <2>1 DEF Stream
    <3> QED
      BY <2>1, <3>1, NothingBefore DEF Streaming
  <2>2. CASE conn' = conn
    BY <1>1, <1>8, <2>2 DEF Stream, Streaming
  <2> QED
    BY <1>2, <2>1, <2>2
<1>10. conn' = "draining" => (closed /\ b = e) \/ (k > 0 /\ t[k] = <<0, 0>>)
  <2> SUFFICES ASSUME conn' = "draining", m > 0, socket[m] = <<0, 0>>
               PROVE  k > 0 /\ t[k] = <<0, 0>>
    BY <1>4
  <2>1. SubSeq(socket, 1, 1) # Blank
    BY <1>2, <1>5
  <2>2. Len(socket) \in Nat /\ Len(socket) >= 1 /\ Len(socket) = m + (e - b)
    BY <1>1, <1>2, <1>4, <1>5 DEF HasContent
  <2>3. m # 1
    <3> SUFFICES ASSUME m = 1 PROVE FALSE
      OBVIOUS
    <3>1. socket[1] = <<0, 0>>
      OBVIOUS
    <3>2. SubSeq(socket, 1, 1) = <<socket[1]>>
      <4>1. 1 \in 0..Len(socket)
        BY <2>2
      <4>2. SubSeq(socket, 1, 1) \in Seq(Fragments) /\ Len(SubSeq(socket, 1, 1)) = 1
            /\ \A i \in 1..1 : SubSeq(socket, 1, 1)[i] = socket[i]
        BY <1>1, <4>1, Cut
      <4>3. \A s \in Seq(Fragments) : Len(s) = 1 => s = <<s[1]>>
        OBVIOUS
      <4>4. SubSeq(socket, 1, 1)[1] = socket[1]
        BY <4>2
      <4> QED
        BY <4>2, <4>3, <4>4, Zenon
    <3> QED
      BY <2>1, <3>1, <3>2 DEF Blank
  <2>4. k > 0 /\ k \in 1..(Len(socket) - 1) /\ 1 + k = m
    BY <1>4, <1>6, <2>2, <2>3
  <2> QED
    BY <1>7, <2>4
<1>11. Carried(k, b, e)'
  <2>1. HasContent(Stream, k, b, e)'
    <3>1. HasContent(Stream', k, b, e)
      BY <1>8, <1>9
    <3> QED
      BY <3>1 DEF HasContent, FragmentAt
  <2>2. b = since
    BY <1>4, <1>5
  <2> QED
    BY <1>1, <1>4, <1>9, <1>10, <2>1, <2>2 DEF Carried
<1>12. Delivered(b, e)'
  <2>1. Ahead' = Ahead
    BY <1>1, AheadStays
  <2> QED
    BY <1>1, <1>3, <2>1, DeliveredKeeps
<1>13. todo' = <<>>
  BY <1>1 DEF LiveInv
<1> QED
  BY <1>9, <1>11, <1>12, <1>13 DEF LiveInv

\* A header that is cut short ends with its connection, which carried nothing more.
LEMMA DrainEndsIsLive ==
  ASSUME TypeOK, Live, core = "running", LiveInv, DrainEnds
  PROVE  LiveInv'
<1>1. /\ conn = "draining" /\ Streaming /\ Stream = socket /\ socket \in Seq(Fragments) /\ closed /\ ~HasLine(socket)
      /\ UNCHANGED <<mode, closed, clock, since, owed, todo, queue, hand, core, written>>
      /\ socket' = <<>> /\ conn' = "open" /\ buffer' = <<>>
  BY StreamIs, LiveTypes DEF DrainEnds, Streaming, Streams
<1>2. PICK m \in Nat, b \in Nat, e \in Nat : Carried(m, b, e) /\ Delivered(b, e)
  BY <1>1 DEF LiveInv
<1>3. /\ b <= e /\ HasContent(socket, m, b, e) /\ since <= b /\ e <= clock
      /\ (b = since \/ (m = 0 /\ Closes(b - 1)))
      /\ ((closed /\ b = e) \/ (m > 0 /\ socket[m] = <<0, 0>>))
  BY <1>1, <1>2 DEF Carried
<1>4. m = 0
  <2> SUFFICES ASSUME m > 0 PROVE FALSE
    OBVIOUS
  <2>1. 1 \in DOMAIN socket /\ socket[1] \in HeaderFragments
    <3>1. Len(socket) = m + (e - b) /\ (\A k \in 1..m : socket[k] \in HeaderFragments) /\ b <= e
      BY <1>3 DEF HasContent
    <3>2. 1 \in 1..m /\ m + (e - b) >= 1
      BY <3>1
    <3>3. DOMAIN socket = 1..Len(socket)
      BY <1>1
    <3> QED
      BY <3>1, <3>2, <3>3
  <2>2. EndsLine(socket[1])
    BY <2>1 DEF HeaderFragments, EndsLine
  <2> QED
    BY <1>1, <2>1, <2>2 DEF HasLine
<1>5. b = e
  BY <1>3, <1>4
<1>6. Stream' = <<>> /\ Streaming'
  <2>1. <<>> \in Seq(Fragments) /\ Stream' = <<>> \o <<>>
    BY <1>1 DEF Stream
  <2> QED
    BY <1>1, <2>1, NothingBefore DEF Streaming
<1>7. Carried(0, b, e)'
  <2>1. Len(<<>>) = 0 + (e - b)
    BY <1>5
  <2>2. HasContent(Stream, 0, b, e)'
    BY <1>5, <1>6, <2>1 DEF HasContent
  <2>3. b = since' \/ (0 = 0 /\ Closes(b - 1)')
    BY <1>1, <1>3 DEF Closes, FragmentAt, EndsLine
  <2> QED
    BY <1>1, <1>3, <2>2, <2>3 DEF Carried
<1>8. Delivered(b, e)'
  <2>1. Ahead' = Ahead
    BY <1>1, AheadStays
  <2> QED
    BY <1>1, <1>2, <2>1, DeliveredKeeps
<1>9. todo' = <<>>
  BY <1>1 DEF LiveInv
<1>10. 0 \in Nat
  OBVIOUS
<1> QED
  BY <1>6, <1>7, <1>8, <1>9, <1>10 DEF LiveInv

\* A read takes fragments from the socket to the buffer, or the connection is over.
LEMMA ReadIsLive ==
  ASSUME TypeOK, Live, core = "running", LiveInv, Read
  PROVE  LiveInv'
<1>1. conn = "open" /\ Streaming /\ ~HasLine(buffer) /\ UNCHANGED <<mode, todo, queue, hand, core, written>>
  BY DEF Read, Streaming
<1>2. PICK k \in DOMAIN socket : ReadFrom(SubSeq(socket, 1, k))
  BY DEF Read
<1>3. CASE TooLong(buffer \o SubSeq(socket, 1, k))
  <2>1. Over("sleeping")
    BY <1>2, <1>3 DEF ReadFrom
  <2> QED
    BY <1>1, <2>1, OverKeeps
<1>4. CASE ~TooLong(buffer \o SubSeq(socket, 1, k))
  <2>1. /\ buffer' = buffer \o SubSeq(socket, 1, k) /\ socket' = After(socket, Len(SubSeq(socket, 1, k)))
        /\ UNCHANGED <<conn, closed, clock, since, owed>>
    BY <1>2, <1>4 DEF ReadFrom
  <2>2. PICK c \in Seq(Fragments), t \in Seq(Fragments) :
           c = SubSeq(socket, 1, k) /\ t = After(socket, Len(SubSeq(socket, 1, k))) /\ c \o t = socket
    <3>1. socket \in Seq(Fragments) /\ k \in 0..Len(socket)
      BY LiveTypes
    <3>2. Len(SubSeq(socket, 1, k)) = k
      BY <3>1, CutAndJoined
    <3>3. \E u, v \in Seq(Fragments) : u = SubSeq(socket, 1, k) /\ v = After(socket, k) /\ u \o v = socket
      BY <3>1, CutAndJoined
    <3> QED
      BY <3>2, <3>3
  <2>3. Stream' = Stream
    <3>0. buffer \in Seq(Fragments)
      BY LiveTypes
    <3>1. \A u, v, w \in Seq(Fragments) : (u \o v) \o w = u \o (v \o w)
      BY SMTT(30)
    <3>2. Stream' = (buffer \o c) \o t
      BY <1>1, <2>1, <2>2 DEF Stream
    <3>3. (buffer \o c) \o t = buffer \o (c \o t)
      BY <3>0, <3>1, Zenon
    <3>4. Stream' = buffer \o socket
      BY <2>2, <3>2, <3>3, Zenon
    <3> QED
      BY <1>1, <3>4, StreamIs
  <2>4. PICK m \in Nat, b \in Nat, e \in Nat : Carried(m, b, e) /\ Delivered(b, e)
    BY <1>1 DEF LiveInv
  <2>5. Carried(m, b, e)'
    BY <2>1, <2>3, <2>4 DEF Carried, HasContent, Closes, FragmentAt
  <2>6. Delivered(b, e)'
    <3>1. Ahead' = Ahead
      BY <1>1, AheadStays
    <3> QED
      BY <2>1, <2>4, <3>1, DeliveredKeeps
  <2>7. Streaming' /\ todo' = <<>>
    BY <1>1, <2>1 DEF Streaming, LiveInv
  <2> QED
    BY <2>5, <2>6, <2>7 DEF LiveInv
<1> QED
  BY <1>3, <1>4

\* A line at the front of what was received is one at the front of the stream.
LEMMA FrontLine ==
  ASSUME NEW u \in Seq(Fragments), NEW v \in Seq(Fragments), NEW x \in DOMAIN u, IsLine(u, 1, x)
  PROVE  \E s \in Seq(Fragments) :
            /\ s = u \o v /\ x \in DOMAIN s /\ IsLine(s, 1, x)
            /\ After(s, x) = After(u, x) \o v
            /\ \A i \in 1..x : SubSeq(u, 1, x)[i] = s[i]
<1>1. /\ u \o v \in Seq(Fragments) /\ Len(u \o v) = Len(u) + Len(v)
      /\ \A i \in 1..Len(u) : (u \o v)[i] = u[i]
      /\ \A i \in 1..Len(v) : (u \o v)[Len(u) + i] = v[i]
  BY Joined
<1>2. PICK s \in Seq(Fragments) : /\ s = u \o v /\ Len(s) = Len(u) + Len(v)
                                  /\ \A i \in 1..Len(u) : s[i] = u[i]
                                  /\ \A i \in 1..Len(v) : s[Len(u) + i] = v[i]
  BY <1>1
<1>3. x \in Nat /\ x >= 1 /\ x <= Len(u) /\ Len(u) \in Nat /\ Len(v) \in Nat /\ x \in 0..Len(u)
  OBVIOUS
<1>4. x \in DOMAIN s /\ x \in 0..Len(s)
  BY <1>2, <1>3
<1>5. IsLine(s, 1, x)
  <2>1. \A i \in 1..x : s[i] = u[i]
    BY <1>2, <1>3
  <2> QED
    BY <1>3, <2>1 DEF IsLine
<1>6. /\ \A i \in 1..x : SubSeq(u, 1, x)[i] = u[i]
      /\ After(u, x) \in Seq(Fragments) /\ Len(After(u, x)) = Len(u) - x
      /\ \A i \in 1..(Len(u) - x) : After(u, x)[i] = u[x + i]
  BY <1>3, Cut
<1>7. /\ After(s, x) \in Seq(Fragments) /\ Len(After(s, x)) = Len(s) - x
      /\ \A i \in 1..(Len(s) - x) : After(s, x)[i] = s[x + i]
  BY <1>4, Cut
<1>8. PICK r \in Seq(Fragments) : /\ r = After(u, x) /\ Len(r) = Len(u) - x
                                  /\ \A i \in 1..(Len(u) - x) : r[i] = u[x + i]
  BY <1>6
<1>9. PICK w \in Seq(Fragments) : /\ w = After(s, x) /\ Len(w) = Len(s) - x
                                  /\ \A i \in 1..(Len(s) - x) : w[i] = s[x + i]
  BY <1>7
<1>10. PICK z \in Seq(Fragments) : /\ z = r \o v /\ Len(z) = Len(r) + Len(v)
                                   /\ \A i \in 1..Len(r) : z[i] = r[i]
                                   /\ \A i \in 1..Len(v) : z[Len(r) + i] = v[i]
  <2>1. /\ r \o v \in Seq(Fragments) /\ Len(r \o v) = Len(r) + Len(v)
        /\ \A i \in 1..Len(r) : (r \o v)[i] = r[i]
        /\ \A i \in 1..Len(v) : (r \o v)[Len(r) + i] = v[i]
    BY Joined
  <2> QED
    BY <2>1
<1>11. w = z
  <2>1. PICK p \in Nat, q \in Nat : p = Len(u) /\ q = Len(v) /\ x <= p
    BY <1>3
  <2>2. Len(s) = p + q /\ Len(r) = p - x /\ Len(z) = (p - x) + q /\ Len(w) = (p + q) - x /\ Len(w) = Len(z)
    <3>1. Len(s) = p + q /\ Len(r) = p - x
      BY <1>2, <1>8, <2>1
    <3>2. Len(z) = (p - x) + q /\ Len(w) = (p + q) - x
      BY <1>9, <1>10, <2>1, <3>1
    <3> QED
      BY <1>3, <3>1, <3>2, SMTT(30)
  <2>3. ASSUME NEW i \in 1..Len(z)
        PROVE  w[i] = z[i]
    <3>0. i \in Nat /\ i >= 1 /\ i <= (p - x) + q
      BY <2>2
    <3>1. w[i] = s[x + i]
      <4>1. i \in 1..(Len(s) - x)
        BY <1>3, <2>2, <3>0
      <4> QED
        BY <1>9, <4>1
    <3>2. CASE i <= p - x
      <4>1. x + i \in 1..Len(u) /\ i \in 1..Len(r) /\ i \in 1..(Len(u) - x)
        <5>1. x + i \in 1..p /\ i \in 1..(p - x)
          BY <1>3, <2>1, <3>0, <3>2
        <5> QED
          BY <2>1, <2>2, <5>1
      <4>2. s[x + i] = u[x + i]
        BY <1>2, <4>1
      <4>3. z[i] = r[i] /\ r[i] = u[x + i]
        BY <1>8, <1>10, <4>1
      <4> QED
        BY <3>1, <4>2, <4>3
    <3>3. CASE ~(i <= p - x)
      <4>1. PICK j \in Nat : j = i - (p - x) /\ j >= 1 /\ j <= q
        <5>1. i - (p - x) \in Nat /\ i - (p - x) >= 1 /\ i - (p - x) <= q
          BY <1>3, <2>1, <3>0, <3>3
        <5> QED
          BY <5>1
      <4>2. j \in 1..Len(v) /\ i = Len(r) + j /\ x + i = Len(u) + j
        <5>1. j \in 1..q /\ i = (p - x) + j /\ x + i = p + j
          BY <1>3, <2>1, <3>0, <4>1
        <5> QED
          BY <2>1, <2>2, <5>1
      <4>3. s[x + i] = v[j]
        BY <1>2, <4>2
      <4>4. z[i] = v[j]
        BY <1>10, <4>2
      <4> QED
        BY <3>1, <4>3, <4>4
    <3> QED
      BY <3>2, <3>3
  <2> QED
    BY <2>2, <2>3, SameFragments
<1>12. After(s, x) = After(u, x) \o v
  BY <1>8, <1>9, <1>10, <1>11, Zenon
<1>13. \A i \in 1..x : SubSeq(u, 1, x)[i] = s[i]
  BY <1>2, <1>3, <1>6
<1> QED
  BY <1>2, <1>4, <1>5, <1>12, <1>13

\* A header line has no number.
LEMMA HeaderHasNone ==
  ASSUME NEW line \in Seq(Fragments), line[1] \in HeaderFragments
  PROVE  NumberOf(line) = 0
<1>1. line[1][2] # 1
  BY DEF HeaderFragments
<1>2. ~Sound(line)
  BY <1>1 DEF Sound, KindOf
<1> QED
  BY <1>2 DEF NumberOf

\* A line that is put or left out adds its number to what is ahead.
LEMMA PutAdds ==
  ASSUME TypeOK, NEW line \in Seq(Fragments), UNCHANGED <<written, hand>>,
         (line = Blank /\ queue' = queue) \/ queue' = Append(queue, line)
  PROVE  /\ NumbersIn(Ahead') = NumbersIn(Ahead) \cup ({NumberOf(line)} \ {0})
         /\ Ascends(Ahead') <=> Ascends(Ahead) /\ (NumberOf(line) # 0 => \A a \in NumbersIn(Ahead) : a < NumberOf(line))
<1>1. CASE queue' = Append(queue, line)
  BY <1>1, QueueingAdds
<1>2. CASE line = Blank /\ queue' = queue
  <2>1. Ahead' = Ahead
    BY <1>2, AheadStays
  <2>2. line[1] \in HeaderFragments
    BY <1>2 DEF Blank, HeaderFragments
  <2>3. NumberOf(line) = 0
    BY <2>2, HeaderHasNone
  <2> QED
    BY <2>1, <2>3
<1> QED
  BY <1>1, <1>2

\* A line that is put takes its sentence from the stream to what is ahead.
LEMMA PutLineIsLive ==
  ASSUME TypeOK, Live, core = "running", LiveInv, PutLine
  PROVE  LiveInv'
<1>1. /\ conn = "open" /\ Streaming /\ Streaming' /\ todo' = <<>>
      /\ UNCHANGED <<conn, closed, socket, clock, since, owed, todo, hand, core, written>>
  BY DEF PutLine, Streaming, LiveInv
<1>2. PICK x \in DOMAIN buffer :
         /\ IsLine(buffer, 1, x) /\ buffer' = After(buffer, x)
         /\ (SubSeq(buffer, 1, x) = Blank /\ queue' = queue) \/ queue' = Append(queue, SubSeq(buffer, 1, x))
  BY DEF PutLine
<1>3. PICK line \in Seq(Fragments) : line = SubSeq(buffer, 1, x) /\ Len(line) = x
  <2>1. buffer \in Seq(Fragments)
    BY LiveTypes
  <2> QED
    BY <2>1, Remains
<1>4. PICK s \in Seq(Fragments) :
         /\ s = buffer \o socket /\ x \in DOMAIN s /\ IsLine(s, 1, x)
         /\ After(s, x) = After(buffer, x) \o socket
         /\ \A i \in 1..x : SubSeq(buffer, 1, x)[i] = s[i]
  <2>1. buffer \in Seq(Fragments) /\ socket \in Seq(Fragments)
    BY LiveTypes
  <2>2. PICK u \in Seq(Fragments), v \in Seq(Fragments) : u = buffer /\ v = socket
    BY <2>1
  <2>3. x \in DOMAIN u /\ IsLine(u, 1, x)
    BY <1>2, <2>2
  <2>4. \E s \in Seq(Fragments) :
           /\ s = u \o v /\ x \in DOMAIN s /\ IsLine(s, 1, x)
           /\ After(s, x) = After(u, x) \o v
           /\ \A i \in 1..x : SubSeq(u, 1, x)[i] = s[i]
    BY <2>3, FrontLine, ZenonT(60)
  <2> QED
    BY <2>2, <2>4
<1>5. Stream = s /\ Stream' = After(s, x)
  BY <1>1, <1>2, <1>4 DEF Stream
<1>6. PICK m \in Nat, b \in Nat, e \in Nat : Carried(m, b, e) /\ Delivered(b, e)
  BY <1>1 DEF LiveInv
<1>7. /\ b <= e /\ HasContent(s, m, b, e) /\ since <= b /\ e <= clock /\ (closed \/ e = clock)
      /\ (b = since \/ (m = 0 /\ Closes(b - 1)))
  BY <1>5, <1>6 DEF Carried
<1>8. \/ m > 0 /\ x = 1 /\ s[1] \in HeaderFragments /\ HasContent(After(s, 1), m - 1, b, e)
      \/ /\ m = 0 /\ x \in Nat /\ x >= 1 /\ b + x <= e
         /\ Closes(b + x - 1) /\ \A j \in b..(b + x - 2) : ~Closes(j)
         /\ \A i \in 1..x : s[i] = FragmentAt(b + i - 1)
         /\ HasContent(After(s, x), 0, b + x, e)
  <2>1. x \in DOMAIN s /\ IsLine(s, 1, x)
    BY <1>4
  <2>2. b <= e /\ HasContent(s, m, b, e)
    BY <1>7
  <2> QED
    BY <2>1, <2>2, CutLine
<1>9. /\ NumbersIn(Ahead') = NumbersIn(Ahead) \cup ({NumberOf(line)} \ {0})
      /\ Ascends(Ahead') <=> Ascends(Ahead) /\ (NumberOf(line) # 0 => \A a \in NumbersIn(Ahead) : a < NumberOf(line))
  BY <1>1, <1>2, <1>3, PutAdds
<1>10. CASE m > 0 /\ x = 1 /\ s[1] \in HeaderFragments /\ HasContent(After(s, 1), m - 1, b, e)
  <2>1. PICK k \in Nat : k = m - 1
    BY <1>10
  <2>2. NumberOf(line) = 0
    <3>1. line[1] = s[1]
      BY <1>3, <1>4, <1>10
    <3> QED
      BY <1>10, <3>1, HeaderHasNone
  <2>3. NumbersIn(Ahead') = NumbersIn(Ahead) /\ (Ascends(Ahead) => Ascends(Ahead'))
    BY <1>9, <2>2
  <2>4. Delivered(b, e)'
    BY <1>1, <1>6, <2>3, DeliveredKeeps
  <2>5. Carried(k, b, e)'
    <3>1. HasContent(Stream, k, b, e)'
      <4>1. HasContent(Stream', k, b, e)
        BY <1>5, <1>10, <2>1
      <4> QED
        BY <4>1 DEF HasContent, FragmentAt
    <3> QED
      BY <1>1, <1>7, <1>10, <3>1 DEF Carried
  <2> QED
    BY <1>1, <2>4, <2>5 DEF LiveInv
<1>11. CASE /\ m = 0 /\ x \in Nat /\ x >= 1 /\ b + x <= e
            /\ Closes(b + x - 1) /\ \A j \in b..(b + x - 2) : ~Closes(j)
            /\ \A i \in 1..x : s[i] = FragmentAt(b + i - 1)
            /\ HasContent(After(s, x), 0, b + x, e)
  <2>1. PICK c \in Nat : c = b + x
    BY <1>11
  <2>2. /\ \A n \in SoundNumbers : n = NumberOf(line) <=> b <= 2 * n - 2 /\ 2 * n <= b + x /\ SentWhole(n)
        /\ \A n \in SoundNumbers : b <= 2 * n - 2 /\ SentWhole(n) /\ ~(2 * n <= b + x) => b + x <= 2 * n - 2
    <3>1. \A i \in 1..x : line[i] = FragmentAt(b + i - 1)
      BY <1>3, <1>4, <1>11
    <3>2. b + x <= clock
      BY <1>7, <1>11, LiveTypes
    <3>3. /\ x \in Nat /\ x >= 1 /\ since <= b /\ (b = since \/ Closes(b - 1))
          /\ Closes(b + x - 1) /\ (\A j \in b..(b + x - 2) : ~Closes(j)) /\ Len(line) = x
      BY <1>3, <1>7, <1>11
    <3> QED
      BY <3>1, <3>2, <3>3, LineTaken
  <2>3. NumberOf(line) # 0 =>
          NumberOf(line) \in SoundNumbers /\ b <= 2 * NumberOf(line) - 2 /\ 2 * NumberOf(line) <= c
    <3>1. NumberOf(line) # 0 => NumberOf(line) \in SoundNumbers
      BY NumberOfLine
    <3> QED
      BY <2>1, <2>2, <3>1
  <2>4. \A n \in NumbersIn(Ahead) : n \in SoundNumbers /\ n \in Nat /\ 2 * n <= b
    BY <1>6, SoundIsEnded DEF Delivered
  <2>5. Ascends(Ahead')
    <3>1. NumberOf(line) # 0 => \A a \in NumbersIn(Ahead) : a < NumberOf(line)
      <4> SUFFICES ASSUME NEW z \in SoundNumbers, b <= 2 * z - 2, NEW a \in NumbersIn(Ahead) PROVE a < z
        BY <2>3
      <4>1. z \in Nat /\ a \in Nat /\ 2 * a <= b
        BY <2>4, SoundIsEnded
      <4> QED
        BY <4>1
    <3> QED
      BY <1>6, <1>9, <3>1 DEF Delivered
  <2>6. NumbersIn(Ahead') \subseteq SoundNumbers /\ \A n \in NumbersIn(Ahead') : 2 * n <= c
    <3>1. \A n \in NumbersIn(Ahead) : 2 * n <= c
      BY <1>11, <2>1, <2>4
    <3> QED
      BY <1>9, <2>3, <2>4, <3>1
  <2>7. ASSUME NEW n \in SoundNumbers
        PROVE  n \in owed <=> n \in NumbersIn(Ahead') \/ (c <= 2 * n - 2 /\ 2 * n <= e /\ SentWhole(n))
    <3>1. n \in Nat /\ n >= 1
      BY SoundIsEnded
    <3>2. n \in owed <=> n \in NumbersIn(Ahead) \/ (b <= 2 * n - 2 /\ 2 * n <= e /\ SentWhole(n))
      BY <1>6 DEF Delivered
    <3>3. n \in NumbersIn(Ahead') <=> n \in NumbersIn(Ahead) \/ (b <= 2 * n - 2 /\ 2 * n <= c /\ SentWhole(n))
      <4>1. n = NumberOf(line) <=> b <= 2 * n - 2 /\ 2 * n <= c /\ SentWhole(n)
        BY <2>1, <2>2
      <4>2. n # 0
        BY <3>1
      <4> QED
        BY <1>9, <4>1, <4>2
    <3>4. b <= 2 * n - 2 /\ SentWhole(n) /\ ~(2 * n <= c) => c <= 2 * n - 2
      BY <2>1, <2>2
    <3>5. 2 * n <= c => 2 * n <= e
      BY <1>11, <2>1, <3>1
    <3>6. c <= 2 * n - 2 => b <= 2 * n - 2
      BY <1>11, <2>1, <3>1
    <3> QED
      BY <3>2, <3>3, <3>4, <3>5, <3>6
  <2>8. Delivered(c, e)'
    <3>1. \A n \in SoundNumbers : SentWhole(n)' <=> SentWhole(n)
      BY <1>1 DEF SentWhole
    <3> QED
      BY <1>1, <2>5, <2>6, <2>7, <3>1 DEF Delivered
  <2>9. Carried(0, c, e)'
    <3>1. HasContent(Stream, 0, c, e)'
      <4>1. HasContent(Stream', 0, c, e)
        BY <1>5, <1>11, <2>1
      <4> QED
        BY <4>1 DEF HasContent, FragmentAt
    <3>2. Closes(c - 1)'
      <4>1. Closes(c - 1)
        BY <1>11, <2>1
      <4> QED
        BY <4>1 DEF Closes, FragmentAt, EndsLine
    <3>3. since' <= c /\ c <= e /\ e <= clock' /\ (closed' \/ e = clock')
      <4>1. since \in Nat
        BY LiveTypes
      <4> QED
        BY <1>1, <1>7, <1>11, <2>1, <4>1
    <3> QED
      BY <1>1, <3>1, <3>2, <3>3 DEF Carried
  <2>10. 0 \in Nat
    OBVIOUS
  <2> QED
    BY <1>1, <2>8, <2>9, <2>10 DEF LiveInv
<1> QED
  BY <1>8, <1>10, <1>11

\* What a live station can do, apart from being interrupted.
LEMMA LiveSteps ==
  ASSUME Live, todo = <<>>, [Next]_vars
  PROVE  \/ CasterSends \/ CasterCloses \/ Connect \/ (\E r \in Replies : Handshake(r)) \/ Drain \/ DrainEnds
         \/ DrainFails \/ Read \/ PutLine \/ Break \/ Wake \/ Take \/ Write \/ PlotFails
         \/ core' # "running" \/ UNCHANGED vars
<1>1. ~ReadLine /\ ~EndFiles /\ ~FileFails /\ ~Put
  BY DEF ReadLine, EndFiles, FileFails, Put, Live
<1>2. Cancel => core' # "running"
  BY DEF Cancel
<1> QED
  BY <1>1, <1>2 DEF Next, Environment, Adapter, Consumer

\* A connection breaks while it drains or streams.
LEMMA BreakIsLive ==
  ASSUME TypeOK, Live, core = "running", LiveInv, DrainFails \/ Break
  PROVE  LiveInv'
<1>1. Over("sleeping") /\ UNCHANGED <<mode, todo, queue, hand, core, written>>
  BY DEF DrainFails, Break
<1>2. Streaming /\ (conn = "open" => ~HasLine(buffer))
  BY DEF DrainFails, Break, Streaming
<1> QED
  BY <1>1, <1>2, OverKeeps

\* A station that runs was running.
LEMMA RunsOn ==
  ASSUME TypeOK, [Next]_vars, Live', core' = "running"
  PROVE  Live /\ core = "running"
<1>1. mode' = mode
  BY PathTypes
<1>2. core' = core \/ core' # "running"
  BY ConsumerSteps DEF Take, Write, PlotFails, FileFails, Cancel
<1> QED
  BY <1>1, <1>2 DEF Live

\* Through a live session what is owed is ahead, on its way, or lost with its
\* connection.
LEMMA LiveInvariant == Spec => []LiveInv
<1>1. Init => LiveInv
  <2> SUFFICES ASSUME Init, Live
               PROVE  todo = <<>> /\ socket = <<>> /\ ~Streaming /\ Delivered(clock, clock)
    BY DEF LiveInv
  <2>1. /\ conn = "connecting" /\ todo = <<>> /\ socket = <<>> /\ queue = <<>> /\ hand = <<>> /\ clock = 0
        /\ written["db"] = <<>> /\ owed = {}
    BY DEF Init
  <2>2. NumbersOf(queue) = <<>> /\ Handed = <<>>
    BY <2>1 DEF NumbersOf, Handed
  <2>3. Ahead = <<>>
    BY <2>1, <2>2 DEF Ahead
  <2>4. \A n \in SoundNumbers : n \in Nat /\ n >= 1
    BY SoundIsEnded
  <2>5. Delivered(0, 0)
    BY <2>1, <2>3, <2>4, FewNumbers DEF Delivered
  <2> QED
    BY <2>1, <2>5 DEF Streaming
<1>2. TypeOK /\ LiveInv /\ [Next]_vars => LiveInv'
  <2> SUFFICES ASSUME TypeOK, LiveInv, [Next]_vars, Live', core' = "running"
               PROVE  LiveInv'
    BY DEF LiveInv
  <2>1. Live /\ core = "running" /\ todo = <<>>
    BY RunsOn DEF LiveInv
  <2>2. CASE UNCHANGED vars
    <3>1. UNCHANGED <<mode, conn, closed, socket, buffer, clock, since, owed, todo, queue, hand, core, written>>
      BY <2>2 DEF vars, net
    <3>2. Ahead' = Ahead /\ (Streaming' <=> Streaming) /\ (Live' <=> Live)
      BY <3>1, AheadStays DEF Streaming, Live
    <3>3. CASE Streaming
      <4>1. PICK m \in Nat, b \in Nat, e \in Nat : Carried(m, b, e) /\ Delivered(b, e)
        BY <2>1, <3>3 DEF LiveInv
      <4>2. Carried(m, b, e)'
        BY <3>1, <4>1, CarriedKeeps
      <4>3. Delivered(b, e)'
        BY <3>1, <3>2, <4>1, DeliveredKeeps
      <4> QED
        BY <2>1, <3>1, <3>2, <3>3, <4>2, <4>3 DEF LiveInv
    <3>4. CASE ~Streaming
      <4>1. PICK c \in Nat : c = clock /\ Delivered(c, c) /\ socket = <<>>
        BY <2>1, <3>4, LiveTypes DEF LiveInv
      <4>2. Delivered(c, c)'
        BY <3>1, <3>2, <4>1, DeliveredKeeps
      <4>3. clock' = c /\ socket' = <<>> /\ todo' = <<>>
        BY <2>1, <3>1, <4>1
      <4> QED
        BY <3>2, <3>4, <4>2, <4>3 DEF LiveInv
    <3> QED
      BY <3>3, <3>4
  <2>3. CASE CasterSends
    BY <2>1, <2>3, CasterSendsIsLive
  <2>4. CASE CasterCloses \/ Wake
    BY <2>1, <2>4, QuietSteps
  <2>5. CASE Connect
    BY <2>1, <2>5, ConnectIsLive
  <2>6. CASE \E r \in Replies : Handshake(r)
    BY <2>1, <2>6, HandshakeIsLive
  <2>7. CASE Drain
    BY <2>1, <2>7, DrainIsLive
  <2>8. CASE DrainEnds
    BY <2>1, <2>8, DrainEndsIsLive
  <2>9. CASE DrainFails \/ Break
    BY <2>1, <2>9, BreakIsLive
  <2>10. CASE Read
    BY <2>1, <2>10, ReadIsLive
  <2>11. CASE PutLine
    BY <2>1, <2>11, PutLineIsLive
  <2>12. CASE Take \/ Write \/ PlotFails
    BY <2>1, <2>12, ConsumerIsLive
  <2> QED
    BY <2>1, <2>2, <2>3, <2>4, <2>5, <2>6, <2>7, <2>8, <2>9, <2>10, <2>11, <2>12, LiveSteps
<1> QED
  BY <1>1, <1>2, TypeInvariant, PTL DEF Spec

\* ---- what is on its way

\* A part of a sequence.
LEMMA Part ==
  ASSUME NEW s \in Seq(Fragments), NEW a \in 1..Len(s), NEW z \in a..Len(s)
  PROVE  /\ SubSeq(s, a, z) \in Seq(Fragments) /\ Len(SubSeq(s, a, z)) = z - a + 1
         /\ \A i \in 1..(z - a + 1) : SubSeq(s, a, z)[i] = s[a + i - 1]
  OBVIOUS

\* A sentence that ends at place z of the stream was sent whole, and its end is
\* where the clock puts it.
LEMMA ComesWhole ==
  ASSUME TypeOK, NEW s \in Seq(Fragments), NEW m \in Nat, NEW b \in Nat, NEW e \in Nat,
         since <= b, b <= e, e <= clock, HasContent(s, m, b, e), b = since \/ (m = 0 /\ Closes(b - 1)),
         NEW z \in DOMAIN s, NumberTo(s, z) # 0
  PROVE  \E n \in SoundNumbers : /\ NumberTo(s, z) = n /\ z = m + (2 * n - b)
                                 /\ b <= 2 * n - 2 /\ 2 * n <= e /\ SentWhole(n)
<1>1. /\ Len(s) \in Nat /\ Len(s) = m + (e - b) /\ z \in Nat /\ z >= 1 /\ z <= Len(s)
      /\ \A k \in 1..m : s[k] \in HeaderFragments
      /\ \A k \in 1..(e - b) : s[m + k] = FragmentAt(b + k - 1)
      /\ since \in Nat /\ clock \in Nat /\ clock <= 2 * Len(Sentence) /\ Len(Sentence) \in Nat
  BY LiveTypes DEF HasContent
<1>2. PICK a \in 1..z : IsLine(s, a, z) /\ Sound(SubSeq(s, a, z))
  BY DEF NumberTo
<1>3. PICK x \in Seq(Fragments) : /\ x = SubSeq(s, a, z) /\ Len(x) = z - a + 1
                                  /\ \A i \in 1..(z - a + 1) : x[i] = s[a + i - 1]
  <2>1. a \in 1..Len(s) /\ z \in a..Len(s)
    BY <1>1
  <2> QED
    BY <2>1, Part
<1>4. PICK n \in SoundNumbers : x = Whole(n)
  <2>1. x # EndOfFiles /\ Sound(x)
    <3>1. Len(x) >= 1
      BY <1>1, <1>3
    <3>2. x # <<>>
      BY <3>1
    <3> QED
      BY <1>2, <1>3, <3>2 DEF EndOfFiles
  <2> QED
    BY <2>1, SoundNumber
<1>5. n \in Numbers /\ n \in Nat /\ n >= 1 /\ Sentence[n] # "unended"
  BY SoundIsEnded
<1>6. Len(x) = 2 /\ x[1] = <<n, 1>> /\ x[2] = <<n, 2>>
  BY <1>4 DEF Whole
<1>7. z = a + 1 /\ a >= 1 /\ a \in Nat /\ s[a] = <<n, 1>> /\ s[z] = <<n, 2>>
  <2>1. z = a + 1 /\ a >= 1 /\ a \in Nat
    <3>1. z \in Nat /\ a \in Nat /\ a >= 1
      BY <1>1
    <3>2. z - a + 1 = 2
      BY <1>3, <1>6
    <3> QED
      BY <3>1, <3>2
  <2>2. 1 \in 1..(z - a + 1) /\ 2 \in 1..(z - a + 1) /\ a + 1 - 1 = a /\ a + 2 - 1 = z
    BY <2>1
  <2>3. x[1] = s[a] /\ x[2] = s[z]
    BY <1>3, <2>2
  <2> QED
    BY <1>6, <2>1, <2>3
<1>8. NumberTo(s, z) = n
  <2>1. NumberTo(s, z) = s[z][1]
    BY <1>2 DEF NumberTo
  <2> QED
    BY <1>7, <2>1
<1>9. PICK k \in Nat : a = m + k /\ k >= 1 /\ k + 1 <= e - b
  <2>1. <<n, 1>> \notin HeaderFragments
    BY <1>5 DEF HeaderFragments
  <2>2. ~(a <= m)
    <3> SUFFICES ASSUME a <= m PROVE FALSE
      OBVIOUS
    <3>1. a \in 1..m
      BY <1>7
    <3> QED
      BY <1>1, <1>7, <2>1, <3>1
  <2>3. a - m \in Nat /\ a = m + (a - m) /\ a - m >= 1 /\ (a - m) + 1 <= e - b
    BY <1>1, <1>7, <2>2, SMTT(30)
  <2> QED
    BY <2>3
<1>10. b + k - 1 = 2 * n - 2
  <2>1. k \in 1..(e - b)
    BY <1>9
  <2>2. FragmentAt(b + k - 1) = <<n, 1>>
    BY <1>1, <1>7, <1>9, <2>1
  <2>3. b + k - 1 \in Nat /\ b + k - 1 < 2 * Len(Sentence)
    BY <1>1, <1>9
  <2> QED
    BY <1>5, <2>2, <2>3, HalfAt
<1>11. z = m + (2 * n - b) /\ b <= 2 * n - 2 /\ 2 * n <= e
  <2>1. n \in Nat /\ z \in Nat /\ z = m + k + 1 /\ k = 2 * n - 1 - b
    <3>1. z = m + k + 1
      BY <1>7, <1>9
    <3>2. n \in Nat /\ k = 2 * n - 1 - b
      BY <1>5, <1>10
    <3> QED
      BY <3>1, <3>2
  <2>2. k >= 1 /\ k + 1 <= e - b
    BY <1>9
  <2> QED
    BY <2>1, <2>2
<1>12. n = 1 \/ 2 * n - 2 = since \/ Sentence[n - 1] # "unended"
  <2> SUFFICES ASSUME n # 1, 2 * n - 2 # since PROVE Sentence[n - 1] # "unended"
    OBVIOUS
  <2>1. PICK p \in Nat : p = n - 1 /\ p \in Numbers /\ 2 * p - 1 = b + k - 2
    <3>1. n - 1 \in Nat /\ n - 1 \in Numbers /\ 2 * (n - 1) - 1 = b + k - 2
      BY <1>5, <1>10 DEF Numbers
    <3> QED
      BY <3>1
  <2>2. Closes(2 * p - 1)
    <3>1. CASE k = 1
      <4>1. b = 2 * n - 2 /\ b - 1 = 2 * p - 1
        BY <1>5, <1>10, <2>1, <3>1
      <4> QED
        BY <4>1
    <3>2. CASE k # 1
      <4>1. k - 1 \in 1..(e - b) /\ m + (k - 1) = a - 1 /\ b + (k - 1) - 1 = 2 * p - 1 /\ a > 1
        BY <1>9, <2>1, <3>2
      <4>2. EndsLine(s[a - 1])
        BY <1>2, <4>1 DEF IsLine
      <4>3. s[a - 1] = FragmentAt(2 * p - 1)
        BY <1>1, <4>1
      <4> QED
        BY <4>2, <4>3 DEF Closes
    <3> QED
      BY <3>1, <3>2
  <2> QED
    BY <2>1, <2>2, Halves
<1>13. SentWhole(n)
  <2>1. 2 * n - 2 >= since
    BY <1>1, <1>5, <1>11
  <2> QED
    BY <1>5, <1>12, <2>1 DEF SentWhole
<1> QED
  BY <1>8, <1>11, <1>13

\* A sound sentence that was sent whole since b ends where the clock puts it.
LEMMA WholeComes ==
  ASSUME TypeOK, NEW s \in Seq(Fragments), NEW m \in Nat, NEW b \in Nat, NEW e \in Nat,
         since <= b, b <= e, e <= clock, HasContent(s, m, b, e),
         NEW n \in SoundNumbers, b <= 2 * n - 2, 2 * n <= e, SentWhole(n)
  PROVE  \E z \in DOMAIN s : NumberTo(s, z) = n
<1>1. /\ Len(s) \in Nat /\ Len(s) = m + (e - b)
      /\ \A k \in 1..m : s[k] \in HeaderFragments
      /\ \A k \in 1..(e - b) : s[m + k] = FragmentAt(b + k - 1)
      /\ since \in Nat
  BY LiveTypes DEF HasContent
<1>2. n \in Numbers /\ n \in Nat /\ n >= 1 /\ Sentence[n] # "unended" /\ Sound(Whole(n))
  BY SoundIsEnded
<1>3. PICK k \in Nat : k = 2 * n - 1 - b /\ k >= 1 /\ k + 1 <= e - b
  <2>1. 2 * n - 1 - b \in Nat /\ 2 * n - 1 - b >= 1 /\ (2 * n - 1 - b) + 1 <= e - b
    BY <1>2
  <2> QED
    BY <2>1
<1>4. PICK a \in Nat, z \in Nat : a = m + k /\ z = a + 1
  OBVIOUS
<1>5. a \in 1..Len(s) /\ z \in a..Len(s) /\ z \in DOMAIN s /\ a \in 1..z /\ z - a + 1 = 2
  <2>1. a >= 1 /\ z <= Len(s) /\ a <= Len(s)
    <3>1. PICK l \in Nat : l = Len(s) /\ l = m + (e - b)
      BY <1>1
    <3>2. a >= 1 /\ z <= l /\ a <= l
      <4>1. a >= 1
        BY <1>3, <1>4
      <4>2. z <= l
        BY <1>3, <1>4, <3>1, SMTT(30)
      <4> QED
        BY <1>4, <4>1, <4>2
    <3> QED
      BY <3>1, <3>2
  <2> QED
    BY <1>1, <1>4, <2>1
<1>6. s[a] = <<n, 1>> /\ s[z] = <<n, 2>>
  <2>1. k \in 1..(e - b) /\ k + 1 \in 1..(e - b) /\ b + k - 1 = 2 * n - 2 /\ b + (k + 1) - 1 = 2 * n - 1
        /\ m + (k + 1) = z
    BY <1>2, <1>3, <1>4
  <2>2. s[a] = FragmentAt(2 * n - 2) /\ s[z] = FragmentAt(2 * n - 1)
    BY <1>1, <1>4, <2>1
  <2> QED
    BY <1>2, <2>2, Halves
<1>7. SubSeq(s, a, z) = Whole(n)
  <2>1. /\ SubSeq(s, a, z) \in Seq(Fragments) /\ Len(SubSeq(s, a, z)) = z - a + 1
        /\ \A i \in 1..(z - a + 1) : SubSeq(s, a, z)[i] = s[a + i - 1]
    BY <1>5, Part
  <2>2. PICK x \in Seq(Fragments) : /\ x = SubSeq(s, a, z) /\ Len(x) = 2
                                    /\ \A i \in 1..2 : x[i] = s[a + i - 1]
    BY <1>5, <2>1
  <2>3. x[1] = s[a] /\ x[2] = s[z]
    <3>1. a + 1 - 1 = a /\ a + 2 - 1 = z /\ 1 \in 1..2 /\ 2 \in 1..2
      BY <1>4
    <3> QED
      BY <2>2, <3>1
  <2>4. x = <<x[1], x[2]>>
    <3>1. \A y \in Seq(Fragments) : Len(y) = 2 => y = <<y[1], y[2]>>
      OBVIOUS
    <3> QED
      BY <2>2, <3>1
  <2> QED
    BY <1>6, <2>2, <2>3, <2>4 DEF Whole
<1>8. a > 1 => EndsLine(s[a - 1])
  <2> SUFFICES ASSUME a > 1 PROVE EndsLine(s[a - 1])
    OBVIOUS
  <2>1. CASE k = 1
    <3>1. a - 1 \in 1..m
      BY <1>4, <2>1
    <3>2. s[a - 1] \in HeaderFragments
      BY <1>1, <3>1
    <3> QED
      BY <3>2 DEF HeaderFragments, EndsLine
  <2>2. CASE k # 1
    <3>1. n # 1 /\ 2 * n - 2 # since
      BY <1>1, <1>2, <1>3, <2>2
    <3>2. Sentence[n - 1] # "unended"
      BY <3>1 DEF SentWhole
    <3>3. PICK p \in Nat : p = n - 1 /\ p \in Numbers
      <4>1. n - 1 \in Nat /\ n - 1 \in Numbers
        BY <1>2, <3>1 DEF Numbers
      <4> QED
        BY <4>1
    <3>4. Closes(2 * p - 1)
      BY <3>2, <3>3, Halves
    <3>5. k - 1 \in 1..(e - b) /\ m + (k - 1) = a - 1 /\ b + (k - 1) - 1 = 2 * p - 1
      BY <1>2, <1>3, <1>4, <2>2, <3>3
    <3>6. s[a - 1] = FragmentAt(2 * p - 1)
      BY <1>1, <3>5
    <3> QED
      BY <3>4, <3>6 DEF Closes
  <2> QED
    BY <2>1, <2>2
<1>9. IsLine(s, a, z)
  <2>1. \A i \in a..(z - 1) : i = a
    BY <1>4
  <2>2. EndsLine(s[z]) /\ ~EndsLine(s[a])
    BY <1>6 DEF EndsLine
  <2> QED
    BY <1>8, <2>1, <2>2 DEF IsLine
<1>10. NumberTo(s, z) = s[z][1]
  BY <1>2, <1>5, <1>7, <1>9 DEF NumberTo
<1> QED
  BY <1>5, <1>6, <1>10

\* What is on its way: the whole sentences since b, in their order.
LEMMA ComingIs ==
  ASSUME TypeOK, NEW m \in Nat, NEW b \in Nat, NEW e \in Nat, Carried(m, b, e)
  PROVE  /\ Coming \in Seq(Nat) /\ Ascends(Coming)
         /\ NumbersIn(Coming) = {n \in SoundNumbers : b <= 2 * n - 2 /\ 2 * n <= e /\ SentWhole(n)}
<1>1. PICK s \in Seq(Fragments) : s = Stream
  BY LiveTypes
<1>2. /\ since <= b /\ b <= e /\ e <= clock /\ HasContent(s, m, b, e)
      /\ (b = since \/ (m = 0 /\ Closes(b - 1)))
  BY <1>1 DEF Carried
<1>3. Coming = [z \in DOMAIN s |-> NumberTo(s, z)] /\ DOMAIN s = 1..Len(s) /\ Len(s) \in Nat
  BY <1>1 DEF Coming
<1>4. \A z \in DOMAIN s : NumberTo(s, z) # 0 =>
         \E n \in SoundNumbers : /\ NumberTo(s, z) = n /\ z = m + (2 * n - b)
                                 /\ b <= 2 * n - 2 /\ 2 * n <= e /\ SentWhole(n)
  BY <1>2, ComesWhole
<1>5. \A z \in DOMAIN s : NumberTo(s, z) \in Nat
  <2>1. \A n \in SoundNumbers : n \in Nat
    BY SoundIsEnded
  <2> QED
    BY <1>4, <2>1
<1>6. Coming \in Seq(Nat)
  <2>1. Coming \in [1..Len(s) -> Nat]
    BY <1>3, <1>5
  <2> QED
    BY <1>3, <2>1
<1>7. Ascends(Coming)
  <2> SUFFICES ASSUME NEW i \in DOMAIN Coming, NEW j \in DOMAIN Coming, i < j, Coming[i] # 0, Coming[j] # 0
               PROVE  Coming[i] < Coming[j]
    BY DEF Ascends
  <2>1. /\ i \in DOMAIN s /\ j \in DOMAIN s /\ Coming[i] = NumberTo(s, i) /\ Coming[j] = NumberTo(s, j)
    BY <1>3
  <2>2. PICK p \in SoundNumbers : Coming[i] = p /\ i = m + (2 * p - b)
    BY <1>4, <2>1
  <2>3. PICK q \in SoundNumbers : Coming[j] = q /\ j = m + (2 * q - b)
    BY <1>4, <2>1
  <2>4. p \in Nat /\ q \in Nat
    BY SoundIsEnded
  <2>5. p < q
    BY <2>2, <2>3, <2>4
  <2> QED
    BY <2>2, <2>3, <2>5
<1>8. ASSUME NEW n
      PROVE  n \in NumbersIn(Coming) <=> n \in SoundNumbers /\ b <= 2 * n - 2 /\ 2 * n <= e /\ SentWhole(n)
  <2>1. n \in NumbersIn(Coming) <=> n # 0 /\ \E z \in DOMAIN s : NumberTo(s, z) = n
    BY <1>3 DEF NumbersIn
  <2>2. ASSUME n \in SoundNumbers, b <= 2 * n - 2, 2 * n <= e, SentWhole(n)
        PROVE  n # 0 /\ \E z \in DOMAIN s : NumberTo(s, z) = n
    BY <1>2, <2>2, WholeComes, SoundIsEnded
  <2> QED
    BY <1>4, <2>1, <2>2
<1> QED
  BY <1>6, <1>7, <1>8

\* The live invariant says what the property says.
LEMMA DeliveredStream == TypeOK /\ LiveInv => StreamDelivered
<1> SUFFICES ASSUME TypeOK, LiveInv, Live, core = "running"
             PROVE  NumbersIn(Ahead \o Coming) = owed \cap SoundNumbers /\ Ascends(Ahead \o Coming)
  BY DEF StreamDelivered, Ahead
<1>1. Ahead \in Seq(Nat)
  BY AheadTypes
<1>2. \A c \in Seq(Nat) : /\ NumbersIn(Ahead \o c) = NumbersIn(Ahead) \cup NumbersIn(c)
                          /\ Ascends(Ahead \o c) <=> Ascends(Ahead) /\ Ascends(c)
                                   /\ \A x \in NumbersIn(Ahead), y \in NumbersIn(c) : x < y
  BY <1>1, JoinedNumbers
<1>3. PICK b \in Nat, e \in Nat :
         /\ Delivered(b, e) /\ Coming \in Seq(Nat) /\ Ascends(Coming)
         /\ NumbersIn(Coming) = {n \in SoundNumbers : b <= 2 * n - 2 /\ 2 * n <= e /\ SentWhole(n)}
  <2>1. CASE Streaming
    <3>1. PICK m \in Nat, b \in Nat, e \in Nat : Carried(m, b, e) /\ Delivered(b, e)
      BY <2>1 DEF LiveInv
    <3> QED
      BY <3>1, ComingIs
  <2>2. CASE ~Streaming
    <3>1. PICK c \in Nat : c = clock /\ Delivered(c, c)
      BY <2>2, LiveTypes DEF LiveInv
    <3>2. Coming = <<>>
      <4>1. Stream = <<>>
        BY <2>2 DEF Stream, Streaming
      <4> QED
        BY <4>1 DEF Coming
    <3>3. \A n \in SoundNumbers : ~(c <= 2 * n - 2 /\ 2 * n <= c)
      <4>1. \A n \in SoundNumbers : n \in Nat
        BY SoundIsEnded
      <4> QED
        BY <4>1
    <3>4. /\ Coming \in Seq(Nat) /\ Ascends(Coming)
          /\ NumbersIn(Coming) = {n \in SoundNumbers : c <= 2 * n - 2 /\ 2 * n <= c /\ SentWhole(n)}
      BY <3>2, <3>3, FewNumbers
    <3> QED
      BY <3>1, <3>4
  <2> QED
    BY <2>1, <2>2
<1>4. \A x \in NumbersIn(Ahead), y \in NumbersIn(Coming) : x < y
  <2> SUFFICES ASSUME NEW x \in NumbersIn(Ahead), NEW y \in NumbersIn(Coming) PROVE x < y
    OBVIOUS
  <2>1. x \in SoundNumbers /\ 2 * x <= b /\ y \in SoundNumbers /\ b <= 2 * y - 2
    BY <1>3 DEF Delivered
  <2>2. x \in Nat /\ y \in Nat
    BY <2>1, SoundIsEnded
  <2> QED
    BY <2>1, <2>2
<1>5. NumbersIn(Ahead) \cup NumbersIn(Coming) = owed \cap SoundNumbers
  BY <1>3 DEF Delivered
<1> QED
  BY <1>2, <1>3, <1>4, <1>5 DEF Delivered

\* Whatever the reads cut the stream into, the reconnections glue to it, the
\* handshake drains and the queue holds back: every sound sentence that the caster
\* sent whole, and that no broken connection took with it, is written once and in
\* order or is on its way; a replay that says it is complete has written every sound
\* line, the plot never shows what the database was not given, and the pauses are
\* those of the recording (TCPAdapter, DirectoryAdapter, RealTimeStrategy,
\* IngestionCore.consume).
THEOREM EverySentenceIsDelivered == Spec => []DeliveryInvariant
<1>1. TypeOK /\ LiveInv /\ ReplayInv /\ PlotBehindDatabase /\ PaceInv => DeliveryInvariant
  BY DeliveredStream, CompleteReplay DEF DeliveryInvariant, PaceInv
<1> QED
  BY <1>1, TypeInvariant, LiveInvariant, ReplayInvariant, PlotInvariant, PaceInvariant, PTL

=============================================================================
