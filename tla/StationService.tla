--------------------------- MODULE StationService ---------------------------
(***************************************************************************)
(* One station of the real-time monitor, from its source to its writers.   *)
(* The source is a caster behind an NTRIP handshake ("ntrip") or a plain   *)
(* socket ("raw"), read by a TCPAdapter (run_ingestor.py), or recorded     *)
(* files read by a DirectoryAdapter ("replay", replay_events.py).  Either  *)
(* feeds a bounded queue, which IngestionCore.consume empties into a       *)
(* CompositeOutputPort.  What the core makes of a sentence is IngestionCore*)
(*                                                                         *)
(* Sentence n is sent in two halves: fragments <<n, 1>> and <<n, 2>>, the  *)
(* second with the line's end, or <<n, 3>> when the line's end got lost.   *)
(* <<0, 2>> is a header line, <<0, 0>> the blank line after the headers.   *)
(***************************************************************************)
EXTENDS Integers, Sequences

CONSTANTS
    Sentence,    \* what sentence n is: a sequence of SentenceKinds
    Modes,       \* the sources to consider
    QueueSize,   \* maxsize of the queue
    ReadSize, BufferLimit, \* the 4096 of a read and MAX_BUFFER_SIZE, in fragments
    BackoffBase, BackoffMax,
    HeaderLimit, \* how many header lines are drained at most
    Gaps,        \* true time between two recorded lines, negative if they are swapped
    HalfDay, MaxPause, \* the strategy's 43200 and 60 seconds
    MaxFaults    \* bound on the faults of caster, plotter and files

SentenceKinds == {"velocity", "displacement", "incomplete", "badsum", "short", "other", "unended"}
Day == 2 * HalfDay

ASSUME SourceAssumption ==
    /\ Sentence \in Seq(SentenceKinds)
    /\ Modes \subseteq {"ntrip", "raw", "replay"}
ASSUME LimitAssumption ==
    /\ {QueueSize, ReadSize, BufferLimit, HeaderLimit} \subseteq Nat \ {0} /\ MaxFaults \in Nat
    /\ BackoffBase \in Nat \ {0} /\ BackoffMax \in Nat /\ BackoffBase <= BackoffMax
\* Two neighbouring lines of a recording are less than a day apart, and none is so far
\* out of place that its time of day looks like that of the next day.
ASSUME PaceAssumption ==
    /\ HalfDay \in Nat \ {0} /\ MaxPause \in 0..HalfDay
    /\ Gaps \subseteq (MaxPause - Day)..(Day - 1)

Fatal == {"SOURCETABLE", "401", "404"}
Accepting == {"ICY", "ICY with headers", "HTTP", "HTTP cut"}
Replies == Accepting \cup Fatal \cup {"503", "silence"}
Numbers == 1..Len(Sentence)

VARIABLES
    mode,
    conn,     \* the adapter: connecting, handshake, draining, open, sleeping, ended
    closed,   \* the caster has closed the connection
    socket,   \* fragments sent and not read
    buffer,   \* what was read and not yet put into the queue
    todo,     \* the recorded line that is not yet put into the queue
    queue,
    hand,     \* <<>>, or <<n, k>>: sentence n goes to writer k next
    core,     \* running, ended, cancelled
    written,  \* what each writer was given, in order
    clock,    \* fragments that the caster has made, or lines read from the files
    since,    \* history: clock when this connection began to stream
    owed,     \* history: the sentences sent whole, except those a reset took
    backoff,
    failures, \* history: pauses since the caster last accepted
    fatal,    \* history: the caster refused for good
    drained,  \* header lines drained
    faults,
    pace      \* [date, last] of RealTimeStrategy; history: [now, gap, pause]
net == <<conn, closed, socket, buffer, clock, since, owed, backoff, failures, fatal, drained>>
vars == <<mode, net, todo, queue, hand, core, written, faults, pace>>

Live == mode # "replay"
Writers == IF Live THEN <<"db">> ELSE <<"db", "plot">>

Init ==
    /\ mode \in Modes
    /\ conn = (IF Live THEN "connecting" ELSE "open")
    /\ closed = FALSE /\ socket = <<>> /\ buffer = <<>> /\ todo = <<>> /\ queue = <<>>
    /\ hand = <<>> /\ core = "running" /\ written = [w \in {"db", "plot"} |-> <<>>]
    /\ clock = 0 /\ since = 0 /\ owed = {}
    /\ backoff = BackoffBase /\ failures = 0 /\ fatal = FALSE /\ drained = 0 /\ faults = 0
    /\ pace = [date |-> 0, last |-> -1, now |-> 0, gap |-> 0, pause |-> 0]

\* ---- lines

EndsLine(f) == f[2] \in {0, 2}
\* Places s to e of a sequence of fragments are one line.
IsLine(fs, s, e) ==
    /\ EndsLine(fs[e]) /\ \A i \in s..(e - 1) : ~EndsLine(fs[i])
    /\ s > 1 => EndsLine(fs[s - 1])
HasLine(fs) == \E e \in DOMAIN fs : EndsLine(fs[e])
After(fs, e) == SubSeq(fs, e + 1, Len(fs))
Whole(n) == <<<<n, 1>>, <<n, 2>>>>
Blank == <<<<0, 0>>>>
EndOfFiles == <<>> \* the None that DirectoryAdapter puts last

\* What process_sentence and the parsers see in a line.  Halves of different
\* sentences do not match the checksum, a line without its first half does not
\* start with $G.
KindOf(line) ==
    IF line[1][2] # 1 THEN "other"
    ELSE IF line = Whole(line[1][1]) THEN Sentence[line[1][1]] ELSE "badsum"
\* The line is parsed and reaches the output port.
Sound(line) == KindOf(line) \in {"velocity", "displacement"}

\* ---- the caster

FragmentAt(c) == LET n == c \div 2 + 1
                 IN <<n, IF c % 2 = 0 THEN 1 ELSE IF Sentence[n] = "unended" THEN 3 ELSE 2>>
\* Sentence n went over this connection from its first half to its line's end.
SentWhole(n) ==
    /\ 2 * n - 2 >= since /\ Sentence[n] # "unended"
    /\ n = 1 \/ 2 * n - 2 = since \/ Sentence[n - 1] # "unended"

\* The receiver measures whether or not anybody is connected.
CasterSends ==
    /\ Live /\ clock < 2 * Len(Sentence)
    /\ clock' = clock + 1
    /\ IF conn \in {"draining", "open"} /\ ~closed
       THEN /\ socket' = Append(socket, FragmentAt(clock))
            /\ owed' = owed \cup {n \in Numbers : 2 * n = clock' /\ SentWhole(n)}
       ELSE UNCHANGED <<socket, owed>>
    /\ UNCHANGED <<mode, conn, closed, buffer, since, backoff, failures, fatal, drained,
                   todo, queue, hand, core, written, faults, pace>>

CasterCloses ==
    /\ Live /\ conn \in {"draining", "open"} /\ ~closed /\ faults < MaxFaults
    /\ closed' = TRUE /\ faults' = faults + 1
    /\ UNCHANGED <<mode, conn, socket, buffer, clock, since, owed, backoff, failures, fatal, drained,
                   todo, queue, hand, core, written, pace>>

\* ---- TCPAdapter.start

\* The history of what is owed forgets what a connection took with it.
Forgotten == {n \in owed : \A i \in DOMAIN socket : socket[i] # <<n, 2>>}
\* The connection is over: cleanup, then the pause.
Over(after) ==
    /\ conn' = after /\ closed' = FALSE /\ socket' = <<>> /\ owed' = Forgotten
    /\ UNCHANGED <<buffer, clock, since, backoff, failures, drained>>

\* Mutation: an accepted connection does not end the backing off.
StreamsBackedOff == conn' = "open" /\ buffer' = <<>> /\ failures' = 0 /\ UNCHANGED backoff
\* "connected": the backoff and the buffer start afresh.
Streams == conn' = "open" /\ buffer' = <<>> /\ backoff' = BackoffBase /\ failures' = 0

Connect ==
    /\ Live /\ conn = "connecting"
    /\ \/ /\ mode = "ntrip"
          /\ conn' = "handshake" /\ UNCHANGED <<buffer, backoff, failures, since, faults>>
       \/ /\ mode = "raw"
          /\ Streams /\ since' = clock /\ UNCHANGED faults
       \/ /\ faults < MaxFaults \* no route, refused, no such host
          /\ conn' = "sleeping" /\ faults' = faults + 1
          /\ UNCHANGED <<buffer, backoff, failures, since>>
    /\ UNCHANGED <<mode, closed, socket, clock, owed, fatal, drained, todo, queue, hand, core,
                   written, pace>>

\* "HTTP cut": the caster closes the connection within its headers.
Headers(reply) == CASE reply \in {"HTTP", "ICY with headers"} -> <<<<0, 2>>, <<0, 0>>>>
                    [] reply = "HTTP cut" -> <<<<0, 2>>>>
                    [] OTHER -> <<>>

\* Mutation: every accepting caster's header block is drained.
DrainsAlways(reply) == TRUE
\* "Only HTTP-style responses (NTRIP 2.0) carry a header block to drain."
Drains(reply) == reply \in {"HTTP", "HTTP cut"}
\* Mutation: every refusal is taken for a wrong configuration.
GivesUpAlways(reply) == TRUE
\* A refusal that retrying cannot mend.
GivesUp(reply) == reply \in Fatal

Handshake(reply) ==
    /\ conn = "handshake"
    /\ fatal' = (fatal \/ reply \in Fatal)
    /\ IF reply \in Accepting
       THEN /\ since' = clock /\ socket' = Headers(reply) /\ UNCHANGED <<owed, clock>>
            /\ IF reply = "HTTP cut" THEN closed' = TRUE /\ faults < MaxFaults /\ faults' = faults + 1
               ELSE UNCHANGED <<closed, faults>>
            /\ IF Drains(reply)
               THEN conn' = "draining" /\ drained' = 0 /\ UNCHANGED <<buffer, backoff, failures>>
               ELSE Streams /\ UNCHANGED drained
       ELSE /\ faults < MaxFaults /\ faults' = faults + 1
            /\ Over(IF GivesUp(reply) THEN "ended" ELSE "sleeping")
    /\ UNCHANGED <<mode, todo, queue, hand, core, written, pace>>

\* _drain_http_headers reads one line.
Drain ==
    /\ conn = "draining"
    /\ \E e \in DOMAIN socket :
       /\ IsLine(socket, 1, e) /\ socket' = After(socket, e)
       /\ drained' = drained + 1
       /\ IF SubSeq(socket, 1, e) = Blank \/ drained' = HeaderLimit THEN Streams
          ELSE UNCHANGED <<conn, buffer, backoff, failures>>
    /\ UNCHANGED <<mode, closed, clock, since, owed, fatal, todo, queue, hand, core, written, faults, pace>>

\* At the end of the stream readline returns nothing, which passes for the blank line.
DrainEnds ==
    /\ conn = "draining" /\ closed /\ ~HasLine(socket)
    /\ socket' = <<>> /\ Streams
    /\ UNCHANGED <<mode, closed, clock, since, owed, fatal, drained, todo, queue, hand, core, written, faults, pace>>

\* The connection is reset, or the handshake times out.
DrainFails ==
    /\ conn = "draining" /\ faults < MaxFaults /\ faults' = faults + 1
    /\ Over("sleeping")
    /\ UNCHANGED <<mode, fatal, todo, queue, hand, core, written, pace>>

TooLong(fs) == Len(fs) > BufferLimit

\* A read returns what has arrived.  A buffer that has grown too long breaks the
\* connection, lines and all.
ReadFrom(chunk) ==
    IF TooLong(buffer \o chunk) THEN Over("sleeping")
    ELSE /\ buffer' = buffer \o chunk
         /\ socket' = After(socket, Len(chunk))
         /\ UNCHANGED <<conn, closed, clock, since, owed, backoff, failures, drained>>

\* The next read waits until every line of the buffer is in the queue.
Read ==
    /\ Live /\ conn = "open" /\ ~HasLine(buffer)
    /\ \E k \in DOMAIN socket : k <= ReadSize /\ ReadFrom(SubSeq(socket, 1, k))
    /\ UNCHANGED <<mode, fatal, todo, queue, hand, core, written, faults, pace>>

\* A blank line is left out, another one waits for room in the queue.
PutLine ==
    /\ Live /\ conn = "open"
    /\ \E e \in DOMAIN buffer :
       /\ IsLine(buffer, 1, e) /\ buffer' = After(buffer, e)
       /\ \/ SubSeq(buffer, 1, e) = Blank /\ UNCHANGED queue
          \/ /\ SubSeq(buffer, 1, e) # Blank /\ Len(queue) < QueueSize
             /\ queue' = Append(queue, SubSeq(buffer, 1, e))
    /\ UNCHANGED <<mode, conn, closed, socket, clock, since, owed, backoff, failures, fatal, drained,
                   todo, hand, core, written, faults, pace>>

\* The stream is at its end, the watchdog bites, or the connection is reset.
Break ==
    /\ Live /\ conn = "open" /\ ~HasLine(buffer)
    /\ \/ closed /\ socket = <<>> /\ UNCHANGED faults
       \/ faults < MaxFaults /\ faults' = faults + 1
    /\ Over("sleeping")
    /\ UNCHANGED <<mode, fatal, todo, queue, hand, core, written, pace>>

Longer == IF backoff * 2 < BackoffMax THEN backoff * 2 ELSE BackoffMax

\* Any delay from BackoffBase to backoff; then the next one may be twice as long.
Wake ==
    /\ conn = "sleeping"
    /\ conn' = "connecting" /\ failures' = failures + 1
    /\ backoff' = Longer
    /\ UNCHANGED <<mode, closed, socket, buffer, clock, since, owed, fatal, drained,
                   todo, queue, hand, core, written, faults, pace>>

\* ---- DirectoryAdapter.start and RealTimeStrategy

TimeOfDay(t) == t % Day
\* "If time jumped back >12h, assume next day."
Rollover(last, dt) == last - dt > HalfDay

Paced(gap) ==
    LET time == pace.now + gap
        dt == pace.date * Day + TimeOfDay(time)
        over == pace.last # -1 /\ Rollover(pace.last, dt)
        stamp == IF over THEN dt + Day ELSE dt
        delta == stamp - pace.last
    IN [date |-> IF over THEN pace.date + 1 ELSE pace.date, last |-> stamp, now |-> time,
        gap |-> IF pace.last = -1 THEN 0 ELSE gap,
        pause |-> IF pace.last # -1 /\ 0 < delta /\ delta < MaxPause THEN delta ELSE 0]

\* The next line: the strategy waits, then the line is put.  "other" lines have
\* no time.
ReadLine ==
    /\ mode = "replay" /\ conn = "open" /\ todo = <<>> /\ clock < Len(Sentence)
    /\ clock' = clock + 1 /\ todo' = <<Whole(clock')>>
    /\ \/ Sentence[clock'] = "other" /\ UNCHANGED pace
       \/ Sentence[clock'] # "other" /\ \E g \in Gaps : pace.now + g >= 0 /\ pace' = Paced(g)
    /\ UNCHANGED <<mode, conn, closed, socket, buffer, since, owed, backoff, failures, fatal, drained,
                   queue, hand, core, written, faults>>

EndFiles ==
    /\ mode = "replay" /\ conn = "open" /\ todo = <<>> /\ clock = Len(Sentence)
    /\ conn' = "ended" /\ todo' = <<EndOfFiles>>
    /\ UNCHANGED <<mode, closed, socket, buffer, clock, since, owed, backoff, failures, fatal, drained,
                   queue, hand, core, written, faults, pace>>

\* A file that cannot be read or decoded: the task group cancels the consumer.
FileFails ==
    /\ mode = "replay" /\ conn = "open" /\ todo = <<>> /\ faults < MaxFaults
    /\ conn' = "ended" /\ core' = "cancelled" /\ hand' = <<>> /\ faults' = faults + 1
    /\ UNCHANGED <<mode, closed, socket, buffer, clock, since, owed, backoff, failures, fatal, drained,
                   todo, queue, written, pace>>

Put == /\ core # "cancelled" /\ todo # <<>> /\ Len(queue) < QueueSize
       /\ queue' = Append(queue, todo[1]) /\ todo' = Tail(todo)
       /\ UNCHANGED <<mode, net, hand, core, written, faults, pace>>

\* ---- IngestionCore.consume

Take ==
    /\ core = "running" /\ hand = <<>> /\ queue # <<>>
    /\ queue' = Tail(queue)
    /\ IF queue[1] = EndOfFiles THEN core' = "ended" /\ UNCHANGED hand
       ELSE UNCHANGED core /\ hand' = IF Sound(queue[1]) THEN <<queue[1][1][1], 1>> ELSE <<>>
    /\ UNCHANGED <<mode, net, todo, written, faults, pace>>

\* CompositeOutputPort hands the write to its writers in their order.
Served(k) == Writers[k]

Write ==
    /\ core = "running" /\ hand # <<>>
    /\ written' = [written EXCEPT ![Served(hand[2])] = Append(@, hand[1])]
    /\ hand' = IF hand[2] = Len(Writers) THEN <<>> ELSE <<hand[1], hand[2] + 1>>
    /\ UNCHANGED <<mode, net, todo, queue, core, faults, pace>>

\* A plotter that raises ends the sentence: process_sentence logs and goes on.
PlotFails ==
    /\ core = "running" /\ hand # <<>> /\ Served(hand[2]) = "plot"
    /\ Sentence[hand[1]] = "displacement" /\ faults < MaxFaults
    /\ hand' = <<>> /\ faults' = faults + 1
    /\ UNCHANGED <<mode, net, todo, queue, core, written, pace>>

\* The operator interrupts: both tasks are cancelled where they wait.
Cancel ==
    /\ core = "running" /\ faults < MaxFaults
    /\ core' = "cancelled" /\ hand' = <<>> /\ faults' = MaxFaults
    /\ conn' = "ended"
    /\ UNCHANGED <<mode, closed, socket, buffer, clock, since, owed, backoff, failures, fatal, drained,
                   todo, queue, written, pace>>

Environment == CasterSends \/ CasterCloses \/ FileFails \/ PlotFails \/ Cancel
Adapter == Connect \/ (\E r \in Replies : Handshake(r)) \/ Drain \/ DrainEnds \/ DrainFails \/ Read \/ PutLine
           \/ Break \/ Wake \/ ReadLine \/ EndFiles \/ Put
Consumer == Take \/ Write
Next == Environment \/ Adapter \/ Consumer

\* The event loop runs every task that can go on; the receiver goes on measuring.
Fairness == WF_vars(Adapter) /\ WF_vars(Consumer) /\ WF_vars(CasterSends)
Spec == Init /\ [][Next]_vars /\ Fairness

\* ---- properties

Fragments == Numbers \X {1, 2, 3} \cup {0} \X {0, 2}
TypeOK ==
    /\ mode \in Modes
    /\ conn \in {"connecting", "handshake", "draining", "open", "sleeping", "ended"}
    /\ closed \in BOOLEAN /\ fatal \in BOOLEAN
    /\ socket \in Seq(Fragments) /\ buffer \in Seq(Fragments) /\ Len(buffer) <= BufferLimit
    /\ todo \in Seq(Seq(Fragments)) /\ queue \in Seq(Seq(Fragments)) /\ Len(queue) <= QueueSize
    /\ hand = <<>> \/ hand \in Numbers \X DOMAIN Writers
    /\ core \in {"running", "ended", "cancelled"}
    /\ written \in [{"db", "plot"} -> Seq(Numbers)]
    /\ clock \in 0..(2 * Len(Sentence)) /\ since \in 0..clock /\ owed \subseteq Numbers
    /\ backoff \in BackoffBase..BackoffMax /\ failures \in Nat
    /\ drained \in Nat /\ faults \in 0..MaxFaults
    /\ pace \in [date : Nat, last : Nat \cup {-1}, now : Nat, gap : Int, pause : 0..MaxPause]

\* The number of a line, the numbers of some lines, and the number of the line that
\* ends at place e; an unsound line has the number 0.
NumberOf(line) == IF line # EndOfFiles /\ Sound(line) THEN line[1][1] ELSE 0
NumbersOf(lines) == [i \in DOMAIN lines |-> NumberOf(lines[i])]
NumberTo(fs, e) == IF \E s \in 1..e : IsLine(fs, s, e) /\ Sound(SubSeq(fs, s, e)) THEN fs[e][1] ELSE 0
NumbersIn(ns) == {ns[i] : i \in DOMAIN ns} \ {0}
Ascends(ns) == \A i, j \in DOMAIN ns : i < j /\ ns[i] # 0 /\ ns[j] # 0 => ns[i] < ns[j]

\* What was received or can still be received over this connection.
Stream == CASE conn = "open" -> buffer \o socket
            [] conn = "draining" -> socket
            [] OTHER -> <<>>
Handed == IF hand # <<>> /\ hand[2] = 1 THEN <<hand[1]>> ELSE <<>>
Coming == [e \in DOMAIN Stream |-> NumberTo(Stream, e)]
SoundNumbers == {n \in Numbers : Sound(Whole(n))}

\* Every sound sentence that the caster sent whole, and that no broken connection
\* took with it, is written once, in the order it was sent, or is on its way:
\* whatever the reads cut it into, the reconnections glue to it, the handshake
\* drains and the queue holds back (TCPAdapter.start, _perform_handshake).
StreamDelivered ==
    Live /\ core = "running" =>
        /\ NumbersIn(written["db"] \o Handed \o NumbersOf(queue) \o Coming) = owed \cap SoundNumbers
        /\ Ascends(written["db"] \o Handed \o NumbersOf(queue) \o Coming)

\* "Replay complete" is said only when every sound line of the files was written
\* to the database, in order (DirectoryAdapter.start, replay_events.run_async).
ReplayComplete ==
    mode = "replay" /\ core = "ended" =>
        NumbersIn(written["db"]) = SoundNumbers /\ Ascends(written["db"])

\* The plot never shows what the database was not given before it
\* (CompositeOutputPort: a failing plotter must not cost the row).
PlotBehindDatabase == NumbersIn(written["plot"]) \subseteq NumbersIn(written["db"])

\* The caster is not hammered: after a fatal refusal the adapter is done for good,
\* and otherwise the pause it may take has doubled with each failure in a row and
\* is the base again once the caster accepted (TCPAdapter.start).
Doubled == IF BackoffBase * 2 ^ failures < BackoffMax THEN BackoffBase * 2 ^ failures ELSE BackoffMax
CasterIsSpared == /\ fatal => conn = "ended"
                  /\ backoff = Doubled

\* A replay pauses before a line for exactly as long as passed between it and the
\* line before, if that is less than a minute, and not at all otherwise, over
\* midnight too (RealTimeStrategy.wait, _extract_datetime).
PaceIsReal == pace.pause = IF 0 < pace.gap /\ pace.gap < MaxPause THEN pace.gap ELSE 0

\* A station that pauses streams again once the caster accepts, unless it was
\* refused for good or stopped.
Reconnects == (conn = "sleeping") ~> (conn = "open" \/ fatal \/ core = "cancelled")

\* From the source to each writer nothing is lost, doubled, reordered or hurried.
DeliveryInvariant == TypeOK /\ StreamDelivered /\ ReplayComplete /\ PlotBehindDatabase /\ PaceIsReal
=============================================================================
