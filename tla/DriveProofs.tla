----------------------------- MODULE DriveProofs -----------------------------
(***************************************************************************)
(* Proofs about the drive scanner and its checkpoint, for every drive, all *)
(* batch sizes and depths, and any interrupts, kills, torn appends and     *)
(* input/output errors, in any number of scans and surveys.                *)
(*                                                                         *)
(* The state does not say which entries the present walk has dealt with.   *)
(* The invariants say that there is such a set: V, visited, and D, the     *)
(* directories and archives among them whose entries were listed.          *)
(***************************************************************************)
EXTENDS DriveScan, FiniteSetTheorems, SequenceTheorems, TLAPS

-----------------------------------------------------------------------------
(* The two recursive functions.  Both are monotone, and a tree gives them   *)
(* one value: the least set that is closed under their rule.                *)

\* An entry is in an archive when what it is in is an archive or in one.
LEMMA InArchiveIs ==
  ASSUME NEW e \in Entries
  PROVE  InArchive[e] <=> /\ Entry[e].parent # Root
                          /\ IsArchive(Entry[e].parent) \/ InArchive[Entry[e].parent]
<1> DEFINE Rule(x, S) == /\ Entry[x].parent # Root
                         /\ IsArchive(Entry[x].parent) \/ Entry[x].parent \in S
           Closed(S) == \A x \in Entries : Rule(x, S) => x \in S
           Least == {x \in Entries : \A S \in SUBSET Entries : Closed(S) => x \in S}
           f == [x \in Entries |-> IF x \in Least THEN TRUE ELSE FALSE]
<1>1. \A x \in Entries : Rule(x, Least) => x \in Least
  <2> SUFFICES ASSUME NEW x \in Entries, Rule(x, Least), NEW S \in SUBSET Entries, Closed(S)
               PROVE  x \in S
    OBVIOUS
  <2>1. Least \subseteq S
    OBVIOUS
  <2>2. Rule(x, S)
    BY <2>1
  <2> QED
    BY <2>2
<1>2. \A x \in Least : Rule(x, Least)
  <2> DEFINE R == {x \in Entries : Rule(x, Least)}
  <2>1. \A x \in Entries : Rule(x, R) => Rule(x, Least)
    <3>1. R \subseteq Least
      BY <1>1
    <3> HIDE DEF Least, R
    <3> QED
      BY <3>1
  <2>2. Closed(R)
    BY <2>1
  <2>3. Least \subseteq R
    BY <2>2
  <2> QED
    BY <2>3
<1>3. \A x \in Entries : Entry[x].parent # Root => Entry[x].parent \in Entries
  BY EntryAssumption DEF Attributes
<1> HIDE DEF Least
<1>4. f = [x \in Entries |-> LET p == Entry[x].parent IN p # Root /\ (IsArchive(p) \/ f[p])]
  <2> SUFFICES ASSUME NEW x \in Entries
               PROVE  (IF x \in Least THEN TRUE ELSE FALSE) = (Entry[x].parent # Root
                                        /\ (IsArchive(Entry[x].parent) \/ f[Entry[x].parent]))
    OBVIOUS
  <2>1. (x \in Least) <=> Rule(x, Least)
    BY <1>1, <1>2
  <2>2. CASE Entry[x].parent = Root
    BY <2>1, <2>2
  <2>3. CASE Entry[x].parent # Root
    <3>1. f[Entry[x].parent] \in BOOLEAN /\ (f[Entry[x].parent] <=> Entry[x].parent \in Least)
      BY <2>3, <1>3
    <3> HIDE DEF f
    <3>2. (x \in Least) <=> (Entry[x].parent # Root
                              /\ (IsArchive(Entry[x].parent) \/ f[Entry[x].parent]))
      BY <2>1, <2>3, <3>1
    <3> QED
      BY <3>2
  <2> QED
    BY <2>2, <2>3
<1>5. InArchive = [x \in Entries |-> LET p == Entry[x].parent
                                     IN p # Root /\ (IsArchive(p) \/ InArchive[p])]
  BY <1>4 DEF InArchive
<1> QED
  BY <1>5

\* An entry a scan with these options records is one it does not pass over, in
\* the directory that is scanned or in such a directory.
LEMMA ReachableIs ==
  ASSUME NEW e \in Entries
  PROVE  Reachable[e] <=>
           /\ "scan" \notin Entry[e].excluded /\ ~ShouldSkipPath(e)
           /\ \/ Entry[e].parent = Root
              \/ Entry[Entry[e].parent].type = "dir" /\ Reachable[Entry[e].parent]
<1> DEFINE Taken(x) == "scan" \notin Entry[x].excluded /\ ~ShouldSkipPath(x)
           Rule(x, S) == /\ Taken(x)
                         /\ \/ Entry[x].parent = Root
                            \/ Entry[Entry[x].parent].type = "dir" /\ Entry[x].parent \in S
           Closed(S) == \A x \in Entries : Rule(x, S) => x \in S
           Least == {x \in Entries : \A S \in SUBSET Entries : Closed(S) => x \in S}
           f == [x \in Entries |-> IF x \in Least THEN TRUE ELSE FALSE]
<1> HIDE DEF Taken
<1>1. \A x \in Entries : Rule(x, Least) => x \in Least
  <2> SUFFICES ASSUME NEW x \in Entries, Rule(x, Least), NEW S \in SUBSET Entries, Closed(S)
               PROVE  x \in S
    OBVIOUS
  <2>1. Least \subseteq S
    OBVIOUS
  <2>2. Rule(x, S)
    BY <2>1
  <2> QED
    BY <2>2
<1>2. \A x \in Least : Rule(x, Least)
  <2> DEFINE R == {x \in Entries : Rule(x, Least)}
  <2>1. \A x \in Entries : Rule(x, R) => Rule(x, Least)
    <3>1. R \subseteq Least
      BY <1>1
    <3> HIDE DEF Least, R
    <3> QED
      BY <3>1
  <2>2. Closed(R)
    BY <2>1
  <2>3. Least \subseteq R
    BY <2>2
  <2> QED
    BY <2>3
<1>3. \A x \in Entries : Entry[x].parent # Root => Entry[x].parent \in Entries
  BY EntryAssumption DEF Attributes
<1> HIDE DEF Least
<1>4. f = [x \in Entries |->
             /\ "scan" \notin Entry[x].excluded /\ ~ShouldSkipPath(x)
             /\ Entry[x].parent = Root \/ (Entry[Entry[x].parent].type = "dir"
                                           /\ f[Entry[x].parent])]
  <2> SUFFICES ASSUME NEW x \in Entries
               PROVE  (IF x \in Least THEN TRUE ELSE FALSE) =
                        (/\ "scan" \notin Entry[x].excluded /\ ~ShouldSkipPath(x)
                         /\ Entry[x].parent = Root \/ (Entry[Entry[x].parent].type = "dir"
                                                       /\ f[Entry[x].parent]))
    OBVIOUS
  <2>1. (x \in Least) <=> Rule(x, Least)
    BY <1>1, <1>2
  <2>2. CASE Entry[x].parent = Root
    BY <2>1, <2>2 DEF Taken
  <2>3. CASE Entry[x].parent # Root
    <3>1. f[Entry[x].parent] \in BOOLEAN /\ (f[Entry[x].parent] <=> Entry[x].parent \in Least)
      BY <2>3, <1>3
    <3> HIDE DEF f
    <3>2. (x \in Least) <=> (/\ "scan" \notin Entry[x].excluded /\ ~ShouldSkipPath(x)
                             /\ Entry[x].parent = Root \/ (Entry[Entry[x].parent].type = "dir"
                                                           /\ f[Entry[x].parent]))
      BY <2>1, <2>3, <3>1 DEF Taken
    <3> QED
      BY <3>2
  <2> QED
    BY <2>2, <2>3
<1>5. Reachable = [x \in Entries |->
             /\ "scan" \notin Entry[x].excluded /\ ~ShouldSkipPath(x)
             /\ Entry[x].parent = Root \/ (Entry[Entry[x].parent].type = "dir"
                                           /\ Reachable[Entry[x].parent])]
  BY <1>4 DEF Reachable
<1> QED
  BY <1>5

-----------------------------------------------------------------------------
(* Types.                                                                  *)

RunTypes == [command : Commands, named : BOOLEAN, resume : BOOLEAN, hidden : BOOLEAN,
             depth : Nat]
Frame == [dir : Entries \cup {Root}, left : SUBSET Entries]
Counters == [files : Nat, errors : Nat, skipped : Nat, excluded : Nat, links : Nat,
             gnss : Nat, corrupt : Nat, claimed : Nat, seen : Nat, extracted : Nat,
             dups : Nat]

DriveTypes ==
    /\ run \in RunTypes
    /\ walk \in Seq(Frame) /\ \A i \in 1 .. Len(walk) : walk[i].left \subseteq Children(walk[i].dir)
    /\ known \subseteq Entries /\ pending \in Seq(Entries)
    /\ saving \in BOOLEAN /\ (saving => pending # <<>>)
    /\ stats \in Counters
    /\ buffer \subseteq Entries /\ inodes \subseteq Nat
    /\ catalogue \in [Entries -> Nat] /\ output \in BOOLEAN
    /\ latest \subseteq dated /\ dated \subseteq Entries
    /\ orphaned \in BOOLEAN /\ strayed \in BOOLEAN
    /\ log \subseteq Entries /\ legacy \subseteq Entries
    /\ tail \in {"none", "torn"} \cup Entries
    /\ stops \in [Mishaps -> 0 .. MaxStops]

\* What DriveTypes says is what the runs check as the type invariant.
LEMMA TypesImplyTypeOK == DriveTypes => TypeOK
<1> SUFFICES ASSUME DriveTypes PROVE TypeOK
  OBVIOUS
<1>1. DOMAIN walk = 1 .. Len(walk) /\ DOMAIN pending = 1 .. Len(pending)
  BY DEF DriveTypes
<1>2. Elements(pending) \subseteq Entries
  BY <1>1 DEF DriveTypes, Elements
<1>3. DOMAIN stats = DOMAIN NoStats /\ \A f \in DOMAIN stats : stats[f] \in Nat
  <2>1. DOMAIN stats = {"files", "errors", "skipped", "excluded", "links", "gnss", "corrupt",
                        "claimed", "seen", "extracted", "dups"}
    BY DEF DriveTypes, Counters
  <2>2. DOMAIN NoStats = {"files", "errors", "skipped", "excluded", "links", "gnss", "corrupt",
                          "claimed", "seen", "extracted", "dups"}
    BY DEF NoStats
  <2> QED
    BY <2>1, <2>2 DEF DriveTypes, Counters
<1> QED
  BY <1>1, <1>2, <1>3 DEF DriveTypes, RunTypes, TypeOK

\* The stack after an entry was taken, after a directory was entered, and after
\* one was left.
LEMMA WithoutIs ==
  ASSUME walk \in Seq(Frame), walk # <<>>, NEW e
  PROVE  /\ Without(e) \in Seq(Frame) /\ Len(Without(e)) = Len(walk)
         /\ \A i \in 1 .. Len(walk) :
              /\ Without(e)[i].dir = walk[i].dir
              /\ Without(e)[i].left = IF i = Len(walk) THEN walk[i].left \ {e} ELSE walk[i].left
<1> DEFINE n == Len(walk)
           top == [walk[n] EXCEPT !.left = @ \ {e}]
<1>1. n \in Nat \ {0} /\ n \in DOMAIN walk /\ walk[n] \in Frame
  OBVIOUS
<1>2. top \in Frame /\ top.dir = walk[n].dir /\ top.left = walk[n].left \ {e}
  <2>1. PICK f : f = walk[n]
    OBVIOUS
  <2>2. f \in [dir : Entries \cup {Root}, left : SUBSET Entries]
    BY <1>1, <2>1 DEF Frame
  <2>3. [f EXCEPT !.left = @ \ {e}] \in [dir : Entries \cup {Root}, left : SUBSET Entries]
    BY <2>2
  <2>4. [f EXCEPT !.left = @ \ {e}].dir = f.dir /\ [f EXCEPT !.left = @ \ {e}].left = f.left \ {e}
    BY <2>2
  <2> QED
    BY <2>1, <2>3, <2>4 DEF Frame
<1>3. Without(e) = [walk EXCEPT ![n] = top]
  BY DEF Without
<1> HIDE DEF top
<1>4. [walk EXCEPT ![n] = top] \in Seq(Frame) /\ Len([walk EXCEPT ![n] = top]) = n
  BY <1>1, <1>2
<1>5. \A i \in 1 .. n : [walk EXCEPT ![n] = top][i] = IF i = n THEN top ELSE walk[i]
  BY <1>1
<1> QED
  BY <1>2, <1>3, <1>4, <1>5

\* Entering a directory puts it on the walk with all its entries left.
LEMMA EnteringIs ==
  ASSUME NEW w \in Seq(Frame), NEW d \in Entries \cup {Root}
  PROVE  /\ Entering(w, d) \in Seq(Frame) /\ Len(Entering(w, d)) = Len(w) + 1
         /\ \A i \in 1 .. Len(w) : Entering(w, d)[i] = w[i]
         /\ Entering(w, d)[Len(w) + 1].dir = d
         /\ Entering(w, d)[Len(w) + 1].left = Children(d)
<1>1. [dir |-> d, left |-> Children(d)] \in Frame
  BY DEF Frame, Children
<1> QED
  BY <1>1 DEF Entering

\* A walk begins with the directory that is scanned.
LEMMA StartIs ==
  /\ Entering(<<>>, Root) \in Seq(Frame) /\ Len(Entering(<<>>, Root)) = 1
  /\ Entering(<<>>, Root)[1].dir = Root /\ Entering(<<>>, Root)[1].left = Children(Root)
<1>1. <<>> \in Seq(Frame) /\ Len(<<>>) + 1 = 1
  OBVIOUS
<1>2. /\ Entering(<<>>, Root) \in Seq(Frame) /\ Len(Entering(<<>>, Root)) = Len(<<>>) + 1
      /\ Entering(<<>>, Root)[Len(<<>>) + 1].dir = Root
      /\ Entering(<<>>, Root)[Len(<<>>) + 1].left = Children(Root)
  BY <1>1, EnteringIs
<1> QED
  BY <1>1, <1>2, Zenon

\* A directory that is done leaves the walk, the ones above it stay.
LEMMA PoppedIs ==
  ASSUME walk \in Seq(Frame), walk # <<>>
  PROVE  LET p == SubSeq(walk, 1, Len(walk) - 1)
         IN /\ p \in Seq(Frame) /\ Len(p) = Len(walk) - 1
            /\ \A i \in 1 .. Len(p) : p[i] = walk[i]
<1> DEFINE n == Len(walk) - 1
<1>1. n \in Nat /\ n <= Len(walk)
  OBVIOUS
<1>2. \A i \in 1 .. n : walk[i] \in Frame
  BY <1>1
<1>3. /\ SubSeq(walk, 1, n) \in Seq(Frame)
      /\ Len(SubSeq(walk, 1, n)) = IF 1 <= n THEN n - 1 + 1 ELSE 0
      /\ \A i \in 1 .. n - 1 + 1 : SubSeq(walk, 1, n)[i] = walk[1 + i - 1]
  BY <1>1, <1>2, SubSeqProperties
<1> DEFINE p == SubSeq(walk, 1, n)
<1>4. /\ p \in Seq(Frame)
      /\ Len(p) = IF 1 <= n THEN n - 1 + 1 ELSE 0
      /\ \A i \in 1 .. n - 1 + 1 : p[i] = walk[1 + i - 1]
  BY <1>3, Zenon
<1> HIDE DEF p
<1> HIDE DEF n
<1>5. Len(p) = n
  BY <1>1, <1>4
<1>6. \A i \in 1 .. n : p[i] = walk[i]
  <2> TAKE i \in 1 .. n
  <2>1. i \in 1 .. n - 1 + 1 /\ 1 + i - 1 = i
    BY <1>1
  <2> QED
    BY <1>4, <2>1
<1> QED
  BY <1>4, <1>5, <1>6 DEF p, n

\* The directory that is being listed, and what is left of it.
LEMMA TopIsFrame ==
  ASSUME walk \in Seq(Frame), walk # <<>>
  PROVE  /\ Len(walk) \in 1 .. Len(walk) /\ Top \in Frame
         /\ Top.dir \in Entries \cup {Root} /\ Top.left \subseteq Entries
<1>1. Len(walk) \in 1 .. Len(walk) /\ walk[Len(walk)] \in Frame
  OBVIOUS
<1> QED
  BY <1>1 DEF Top, Frame

\* What is marked is typed.
LEMMA MarkIsTyped ==
  ASSUME DriveTypes, NEW e \in Entries, NEW n, MarkScanned(e, n)
  PROVE  /\ known' \subseteq Entries /\ pending' \in Seq(Entries)
         /\ saving' \in BOOLEAN /\ (saving' => pending' # <<>>)
<1>1. CASE ~run.resume
  BY <1>1 DEF DriveTypes, MarkScanned
<1>2. CASE run.resume
  <2>1. known' = known \cup {e} /\ pending' = Append(pending, e)
    BY <1>2 DEF MarkScanned
  <2>2. saving' \in BOOLEAN
    <3> DEFINE full == Len(pending') >= BatchSize
               due == Entry[e].type = "file" /\ n % SaveEvery = 0
    <3>1. saving' = (full \/ due)
      BY <1>2 DEF MarkScanned
    <3> HIDE DEF full, due
    <3> QED
      BY <3>1
  <2>3. pending' # <<>>
    BY <2>1 DEF DriveTypes
  <2> QED
    BY <2>1, <2>2, <2>3 DEF DriveTypes
<1> QED
  BY <1>1, <1>2

\* A mishap is counted once, and no other kind with it.
LEMMA MishapIsTyped ==
  ASSUME DriveTypes, NEW m \in Mishaps, Mishap(m)
  PROVE  /\ stops' \in [Mishaps -> 0 .. MaxStops] /\ stops'[m] = stops[m] + 1
         /\ \A k \in Mishaps \ {m} : stops'[k] = stops[k]
         /\ Total \in Nat /\ Total' = Total + 1
<1>1. \A k \in Mishaps : stops[k] \in Nat
  BY BoundAssumption DEF DriveTypes
<1>2. /\ "interrupt" \in Mishaps /\ "kill" \in Mishaps /\ "cut" \in Mishaps /\ "io" \in Mishaps
      /\ \A k \in Mishaps : k = "interrupt" \/ k = "kill" \/ k = "cut" \/ k = "io"
  BY DEF Mishaps
<1>3. stops[m] <= Total /\ Total \in Nat
  BY <1>1, <1>2 DEF Total
<1>4. stops[m] + 1 \in 0 .. MaxStops
  BY <1>1, <1>3, BoundAssumption DEF Mishap
<1>5. stops' = [stops EXCEPT ![m] = stops[m] + 1] /\ stops \in [Mishaps -> 0 .. MaxStops]
  BY DEF Mishap, DriveTypes
<1>6. /\ stops' \in [Mishaps -> 0 .. MaxStops] /\ stops'[m] = stops[m] + 1
      /\ \A k \in Mishaps \ {m} : stops'[k] = stops[k]
  BY <1>4, <1>5
<1>7. Total' = stops'["interrupt"] + stops'["kill"] + stops'["cut"] + stops'["io"]
  BY DEF Total
<1>8. \A k \in Mishaps : stops'[k] = IF k = m THEN stops[k] + 1 ELSE stops[k]
  BY <1>6
<1>9. Total' = Total + 1
  BY <1>1, <1>2, <1>7, <1>8 DEF Total
<1> QED
  BY <1>3, <1>6, <1>9

\* The end of a command leaves the declared types.
LEMMA EndIsTyped ==
  ASSUME DriveTypes, NEW how, Ended(how)
  PROVE  /\ run' \in RunTypes
         /\ run'.command = "idle"
         /\ known' = {} /\ pending' \in Seq(Entries) /\ buffer' = {} /\ stats' \in Counters
         /\ inodes' = {}
<1>1. NoStats \in Counters
  BY DEF NoStats, Counters
<1>2. /\ run' \in RunTypes
      /\ run'.command = "idle"
  <2>1. run \in RunTypes
        /\ "idle" \in Commands
    BY DEF DriveTypes, Commands
  <2>2. run' = [run EXCEPT !.command = "idle"]
    BY DEF Ended
  <2> QED
    BY <2>1, <2>2 DEF RunTypes
<1>3. pending' = <<>> /\ <<>> \in Seq(Entries)
  BY DEF Ended
<1> QED
  BY <1>1, <1>2, <1>3 DEF Ended

\* Every end of a run leaves the process idle.
LEMMA RunEnds ==
  ASSUME DriveTypes, Finish \/ Interrupt \/ Kill \/ KillInAppend
  PROVE  run'.command = "idle"
<1>1. Interrupt \/ Kill \/ KillInAppend => run'.command = "idle"
  BY EndIsTyped DEF Interrupt, Kill, KillInAppend
<1>2. Finish => run'.command = "idle"
  BY DEF Finish, DriveTypes, RunTypes
<1> QED
  BY <1>1, <1>2

\* Taking an entry off the stack, with or without entering it, and leaving a
\* directory leave a stack of frames.
LEMMA StackIsTyped ==
  ASSUME DriveTypes, walk # <<>>, NEW e \in Top.left
  PROVE  /\ e \in Entries /\ Entry[e].parent = Top.dir
         /\ Without(e) \in Seq(Frame)
         /\ \A i \in 1 .. Len(Without(e)) : Without(e)[i].left \subseteq Children(Without(e)[i].dir)
         /\ Entering(Without(e), e) \in Seq(Frame)
         /\ \A i \in 1 .. Len(Entering(Without(e), e)) :
              Entering(Without(e), e)[i].left \subseteq Children(Entering(Without(e), e)[i].dir)
<1>1. walk \in Seq(Frame) /\ Len(walk) \in 1 .. Len(walk)
  BY TopIsFrame DEF DriveTypes
<1>2. Top.left \subseteq Children(Top.dir)
  BY <1>1 DEF DriveTypes, Top
<1>3. e \in Entries /\ Entry[e].parent = Top.dir
  BY <1>2 DEF Children
<1>4. Without(e) \in Seq(Frame) /\ Len(Without(e)) = Len(walk)
  BY <1>1, WithoutIs
<1>5. \A i \in 1 .. Len(walk) : Without(e)[i].left \subseteq Children(Without(e)[i].dir)
  <2> TAKE i \in 1 .. Len(walk)
  <2>1. walk[i].left \subseteq Children(walk[i].dir)
    BY DEF DriveTypes
  <2>2. Without(e)[i].dir = walk[i].dir /\ Without(e)[i].left \subseteq walk[i].left
    BY <1>1, WithoutIs
  <2> QED
    BY <2>1, <2>2
<1> DEFINE w == Without(e)
<1> HIDE DEF w
<1>6. w \in Seq(Frame) /\ \A i \in 1 .. Len(w) : w[i].left \subseteq Children(w[i].dir)
  BY <1>4, <1>5 DEF w
<1>7. /\ Entering(w, e) \in Seq(Frame)
      /\ \A i \in 1 .. Len(Entering(w, e)) : Entering(w, e)[i].left \subseteq Children(Entering(w, e)[i].dir)
  <2>1. /\ Entering(w, e) \in Seq(Frame) /\ Len(Entering(w, e)) = Len(w) + 1
        /\ \A i \in 1 .. Len(w) : Entering(w, e)[i] = w[i]
        /\ Entering(w, e)[Len(w) + 1].dir = e
        /\ Entering(w, e)[Len(w) + 1].left = Children(e)
    BY <1>3, <1>6, EnteringIs
  <2>2. Len(w) \in Nat
    BY <1>6
  <2>3. \A i \in 1 .. Len(Entering(w, e)) : i \in 1 .. Len(w) \/ i = Len(w) + 1
    BY <2>1, <2>2
  <2> QED
    BY <1>6, <2>1, <2>3
<1> QED
  BY <1>3, <1>4, <1>5, <1>7 DEF w

-----------------------------------------------------------------------------
(* The checkpoint log.                                                     *)

\* The paths of a batch.
LEMMA ElementsAre ==
  ASSUME NEW s \in Seq(Entries)
  PROVE  /\ Elements(s) \subseteq Entries
         /\ \A i \in 1 .. Len(s) : s[i] \in Elements(s)
         /\ \A e \in Elements(s) : \E i \in 1 .. Len(s) : e = s[i]
         /\ Elements(<<>>) = {}
<1>1. DOMAIN s = 1 .. Len(s)
  OBVIOUS
<1>2. DOMAIN <<>> = {}
  OBVIOUS
<1>3. Elements(<<>>) = {}
  BY <1>2 DEF Elements
<1> QED
  BY <1>1, <1>3 DEF Elements

\* A path appended to a batch.
LEMMA ElementsOfAppend ==
  ASSUME NEW s \in Seq(Entries), NEW e \in Entries
  PROVE  Elements(Append(s, e)) = Elements(s) \cup {e}
<1>1. DOMAIN Append(s, e) = 1 .. Len(s) + 1 /\ DOMAIN s = 1 .. Len(s) /\ Len(s) \in Nat
  OBVIOUS
<1>2. Append(s, e)[Len(s) + 1] = e /\ \A i \in 1 .. Len(s) : Append(s, e)[i] = s[i]
  OBVIOUS
<1>3. \A i \in 1 .. Len(s) + 1 : i \in 1 .. Len(s) \/ i = Len(s) + 1
  BY <1>1
<1>4. 1 .. Len(s) \subseteq 1 .. Len(s) + 1 /\ Len(s) + 1 \in 1 .. Len(s) + 1
  BY <1>1
<1> HIDE DEF Elements
<1>5. Elements(Append(s, e)) = {Append(s, e)[i] : i \in 1 .. Len(s) + 1}
  BY <1>1 DEF Elements
<1>6. Elements(s) = {s[i] : i \in 1 .. Len(s)}
  BY <1>1 DEF Elements
<1> DEFINE t == Append(s, e)
<1> HIDE DEF t
<1>7. t[Len(s) + 1] = e /\ \A i \in 1 .. Len(s) : t[i] = s[i]
  BY <1>2 DEF t
<1>8. {t[i] : i \in 1 .. Len(s) + 1} = {s[i] : i \in 1 .. Len(s)} \cup {e}
  BY <1>3, <1>4, <1>7
<1> QED
  BY <1>5, <1>6, <1>8 DEF t

\* The first line is followed by the lines of the tail.
LEMMA ElementsOfTail ==
  ASSUME NEW s \in Seq(Entries), s # <<>>
  PROVE  /\ Tail(s) \in Seq(Entries) /\ Elements(Tail(s)) \subseteq Elements(s)
         /\ s[1] \in Entries /\ Elements(s) \subseteq Elements(Tail(s)) \cup {s[1]}
<1>1. /\ Tail(s) \in Seq(Entries) /\ Len(Tail(s)) = Len(s) - 1 /\ Len(s) \in Nat \ {0}
      /\ \A i \in 1 .. Len(Tail(s)) : Tail(s)[i] = s[i + 1]
  OBVIOUS
<1> DEFINE t == Tail(s)
<1> HIDE DEF t
<1>2. /\ t \in Seq(Entries) /\ Len(t) = Len(s) - 1
      /\ \A i \in 1 .. Len(t) : t[i] = s[i + 1]
  BY <1>1 DEF t
<1>3. \A i \in 1 .. Len(t) : i + 1 \in 1 .. Len(s)
  BY <1>1, <1>2
<1>4. Elements(t) \subseteq Elements(s)
  BY <1>2, <1>3, ElementsAre
<1>5. \A i \in 1 .. Len(s) : i = 1 \/ (i - 1 \in 1 .. Len(t) /\ s[i] = t[i - 1])
  <2> TAKE i \in 1 .. Len(s)
  <2>1. i # 1 => i - 1 \in 1 .. Len(t) /\ (i - 1) + 1 = i
    BY <1>1, <1>2
  <2> QED
    BY <1>2, <2>1
<1>6. Elements(s) \subseteq Elements(t) \cup {s[1]}
  BY <1>2, <1>5, ElementsAre
<1>7. s[1] \in Entries
  BY <1>1
<1> QED
  BY <1>2, <1>4, <1>6, <1>7 DEF t

\* What part of a batch an append that was cut may have written.
LEMMA ElementsOfPrefix ==
  ASSUME NEW s \in Seq(Entries), NEW k \in 1 .. Len(s)
  PROVE  /\ SubSeq(s, 1, k) \in Seq(Entries) /\ SubSeq(s, 1, k) # <<>>
         /\ Elements(SubSeq(s, 1, k)) \subseteq Elements(s)
<1>1. k \in Int /\ k >= 1 /\ \A i \in 1 .. k : s[i] \in Entries
  OBVIOUS
<1>2. /\ SubSeq(s, 1, k) \in Seq(Entries)
      /\ Len(SubSeq(s, 1, k)) = IF 1 <= k THEN k - 1 + 1 ELSE 0
      /\ \A i \in 1 .. k - 1 + 1 : SubSeq(s, 1, k)[i] = s[1 + i - 1]
  BY <1>1, SubSeqProperties
<1> DEFINE p == SubSeq(s, 1, k)
<1>3. /\ p \in Seq(Entries)
      /\ Len(p) = IF 1 <= k THEN k - 1 + 1 ELSE 0
      /\ \A i \in 1 .. k - 1 + 1 : p[i] = s[1 + i - 1]
  BY <1>2, Zenon
<1> HIDE DEF p
<1>4. Len(p) = k
  BY <1>1, <1>3
<1>5. \A i \in 1 .. k : i \in 1 .. Len(s) /\ p[i] = s[i]
  <2> TAKE i \in 1 .. k
  <2>1. i \in 1 .. k - 1 + 1 /\ 1 + i - 1 = i /\ i \in 1 .. Len(s)
    BY <1>1
  <2> QED
    BY <1>3, <2>1
<1>6. Elements(p) \subseteq Elements(s)
  BY <1>3, <1>4, <1>5, ElementsAre
<1>7. p # <<>>
  BY <1>1, <1>4
<1> QED
  BY <1>3, <1>6, <1>7 DEF p

\* An append adds lines and spoils at most the torn one and the one behind it.
LEMMA AppendedIs ==
  ASSUME NEW s \in Seq(Entries), s # <<>>, log \subseteq Entries
  PROVE  /\ Appended(s) \subseteq log \cup Elements(s)
         /\ Appended(s) \subseteq Entries
         /\ tail = "none" => Appended(s) = log \cup Elements(s)
         /\ log \cup Elements(s) \subseteq Appended(s) \cup {tail, s[1]}
<1>1. Elements(Tail(s)) \subseteq Elements(s) /\ Elements(s) \subseteq Elements(Tail(s)) \cup {s[1]}
  BY ElementsOfTail
<1>2. Elements(s) \subseteq Entries
  BY ElementsAre
<1> QED
  BY <1>1, <1>2 DEF Appended

\* An append that stops half-way leaves lines that were there or were being
\* appended; of those that were there it spoils at most the torn one.
LEMMA CutLogIs ==
  ASSUME DriveTypes, NEW s \in Seq(Entries), CutAppend(s)
  PROVE  /\ log' \subseteq log \cup Elements(s) /\ log' \subseteq Entries
         /\ log \subseteq log' \cup {tail} \cup Elements(s)
         /\ tail = "none" => log \subseteq log'
         /\ tail' \in {"none", "torn"} \cup Entries
<1>1. PICK k \in 0 .. Len(s) :
        \/ /\ log' = Appended(SubSeq(s, 1, k))
           /\ tail' = IF k = 0 THEN tail ELSE "none"
        \/ /\ k < Len(s)
           /\ log' = IF k = 0 THEN log \ {tail} ELSE Appended(SubSeq(s, 1, k))
           /\ tail' = "torn"
        \/ /\ k > 0 /\ s[k] \in Appended(SubSeq(s, 1, k)) \ Appended(SubSeq(s, 1, k - 1))
           /\ log' = Appended(SubSeq(s, 1, k))
           /\ tail' = s[k]
  BY DEF CutAppend
<1> DEFINE lines == Appended(SubSeq(s, 1, k))
<1>2. log \subseteq Entries /\ Elements(s) \subseteq Entries /\ "none" \notin Entries
  BY ElementsAre, EntryAssumption DEF DriveTypes
<1>3. /\ lines \subseteq log \cup Elements(s) /\ lines \subseteq Entries
      /\ log \subseteq lines \cup {tail} \cup Elements(s)
      /\ tail = "none" => log \subseteq lines
      /\ k = 0 => lines = log
  <2>1. CASE k = 0
    <3>1. SubSeq(s, 1, k) = <<>>
      BY <2>1
    <3>2. lines = log \cup Elements(<<>>)
      BY <3>1 DEF Appended
    <3> QED
      BY <1>2, <3>2, ElementsAre
  <2>2. CASE k # 0
    <3>1. k \in 1 .. Len(s)
      BY <2>2
    <3>2. /\ SubSeq(s, 1, k) \in Seq(Entries) /\ SubSeq(s, 1, k) # <<>>
          /\ Elements(SubSeq(s, 1, k)) \subseteq Elements(s)
      BY <3>1, ElementsOfPrefix
    <3> DEFINE p == SubSeq(s, 1, k)
    <3>3. p \in Seq(Entries) /\ p # <<>> /\ Elements(p) \subseteq Elements(s)
      BY <3>2
    <3> HIDE DEF p
    <3>4. /\ Appended(p) \subseteq log \cup Elements(p)
          /\ tail = "none" => Appended(p) = log \cup Elements(p)
          /\ log \subseteq Appended(p) \cup {tail} \cup Elements(p)
      <4>1. /\ Appended(p) \subseteq log \cup Elements(p)
            /\ tail = "none" => Appended(p) = log \cup Elements(p)
        BY <1>2, <3>3, AppendedIs
      <4>2. log \subseteq Appended(p) \cup {tail}
        BY <3>3 DEF Appended
      <4> QED
        BY <4>1, <4>2
    <3> QED
      BY <1>2, <2>2, <3>3, <3>4 DEF p
  <2> QED
    BY <2>1, <2>2
<1> HIDE DEF lines
<1>4. /\ log' = lines \/ (k = 0 /\ log' = log \ {tail})
      /\ \/ tail' = (IF k = 0 THEN tail ELSE "none") \/ tail' = "torn" \/ tail' \in lines
  BY <1>1 DEF lines
<1>5. tail \in {"none", "torn"} \cup Entries
  BY DEF DriveTypes
<1> QED
  BY <1>2, <1>3, <1>4, <1>5

\* The orders in which a set of paths may be appended are batches of these paths.
LEMMA OrdersAre ==
  ASSUME NEW S \in SUBSET Entries, NEW paths \in Orders(S)
  PROVE  paths \in Seq(Entries) /\ Elements(paths) = S /\ (S # {} => paths # <<>>)
<1>1. Cardinality(S) \in Nat
  BY EntryAssumption, FS_Subset, FS_CardinalityType
<1>2. paths \in [1 .. Cardinality(S) -> S] /\ Elements(paths) = S
  BY DEF Orders
<1>3. paths \in Seq(S)
  BY <1>1, <1>2
<1>4. paths \in Seq(Entries)
  BY <1>3
<1>5. Elements(<<>>) = {}
  BY <1>4, ElementsAre
<1> QED
  BY <1>2, <1>4, <1>5

\* A run that resumes moves an old checkpoint into the log: behind a torn tail its
\* first path and the tail are lost.  Another run leaves both alone.
LEMMA MigratedIs ==
  ASSUME DriveTypes, NEW resume \in BOOLEAN, Migrated(resume)
  PROVE  /\ log' \subseteq log \cup legacy /\ legacy' \subseteq legacy
         /\ resume => legacy' = {}
         /\ ~resume => log' = log /\ legacy' = legacy /\ tail' = tail
         /\ tail' = tail \/ tail' = "none"
         /\ legacy \subseteq log => log' = log /\ tail' = tail
         /\ resume /\ ~(legacy \subseteq log) =>
              /\ tail' = "none" /\ (tail = "none" => log' = log \cup legacy)
              /\ \E first : log \cup legacy \subseteq log' \cup {tail, first}
<1>1. CASE resume /\ ~(legacy \subseteq log)
  <2>1. PICK paths \in Orders(legacy \ log) : log' = Appended(paths)
    BY <1>1 DEF Migrated
  <2>2. legacy \ log \in SUBSET Entries /\ legacy \ log # {} /\ log \subseteq Entries
    BY <1>1 DEF DriveTypes
  <2>3. paths \in Seq(Entries) /\ Elements(paths) = legacy \ log /\ paths # <<>>
    BY <2>2, OrdersAre
  <2>4. /\ log' \subseteq log \cup Elements(paths)
        /\ tail = "none" => log' = log \cup Elements(paths)
        /\ log \cup Elements(paths) \subseteq log' \cup {tail, paths[1]}
    BY <2>1, <2>2, <2>3, AppendedIs
  <2>5. log \cup Elements(paths) = log \cup legacy
    BY <2>3
  <2>6. legacy' = {} /\ tail' = "none"
    BY <1>1 DEF Migrated
  <2> QED
    BY <1>1, <2>4, <2>5, <2>6
<1>2. CASE ~(resume /\ ~(legacy \subseteq log))
  BY <1>2 DEF Migrated
<1> QED
  BY <1>1, <1>2

\* If that append is cut the log holds no path that was in neither file.
LEMMA MigrationCutIs ==
  ASSUME DriveTypes, MigrationCut
  PROVE  /\ log' \subseteq log \cup legacy /\ log' \subseteq Entries
         /\ tail' \in {"none", "torn"} \cup Entries
<1>1. PICK paths \in Orders(legacy \ log) : CutAppend(paths)
  BY DEF MigrationCut
<1>2. legacy \ log \in SUBSET Entries
  BY DEF DriveTypes
<1>3. paths \in Seq(Entries) /\ Elements(paths) = legacy \ log
  BY <1>2, OrdersAre
<1> QED
  BY <1>1, <1>3, CutLogIs

\* The output files after records were written.
LEMMA WriteOutIs ==
  ASSUME DriveTypes, NEW S \in SUBSET Entries, WriteOut(S)
  PROVE  /\ catalogue' \in [Entries -> Nat] /\ latest' \subseteq dated' /\ dated' \subseteq Entries
         /\ dated \subseteq dated' /\ latest \subseteq latest'
         /\ \A x \in Entries : catalogue'[x] = catalogue[x]
                               + (IF run.named /\ x \in S THEN 1 ELSE 0)
         /\ ~run.named => S \subseteq latest' /\ catalogue' = catalogue
         /\ run.named => dated' = dated /\ latest' = latest
<1>1. /\ catalogue \in [Entries -> Nat] /\ latest \subseteq dated /\ dated \subseteq Entries
      /\ \A x \in Entries : catalogue[x] \in Nat
  BY DEF DriveTypes
<1>2. CASE run.named
  <2>1. /\ catalogue' = [x \in Entries |-> catalogue[x] + IF x \in S THEN 1 ELSE 0]
        /\ dated' = dated /\ latest' = latest
    BY <1>2 DEF WriteOut
  <2>2. \A x \in Entries : catalogue[x] + (IF x \in S THEN 1 ELSE 0) \in Nat
    BY <1>1
  <2> QED
    BY <1>1, <1>2, <2>1, <2>2
<1>3. CASE ~run.named
  <2>1. dated' = dated \cup S /\ latest' = latest \cup S /\ catalogue' = catalogue
    BY <1>3 DEF WriteOut
  <2> QED
    BY <1>1, <1>3, <2>1
<1> QED
  BY <1>2, <1>3

\* The output files after a file was processed, with one more record or without.
LEMMA FlushedIs ==
  ASSUME DriveTypes, NEW e \in Entries, Flushed(e)
  PROVE  /\ catalogue' \in [Entries -> Nat] /\ buffer' \subseteq Entries
         /\ latest' \subseteq dated' /\ dated' \subseteq Entries
<1>1. CASE run.command = "scan"
  <2>1. WriteOut(buffer \cup {e}) /\ buffer' = {} /\ buffer \cup {e} \in SUBSET Entries
    BY <1>1 DEF Flushed, DriveTypes
  <2> QED
    BY <2>1, WriteOutIs
<1>2. CASE run.command # "scan"
  BY <1>2 DEF Flushed, DriveTypes
<1> QED
  BY <1>1, <1>2

\* The counters stay counters.
LEMMA CountersAreTyped ==
  ASSUME DriveTypes
  PROVE  /\ [stats EXCEPT !.errors = @ + 1] \in Counters
         /\ [stats EXCEPT !.links = @ + 1] \in Counters
         /\ [stats EXCEPT !.skipped = @ + 1] \in Counters
         /\ [stats EXCEPT !.excluded = @ + 1] \in Counters
<1>1. stats \in Counters
  BY DEF DriveTypes
<1>2. [stats EXCEPT !.errors = @ + 1] \in Counters /\ [stats EXCEPT !.links = @ + 1] \in Counters
  BY <1>1 DEF Counters
<1>3. /\ [stats EXCEPT !.skipped = @ + 1] \in Counters
      /\ [stats EXCEPT !.excluded = @ + 1] \in Counters
  BY <1>1 DEF Counters
<1> QED
  BY <1>2, <1>3

\* What a file that is processed adds to the counters.
LEMMA CountedIs ==
  ASSUME DriveTypes, NEW e \in Entries
  PROVE  /\ Counted(e) \in Counters
         /\ Counted(e).errors = stats.errors /\ Counted(e).skipped = stats.skipped
         /\ Counted(e).excluded = stats.excluded
         /\ Counted(e).seen = stats.seen /\ Counted(e).extracted = stats.extracted
         /\ Counted(e).corrupt = stats.corrupt + IF IsCorrupt(e) THEN 1 ELSE 0
         /\ Counted(e).gnss = stats.gnss + IF IsGnss(e) THEN 1 ELSE 0
         /\ Counted(e).dups = stats.dups + IF IsHardlinkDup(e) THEN 1 ELSE 0
<1>0. stats \in Counters
  BY DEF DriveTypes
<1>1. Entry[e].size \in Nat
  BY EntryAssumption DEF Attributes
<1> DEFINE c == IF IsCorrupt(e) THEN 1 ELSE 0
           g == IF IsGnss(e) THEN 1 ELSE 0
           h == IF IsHardlinkDup(e) THEN 1 ELSE 0
<1>2. c \in Nat /\ g \in Nat /\ h \in Nat
  OBVIOUS
<1>3. Counted(e) = [stats EXCEPT !.files = @ + 1, !.claimed = @ + Entry[e].size,
                                 !.corrupt = @ + c, !.gnss = @ + g, !.dups = @ + h]
  BY DEF Counted
<1> HIDE DEF c, g, h
<1> DEFINE r1 == [stats EXCEPT !.files = @ + 1]
           r2 == [r1 EXCEPT !.claimed = @ + Entry[e].size]
           r3 == [r2 EXCEPT !.corrupt = @ + c]
           r4 == [r3 EXCEPT !.gnss = @ + g]
           r5 == [r4 EXCEPT !.dups = @ + h]
<1>4. /\ r1 \in Counters /\ r1.errors = stats.errors /\ r1.skipped = stats.skipped
      /\ r1.excluded = stats.excluded /\ r1.seen = stats.seen /\ r1.claimed = stats.claimed
      /\ r1.extracted = stats.extracted /\ r1.corrupt = stats.corrupt /\ r1.gnss = stats.gnss
      /\ r1.dups = stats.dups
  BY <1>0 DEF Counters
<1> HIDE DEF r1
<1>5. /\ r2 \in Counters /\ r2.errors = r1.errors /\ r2.skipped = r1.skipped
      /\ r2.excluded = r1.excluded /\ r2.seen = r1.seen
      /\ r2.extracted = r1.extracted /\ r2.corrupt = r1.corrupt /\ r2.gnss = r1.gnss
      /\ r2.dups = r1.dups
  BY <1>1, <1>4 DEF Counters
<1> HIDE DEF r2
<1>6. /\ r3 \in Counters /\ r3.errors = r2.errors /\ r3.skipped = r2.skipped
      /\ r3.excluded = r2.excluded /\ r3.seen = r2.seen
      /\ r3.extracted = r2.extracted /\ r3.corrupt = r2.corrupt + c /\ r3.gnss = r2.gnss
      /\ r3.dups = r2.dups
  BY <1>2, <1>5 DEF Counters
<1> HIDE DEF r3
<1>7. /\ r4 \in Counters /\ r4.errors = r3.errors /\ r4.skipped = r3.skipped
      /\ r4.excluded = r3.excluded /\ r4.seen = r3.seen
      /\ r4.extracted = r3.extracted /\ r4.corrupt = r3.corrupt /\ r4.gnss = r3.gnss + g
      /\ r4.dups = r3.dups
  BY <1>2, <1>6 DEF Counters
<1> HIDE DEF r4
<1>10. /\ r5 \in Counters /\ r5.errors = r4.errors /\ r5.skipped = r4.skipped
       /\ r5.excluded = r4.excluded /\ r5.seen = r4.seen
       /\ r5.extracted = r4.extracted /\ r5.corrupt = r4.corrupt /\ r5.gnss = r4.gnss
       /\ r5.dups = r4.dups + h
  BY <1>2, <1>7 DEF Counters
<1>8. Counted(e) = r5
  BY <1>1, <1>3, <1>4, <1>5, <1>6, <1>7 DEF r1, r2, r3, r4, Counters
<1> HIDE DEF r5
<1> QED
  BY <1>4, <1>5, <1>6, <1>7, <1>8, <1>10 DEF c, g, h

\* What an archive adds to them that is come to, and one that is opened.
LEMMA SeenIs ==
  ASSUME NEW r \in Counters, NEW d, d = [r EXCEPT !.seen = @ + 1]
  PROVE  /\ d \in Counters /\ d.seen = r.seen + 1 /\ d.extracted = r.extracted
         /\ d.errors = r.errors /\ d.skipped = r.skipped /\ d.excluded = r.excluded
         /\ d.corrupt = r.corrupt /\ d.gnss = r.gnss /\ d.dups = r.dups
  BY DEF Counters

LEMMA ExtractedIs ==
  ASSUME NEW r \in Counters, NEW d, d = [r EXCEPT !.extracted = @ + 1]
  PROVE  /\ d \in Counters /\ d.extracted = r.extracted + 1 /\ d.seen = r.seen
         /\ d.errors = r.errors /\ d.skipped = r.skipped /\ d.excluded = r.excluded
         /\ d.corrupt = r.corrupt /\ d.gnss = r.gnss /\ d.dups = r.dups
  BY DEF Counters

\* What processing a file does to the counters.
LEMMA ProcessCounts ==
  ASSUME DriveTypes, NEW e \in Entries, ProcessFile(e)
  PROVE  /\ stats' \in Counters
         /\ stats'.errors = stats.errors /\ stats'.skipped = stats.skipped
         /\ stats'.excluded = stats.excluded
         /\ stats'.corrupt = stats.corrupt + IF IsCorrupt(e) THEN 1 ELSE 0
         /\ stats'.gnss = stats.gnss + IF IsGnss(e) THEN 1 ELSE 0
         /\ stats'.dups = stats.dups + IF IsHardlinkDup(e) THEN 1 ELSE 0
         /\ stats'.seen = stats.seen + IF Opens(e) THEN 1 ELSE 0
         /\ stats'.extracted = stats.extracted + IF Opens(e) /\ Extracted(e) THEN 1 ELSE 0
<1> DEFINE c == Counted(e)
           d == [c EXCEPT !.seen = @ + 1]
           x == [c EXCEPT !.seen = @ + 1, !.extracted = @ + 1]
<1>1. /\ c \in Counters
      /\ c.errors = stats.errors /\ c.skipped = stats.skipped /\ c.excluded = stats.excluded
      /\ c.seen = stats.seen /\ c.extracted = stats.extracted
      /\ c.corrupt = stats.corrupt + IF IsCorrupt(e) THEN 1 ELSE 0
      /\ c.gnss = stats.gnss + IF IsGnss(e) THEN 1 ELSE 0
      /\ c.dups = stats.dups + IF IsHardlinkDup(e) THEN 1 ELSE 0
  BY CountedIs
<1>2. stats' = IF Opens(e) /\ Extracted(e) THEN x ELSE IF Opens(e) THEN d ELSE c
  BY DEF ProcessFile
<1>3. d = [c EXCEPT !.seen = @ + 1] /\ x = [c EXCEPT !.seen = @ + 1, !.extracted = @ + 1]
  OBVIOUS
<1>6. stats.seen \in Nat /\ stats.extracted \in Nat
  BY DEF DriveTypes, Counters
<1> HIDE DEF c, d, x
<1>4. /\ d \in Counters /\ d.seen = c.seen + 1 /\ d.extracted = c.extracted
      /\ d.errors = c.errors /\ d.skipped = c.skipped /\ d.excluded = c.excluded
      /\ d.corrupt = c.corrupt /\ d.gnss = c.gnss /\ d.dups = c.dups
  BY <1>1, <1>3, SeenIs
<1>9. x = [d EXCEPT !.extracted = @ + 1]
  BY <1>1, <1>3, <1>4 DEF Counters
<1>10. /\ x \in Counters /\ x.seen = d.seen /\ x.extracted = d.extracted + 1
       /\ x.errors = d.errors /\ x.skipped = d.skipped /\ x.excluded = d.excluded
       /\ x.corrupt = d.corrupt /\ x.gnss = d.gnss /\ x.dups = d.dups
  BY <1>4, <1>9, ExtractedIs
<1>5. CASE Opens(e) /\ Extracted(e)
  BY <1>1, <1>2, <1>4, <1>5, <1>10
<1>7. CASE Opens(e) /\ ~Extracted(e)
  BY <1>1, <1>2, <1>4, <1>6, <1>7
<1>8. CASE ~Opens(e)
  BY <1>1, <1>2, <1>6, <1>8
<1> QED
  BY <1>5, <1>7, <1>8

\* What a file that could not be recorded adds to the counters.
LEMMA FailureCounts ==
  ASSUME DriveTypes, NEW e \in Entries, NEW r, r = CountedFailure(e)
  PROVE  /\ r \in Counters
         /\ r.errors = stats.errors + 1 /\ r.dups = stats.dups + IF IsHardlinkDup(e) THEN 1 ELSE 0
         /\ r.skipped = stats.skipped /\ r.excluded = stats.excluded /\ r.corrupt = stats.corrupt
         /\ r.gnss = stats.gnss /\ r.seen = stats.seen /\ r.extracted = stats.extracted
<1> DEFINE q == [stats EXCEPT !.errors = @ + 1]
           h == IF IsHardlinkDup(e) THEN 1 ELSE 0
<1>1. stats \in Counters
  BY DEF DriveTypes
<1> HIDE DEF h
<1>2. /\ q \in Counters /\ q.errors = stats.errors + 1 /\ q.dups = stats.dups
      /\ q.skipped = stats.skipped /\ q.excluded = stats.excluded /\ q.corrupt = stats.corrupt
      /\ q.gnss = stats.gnss /\ q.seen = stats.seen /\ q.extracted = stats.extracted
  BY <1>1 DEF Counters
<1>3. r = [stats EXCEPT !.errors = @ + 1, !.dups = @ + h]
  BY DEF h, CountedFailure
<1>4. r = [q EXCEPT !.dups = @ + h]
  BY <1>1, <1>2, <1>3 DEF Counters
<1> HIDE DEF q
<1>6. h \in Nat
  BY DEF h
<1>5. /\ r \in Counters /\ r.errors = q.errors /\ r.dups = q.dups + h /\ r.skipped = q.skipped
      /\ r.excluded = q.excluded /\ r.corrupt = q.corrupt /\ r.gnss = q.gnss
      /\ r.seen = q.seen /\ r.extracted = q.extracted
  BY <1>2, <1>4, <1>6 DEF Counters
<1> QED
  BY <1>2, <1>5 DEF h

\* Initially every variable has its type.
LEMMA InitialTypes == Init => DriveTypes
<1> SUFFICES ASSUME Init PROVE DriveTypes
  OBVIOUS
<1>1. NoStats \in Counters
  BY DEF NoStats, Counters
<1>2. run \in RunTypes
  BY DEF Init, Commands, RunTypes
<1>3. /\ walk \in Seq(Frame) /\ pending \in Seq(Entries)
      /\ \A i \in 1 .. Len(walk) : walk[i].left \subseteq Children(walk[i].dir)
  BY DEF Init
<1>4. legacy \subseteq Entries
  BY LegacyAssumption DEF Init
<1>5. catalogue \in [Entries -> Nat] /\ stops \in [Mishaps -> 0 .. MaxStops]
  BY BoundAssumption DEF Init
<1>6. output \in BOOLEAN
  BY DEF Init
<1> QED
  BY <1>1, <1>2, <1>3, <1>4, <1>5, <1>6 DEF Init, DriveTypes

\* What a step of the walk leaves alone keeps its type.
LEMMA TypesAfterVisit ==
  ASSUME DriveTypes, Busy, NEW e \in Top.left, Visit(e)
  PROVE  DriveTypes'
<1>1. walk # <<>>
  BY DEF Busy
<1>2. /\ e \in Entries /\ Entry[e].parent = Top.dir
      /\ Without(e) \in Seq(Frame)
      /\ \A i \in 1 .. Len(Without(e)) : Without(e)[i].left \subseteq Children(Without(e)[i].dir)
      /\ Entering(Without(e), e) \in Seq(Frame)
      /\ \A i \in 1 .. Len(Entering(Without(e), e)) :
           Entering(Without(e), e)[i].left \subseteq Children(Entering(Without(e), e)[i].dir)
  BY <1>1, StackIsTyped
<1> DEFINE WalkTyped == /\ walk' \in Seq(Frame)
                        /\ \A i \in 1 .. Len(walk') : walk'[i].left \subseteq Children(walk'[i].dir)
<1>3. walk' = Without(e) \/ walk' = Entering(Without(e), e) => WalkTyped
  BY <1>2
<1> HIDE DEF WalkTyped
<1>4. CASE SkipScanned(e)
  BY <1>3, <1>4 DEF SkipScanned, DriveTypes, disk, files, history, WalkTyped
<1>5. CASE SkipEntry(e)
  <2>1. stats' \in Counters
    BY <1>5, CountersAreTyped DEF SkipEntry
  <2> QED
    BY <1>3, <1>5, <2>1 DEF SkipEntry, DriveTypes, disk, files, history, WalkTyped
<1>6. CASE RecordSymlink(e)
  <2>1. stats' \in Counters
    BY <1>6, CountersAreTyped DEF RecordSymlink
  <2>2. /\ known' \subseteq Entries /\ pending' \in Seq(Entries)
        /\ saving' \in BOOLEAN /\ (saving' => pending' # <<>>)
    BY <1>2, <1>6, MarkIsTyped DEF RecordSymlink
  <2>3. buffer' \subseteq Entries
    BY <1>2, <1>6 DEF RecordSymlink, DriveTypes
  <2> QED
    BY <1>3, <1>6, <2>1, <2>2, <2>3 DEF RecordSymlink, DriveTypes, disk, files, history, WalkTyped
<1>7. CASE EnterDirectory(e) \/ PassOver(e)
  <2>1. WalkTyped
    BY <1>3, <1>7 DEF EnterDirectory, PassOver
  <2>2. UNCHANGED <<run, known, pending, saving, stats, inodes, buffer, disk, stops, history>>
    BY <1>7 DEF EnterDirectory, PassOver
  <2> QED
    BY <2>1, <2>2 DEF DriveTypes, disk, files, history, WalkTyped
<1>10. CASE AccessFails(e)
  <2>1. stats' \in Counters /\ stops' \in [Mishaps -> 0 .. MaxStops]
    BY <1>10, MishapIsTyped, CountersAreTyped DEF AccessFails, Mishaps
  <2> QED
    BY <1>3, <1>10, <2>1 DEF AccessFails, DriveTypes, disk, files, history, WalkTyped
<1>8. CASE ProcessFile(e)
  <2>1. /\ catalogue' \in [Entries -> Nat] /\ buffer' \subseteq Entries
        /\ latest' \subseteq dated' /\ dated' \subseteq Entries
    BY <1>2, <1>8, FlushedIs DEF ProcessFile
  <2>2. inodes' \subseteq Nat
    BY <1>2, <1>8, EntryAssumption DEF ProcessFile, DriveTypes, Attributes
  <2>3. /\ WalkTyped /\ stats' \in Counters
        /\ known' \subseteq Entries /\ pending' \in Seq(Entries)
        /\ saving' \in BOOLEAN /\ (saving' => pending' # <<>>)
    <3>3. stats' \in Counters
      BY <1>2, <1>8, ProcessCounts
    <3>1. CASE Opens(e) /\ Extracted(e)
      BY <1>2, <1>3, <1>8, <3>1, <3>3 DEF ProcessFile, DriveTypes
    <3>2. CASE ~(Opens(e) /\ Extracted(e))
      <4>1. MarkScanned(e, stats.files + 1) /\ walk' = Without(e)
        BY <1>8, <3>2 DEF ProcessFile
      <4> QED
        BY <1>2, <1>3, <3>3, <4>1, MarkIsTyped
    <3> QED
      BY <3>1, <3>2
  <2> QED
    BY <1>8, <2>1, <2>2, <2>3 DEF ProcessFile, DriveTypes, history, WalkTyped
<1>9. CASE ProcessFileFails(e)
  <2>1. stats' \in Counters /\ stops' \in [Mishaps -> 0 .. MaxStops]
    BY <1>2, <1>9, MishapIsTyped, FailureCounts DEF ProcessFileFails, Mishaps
  <2>2. inodes' \subseteq Nat
    BY <1>2, <1>9, EntryAssumption DEF ProcessFileFails, DriveTypes, Attributes
  <2> QED
    BY <1>3, <1>9, <2>1, <2>2 DEF ProcessFileFails, DriveTypes, disk, files, history, WalkTyped
<1> QED
  BY <1>4, <1>5, <1>6, <1>7, <1>8, <1>9, <1>10 DEF Visit

\* No step breaks the types.
LEMMA TypesStep == DriveTypes /\ [Next]_vars => DriveTypes'
<1> SUFFICES ASSUME DriveTypes, [Next]_vars PROVE DriveTypes'
  OBVIOUS
<1>1. /\ NoStats \in Counters /\ <<>> \in Seq(Entries) /\ <<>> \in Seq(Frame)
      /\ Len(<<>>) = 0 /\ {"idle", "scan", "survey"} = Commands
  BY DEF NoStats, Counters, Commands
<1>2. /\ Entering(<<>>, Root) \in Seq(Frame)
      /\ \A i \in 1 .. Len(Entering(<<>>, Root)) :
           Entering(<<>>, Root)[i].left \subseteq Children(Entering(<<>>, Root)[i].dir)
  <2>1. \A i \in 1 .. 1 : i = 1
    OBVIOUS
  <2> QED
    BY <2>1, StartIs
<1>3. ASSUME NEW named \in BOOLEAN, NEW resume \in BOOLEAN, NEW force \in BOOLEAN,
             NEW hidden \in BOOLEAN, StartScan(named, resume, force, hidden)
      PROVE  DriveTypes'
  <2> DEFINE resuming == Loaded(resume) # {}
             refused == named /\ output /\ ~resuming /\ ~force
  <2>1. known' \subseteq Entries
    BY <1>3 DEF StartScan, Loaded, DriveTypes
  <2>2. log' \subseteq Entries /\ legacy' \subseteq Entries /\ tail' \in {"none", "torn"} \cup Entries
    BY <1>3, MigratedIs DEF StartScan, DriveTypes
  <2>3. run' \in RunTypes
    <3>1. [command |-> "scan", named |-> named, resume |-> resume, hidden |-> hidden,
           depth |-> MaxDepth] \in RunTypes
      BY <1>1, BoundAssumption DEF RunTypes
    <3>2. run \in RunTypes
      BY DEF DriveTypes
    <3> QED
      BY <1>3, <3>1, <3>2 DEF StartScan
  <2>4. walk' = <<>> \/ walk' = Entering(<<>>, Root)
    BY <1>3 DEF StartScan
  <2>5. catalogue' \in [Entries -> Nat]
    <3>1. catalogue' = catalogue \/ catalogue' = [e \in Entries |-> 0]
      BY <1>3 DEF StartScan
    <3> QED
      BY <3>1 DEF DriveTypes
  <2>6. orphaned' \in BOOLEAN /\ strayed' \in BOOLEAN /\ output' \in BOOLEAN
    <3> DEFINE beside == named /\ ~refused /\ ~resume /\ log \cup legacy # {}
               past == ~named /\ resume
    <3>1. orphaned' = (orphaned \/ beside) /\ strayed' = (strayed \/ past)
          /\ output' = (output \/ named)
      BY <1>3 DEF StartScan
    <3> HIDE DEF beside, past
    <3> QED
      BY <3>1
  <2>7. /\ pending' = <<>> /\ saving' = FALSE /\ buffer' = {} /\ stats' = NoStats /\ inodes' = {}
        /\ stops' = stops /\ dated' = dated /\ latest' = {}
    BY <1>3 DEF StartScan
  <2>8. walk' \in Seq(Frame) /\ \A i \in 1 .. Len(walk') : walk'[i].left \subseteq Children(walk'[i].dir)
    <3>1. CASE walk' = <<>>
      BY <1>1, <3>1
    <3>2. CASE walk' = Entering(<<>>, Root)
      BY <1>2, <3>2
    <3> QED
      BY <2>4, <3>1, <3>2
  <2> QED
    BY <1>1, <2>1, <2>2, <2>3, <2>5, <2>6, <2>7, <2>8 DEF DriveTypes
<1>4. ASSUME NEW hidden \in BOOLEAN, NEW extract \in BOOLEAN, StartSurvey(hidden, extract)
      PROVE  DriveTypes'
  <2>1. run' \in RunTypes
    BY <1>1, <1>4 DEF StartSurvey, RunTypes
  <2> QED
    BY <1>1, <1>2, <1>4, <2>1 DEF StartSurvey, DriveTypes, disk, files, history
<1>5. ASSUME Busy, NEW e \in Top.left, Visit(e)
      PROVE  DriveTypes'
  BY <1>5, TypesAfterVisit
<1>6. CASE LeaveDirectory
  <2>1. walk # <<>> /\ walk \in Seq(Frame)
    BY <1>6 DEF LeaveDirectory, Busy, DriveTypes
  <2>2. /\ walk' \in Seq(Frame) /\ Len(walk') = Len(walk) - 1
        /\ \A i \in 1 .. Len(walk') : walk'[i] = walk[i]
    BY <1>6, <2>1, PoppedIs DEF LeaveDirectory
  <2>3. \A i \in 1 .. Len(walk') : walk'[i].left \subseteq Children(walk'[i].dir)
    <3>1. \A i \in 1 .. Len(walk') : i \in 1 .. Len(walk)
      BY <2>1, <2>2
    <3> QED
      BY <2>2, <3>1 DEF DriveTypes
  <2>4. /\ known' \subseteq Entries /\ pending' \in Seq(Entries)
        /\ saving' \in BOOLEAN /\ (saving' => pending' # <<>>)
    <3>1. CASE Top.dir # Root /\ IsArchive(Top.dir) /\ run.command = "scan"
      <4>1. Top.dir \in Entries
        BY <2>1, <3>1, TopIsFrame
      <4> QED
        BY <1>6, <3>1, <4>1, MarkIsTyped DEF LeaveDirectory
    <3>2. CASE ~(Top.dir # Root /\ IsArchive(Top.dir) /\ run.command = "scan")
      BY <1>6, <3>2 DEF LeaveDirectory, DriveTypes
    <3> QED
      BY <3>1, <3>2
  <2> QED
    BY <1>6, <2>2, <2>3, <2>4 DEF LeaveDirectory, DriveTypes, disk, files, history
<1>7. CASE Save
  <2>1. log' \subseteq Entries
    BY <1>7, AppendedIs DEF Save, DriveTypes
  <2> QED
    BY <1>1, <1>7, <2>1 DEF Save, DriveTypes, files, history
<1>8. CASE SaveFails
  <2>1. stops' \in [Mishaps -> 0 .. MaxStops]
    BY <1>8, MishapIsTyped DEF SaveFails, Mishaps
  <2>4. log' \subseteq Entries /\ tail' \in {"none", "torn"} \cup Entries
    <3>1. UNCHANGED <<log, tail>> \/ CutAppend(pending)
      BY <1>8 DEF SaveFails
    <3> QED
      BY <3>1, CutLogIs DEF DriveTypes
  <2>2. CASE walk # <<>>
    <3>1. stats' \in Counters
      BY <1>8, <2>2, CountersAreTyped DEF SaveFails
    <3>2. /\ saving' = FALSE
          /\ UNCHANGED <<run, known, pending, inodes, buffer, walk, catalogue, output, dated,
                         latest, legacy, orphaned, strayed>>
      BY <1>8, <2>2 DEF SaveFails, files, history
    <3> QED
      BY <2>1, <2>4, <3>1, <3>2 DEF DriveTypes
  <2>3. CASE walk = <<>>
    <3>1. Ended("error")
      BY <1>8, <2>3 DEF SaveFails
    <3>2. /\ run' \in RunTypes /\ known' = {} /\ pending' \in Seq(Entries) /\ buffer' = {}
          /\ stats' \in Counters /\ inodes' = {}
      BY <3>1, EndIsTyped
    <3> QED
      BY <1>8, <2>1, <2>4, <3>2 DEF SaveFails, DriveTypes, files, history
  <2> QED
    BY <2>2, <2>3
<1>16. ASSUME WriteOut(buffer)
       PROVE  catalogue' \in [Entries -> Nat] /\ latest' \subseteq dated' /\ dated' \subseteq Entries
  BY <1>16, WriteOutIs DEF DriveTypes
<1>9. CASE FinalSave
  BY <1>9, <1>16 DEF FinalSave, DriveTypes, history
<1>10. CASE Finish
  <2>1. run' \in RunTypes
    <3>1. run \in RunTypes /\ run' = [run EXCEPT !.command = "idle"] /\ "idle" \in Commands
      BY <1>1, <1>10 DEF Finish, DriveTypes
    <3> QED
      BY <3>1 DEF RunTypes
  <2> QED
    BY <1>10, <1>16, <2>1 DEF Finish, DriveTypes, history
<1>11. ASSUME NEW how, NEW m \in Mishaps, Ended(how), Mishap(m), walk' = <<>>, saving' = FALSE,
              UNCHANGED files \/ (WriteOut(buffer) /\ output' = output), log' \subseteq Entries,
              tail' \in {"none", "torn"} \cup Entries, UNCHANGED <<legacy, history>>
       PROVE  DriveTypes'
  <2>1. /\ run' \in RunTypes /\ known' = {} /\ pending' \in Seq(Entries) /\ buffer' = {}
        /\ stats' \in Counters /\ inodes' = {}
    BY <1>11, EndIsTyped
  <2>2. stops' \in [Mishaps -> 0 .. MaxStops]
    BY <1>11, MishapIsTyped
  <2>3. walk' \in Seq(Frame) /\ \A i \in 1 .. Len(walk') : walk'[i].left \subseteq Children(walk'[i].dir)
    BY <1>1, <1>11
  <2>4. /\ catalogue' \in [Entries -> Nat] /\ latest' \subseteq dated' /\ dated' \subseteq Entries
        /\ output' \in BOOLEAN
    BY <1>11, <1>16 DEF DriveTypes, files
  <2> QED
    BY <1>11, <2>1, <2>2, <2>3, <2>4 DEF DriveTypes, history
<1>12. CASE Interrupt
  BY <1>11, <1>12 DEF Interrupt, Mishaps, DriveTypes
<1>13. CASE Kill
  BY <1>11, <1>13 DEF Kill, Mishaps, DriveTypes, disk
<1>14. CASE KillInAppend
  <2>1. log' \subseteq Entries /\ tail' \in {"none", "torn"} \cup Entries
    BY <1>14, CutLogIs DEF KillInAppend, DriveTypes
  <2> QED
    BY <1>11, <1>14, <2>1 DEF KillInAppend, Mishaps
<1>17. CASE MigrationCut
  <2>1. log' \subseteq Entries /\ tail' \in {"none", "torn"} \cup Entries
    BY <1>17, MigrationCutIs
  <2>2. stops' \in [Mishaps -> 0 .. MaxStops]
    BY <1>17, MishapIsTyped DEF MigrationCut, Mishaps
  <2> QED
    BY <1>17, <2>1, <2>2 DEF MigrationCut, DriveTypes, files, history
<1>15. CASE UNCHANGED vars
  BY <1>15 DEF vars, memory, disk, files, history, DriveTypes
<1> QED
  BY <1>3, <1>4, <1>5, <1>6, <1>7, <1>8, <1>9, <1>10, <1>12, <1>13, <1>14, <1>15, <1>17 DEF Next

-----------------------------------------------------------------------------
(* What is marked, and the control of a run.                               *)

\* The paths that the checkpoint, in memory or on disk, takes for scanned.
Marked == log \cup legacy \cup known \cup Elements(pending)

\* The mark of entry e is made in this step: of a symbolic link or of a file that
\* is not opened, or of an archive whose members are done.
Marks(e) ==
    /\ run.resume
    /\ \/ /\ Busy /\ e \in Top.left
          /\ RecordSymlink(e) \/ (ProcessFile(e) /\ ~(Opens(e) /\ Extracted(e)))
       \/ LeaveDirectory /\ e = Top.dir /\ e # Root /\ IsArchive(e) /\ run.command = "scan"

\* Marking an entry takes at most this one for scanned, and only for a run that resumes.
LEMMA MarkAdds ==
  ASSUME DriveTypes, NEW e \in Entries, NEW n, MarkScanned(e, n), UNCHANGED <<log, legacy>>
  PROVE  Marked' \subseteq Marked \/ (run.resume /\ Marked' \subseteq Marked \cup {e})
<1>1. CASE ~run.resume
  <2>1. UNCHANGED <<known, pending>>
    BY <1>1 DEF MarkScanned
  <2> QED
    BY <2>1 DEF Marked, Elements
<1>2. CASE run.resume
  <2>1. known' = known \cup {e} /\ pending' = Append(pending, e)
    BY <1>2 DEF MarkScanned
  <2>2. Elements(pending)' = Elements(Append(pending, e))
    BY <2>1 DEF Elements
  <2>3. Elements(pending)' = Elements(pending) \cup {e}
    BY <2>2, ElementsOfAppend DEF DriveTypes
  <2> QED
    BY <1>2, <2>1, <2>3 DEF Marked
<1> QED
  BY <1>1, <1>2

\* What leaves log, checkpoint and memory alone takes nothing for scanned.
LEMMA NothingMarked ==
  ASSUME UNCHANGED <<log, legacy, known, pending>>
  PROVE  Marked' = Marked
  BY DEF Marked, Elements

\* The end of a run takes nothing for scanned that was not in the log or the batch.
LEMMA MarksAtEnd ==
  ASSUME DriveTypes, known' = {}, pending' = <<>>, log' \subseteq log \cup Elements(pending),
         legacy' = legacy
  PROVE  Marked' \subseteq Marked
<1>1. Elements(pending)' = {}
  <2>1. Elements(pending)' = Elements(<<>>)
    BY DEF Elements
  <2> QED
    BY <2>1, ElementsAre DEF DriveTypes
<1> QED
  BY <1>1 DEF Marked

\* One entry is marked in a step, or none.
LEMMA MarkedStep ==
  ASSUME DriveTypes, [Next]_vars
  PROVE  \/ Marked' \subseteq Marked
         \/ \E e \in Entries : Marks(e) /\ Marked' \subseteq Marked \cup {e}
<1> DEFINE Goal == \/ Marked' \subseteq Marked
                   \/ \E e \in Entries : Marks(e) /\ Marked' \subseteq Marked \cup {e}
<1>1. ASSUME NEW named \in BOOLEAN, NEW resume \in BOOLEAN, NEW force \in BOOLEAN,
             NEW hidden \in BOOLEAN, StartScan(named, resume, force, hidden)
      PROVE  Marked' \subseteq Marked
  <2>1. known' \subseteq log \cup legacy /\ pending' = <<>> /\ Migrated(resume)
    BY <1>1 DEF StartScan, Loaded
  <2>2. log' \subseteq log \cup legacy /\ legacy' \subseteq legacy
    BY <2>1, MigratedIs
  <2>3. Elements(pending)' = {}
    <3>1. Elements(pending)' = Elements(<<>>)
      BY <2>1 DEF Elements
    <3> QED
      BY <3>1, ElementsAre DEF DriveTypes
  <2> QED
    BY <2>1, <2>2, <2>3 DEF Marked
<1>2. ASSUME NEW hidden \in BOOLEAN, NEW extract \in BOOLEAN, StartSurvey(hidden, extract)
      PROVE  Marked' \subseteq Marked
  BY <1>2, MarksAtEnd DEF StartSurvey, disk, files, history
<1>3. ASSUME Busy, NEW e \in Top.left, Visit(e)
      PROVE  Goal
  <2>1. e \in Entries
    BY <1>3, StackIsTyped DEF Busy
  <2>2. CASE RecordSymlink(e)
    <3>1. MarkScanned(e, stats.files) /\ UNCHANGED <<log, legacy>>
      BY <2>2 DEF RecordSymlink, disk, files, history
    <3> QED
      BY <1>3, <2>1, <2>2, <3>1, MarkAdds DEF Marks
  <2>3. CASE ProcessFile(e)
    <3>1. CASE Opens(e) /\ Extracted(e)
      BY <2>3, <3>1, NothingMarked DEF ProcessFile
    <3>2. CASE ~(Opens(e) /\ Extracted(e))
      <4>1. MarkScanned(e, stats.files + 1) /\ UNCHANGED <<log, legacy>>
        BY <2>3, <3>2 DEF ProcessFile
      <4> QED
        BY <1>3, <2>1, <2>3, <3>2, <4>1, MarkAdds DEF Marks
    <3> QED
      BY <3>1, <3>2
  <2>4. CASE SkipScanned(e) \/ SkipEntry(e) \/ EnterDirectory(e) \/ PassOver(e)
          \/ AccessFails(e) \/ ProcessFileFails(e)
    <3>1. UNCHANGED <<log, legacy, known, pending>>
      BY <2>4 DEF SkipScanned, SkipEntry, EnterDirectory, PassOver, AccessFails, ProcessFileFails, disk, files, history
    <3> QED
      BY <3>1, NothingMarked
  <2> QED
    BY <1>3, <2>2, <2>3, <2>4 DEF Visit
<1>4. CASE LeaveDirectory
  <2>1. CASE Top.dir # Root /\ IsArchive(Top.dir) /\ run.command = "scan"
    <3>1. Top.dir \in Entries
      BY <1>4, <2>1, TopIsFrame DEF LeaveDirectory, Busy, DriveTypes
    <3>2. MarkScanned(Top.dir, stats.files) /\ UNCHANGED <<log, legacy>>
      BY <1>4, <2>1 DEF LeaveDirectory, disk, files, history
    <3> QED
      BY <1>4, <2>1, <3>1, <3>2, MarkAdds DEF Marks
  <2>2. CASE ~(Top.dir # Root /\ IsArchive(Top.dir) /\ run.command = "scan")
    BY <1>4, <2>2, NothingMarked DEF LeaveDirectory, disk, files, history
  <2> QED
    BY <2>1, <2>2
<1>5. CASE Save
  <2>1. log' \subseteq log \cup Elements(pending)
    BY <1>5, AppendedIs DEF Save, DriveTypes
  <2>2. Elements(pending)' = {}
    <3>1. Elements(pending)' = Elements(<<>>)
      BY <1>5 DEF Save, Elements
    <3> QED
      BY <3>1, ElementsAre DEF DriveTypes
  <2> QED
    BY <1>5, <2>1, <2>2 DEF Save, Marked
<1>6. CASE SaveFails
  <2>1. log' \subseteq log \cup Elements(pending) /\ legacy' = legacy
    <3>1. log' = log \/ CutAppend(pending)
      BY <1>6 DEF SaveFails
    <3> QED
      BY <1>6, <3>1, CutLogIs DEF SaveFails, DriveTypes
  <2>2. CASE walk # <<>>
    <3>1. known' = known /\ Elements(pending)' = Elements(pending)
      BY <1>6, <2>2 DEF SaveFails, Elements
    <3> QED
      BY <2>1, <3>1 DEF Marked
  <2>3. CASE walk = <<>>
    BY <1>6, <2>1, <2>3, MarksAtEnd DEF SaveFails, Ended
  <2> QED
    BY <2>2, <2>3
<1>7. CASE FinalSave
  BY <1>7, NothingMarked DEF FinalSave
<1>8. CASE Finish
  <2>1. pending' = <<>>
    BY <1>8 DEF Finish
  <2> QED
    BY <1>8, <2>1, MarksAtEnd DEF Finish
<1>9. CASE Interrupt
  BY <1>9, MarksAtEnd DEF Interrupt, Ended
<1>10. CASE Kill
  BY <1>10, MarksAtEnd DEF Kill, Ended, disk, files, history
<1>11. CASE KillInAppend
  BY <1>11, CutLogIs, MarksAtEnd DEF KillInAppend, Ended, DriveTypes
<1>12. CASE MigrationCut
  <2>1. Elements(pending)' = Elements(pending) /\ known' = known /\ legacy' = legacy
    BY <1>12 DEF MigrationCut, Elements
  <2> QED
    BY <1>12, <2>1, MigrationCutIs DEF Marked
<1>13. CASE UNCHANGED vars
  BY <1>13, NothingMarked DEF vars, memory, disk, files, history
<1> QED
  BY <1>1, <1>2, <1>3, <1>4, <1>5, <1>6, <1>7, <1>8, <1>9, <1>10, <1>11, <1>12, <1>13 DEF Next

\* How a command, its options and its memory go together.
Control ==
    /\ run.command = "idle" => walk = <<>> /\ pending = <<>> /\ ~saving /\ buffer = {}
    /\ run.command # "idle" => outcome = "running"
    /\ run.command = "scan" => run.depth = MaxDepth
    /\ run.command # "scan" \/ ~run.resume => known = {} /\ pending = <<>>
    /\ run.command = "survey" => ~run.resume /\ ~run.named /\ buffer = {}
    /\ saving /\ walk = <<>> => buffer = {}
    /\ walk # <<>> => walk[1].dir = Root
    /\ legacy \subseteq LegacyPaths
    /\ run.command = "scan" /\ run.resume => legacy = {}
    /\ run.command = "scan" /\ run.resume /\ ~run.named => strayed
    /\ run.command = "scan" /\ run.named /\ ~run.resume /\ ~orphaned => log = {} /\ legacy = {}
    /\ ~run.resume => ~saving
    /\ tail # "none" => stops["cut"] >= 1

\* Directories are never marked: mark_scanned is called for files and links.
FilesAreMarked == \A e \in Marked : Entry[e].type # "dir"

\* No step marks a directory.
LEMMA FilesAreMarkedStep == DriveTypes /\ FilesAreMarked /\ [Next]_vars => FilesAreMarked'
<1> SUFFICES ASSUME DriveTypes, FilesAreMarked, [Next]_vars PROVE FilesAreMarked'
  OBVIOUS
<1>1. ASSUME NEW e \in Entries, Marks(e)
      PROVE  Entry[e].type # "dir"
  BY <1>1 DEF Marks, RecordSymlink, ProcessFile, IsArchive
<1> QED
  BY <1>1, MarkedStep DEF FilesAreMarked

\* Initially no run is under way, and no directory is marked.
LEMMA InitialControl == Init => Control /\ FilesAreMarked
<1> SUFFICES ASSUME Init PROVE Control /\ FilesAreMarked
  OBVIOUS
<1>1. Elements(pending) = {}
  BY InitialTypes, ElementsAre DEF Init, DriveTypes
<1> QED
  BY <1>1, LegacyAssumption DEF Init, Control, FilesAreMarked, Marked

\* The stack after an entry was taken or entered still begins with its root.
LEMMA StackAfterVisit ==
  ASSUME DriveTypes, Busy, NEW e \in Top.left, Visit(e)
  PROVE  walk' # <<>> /\ walk'[1].dir = walk[1].dir
<1>1. walk \in Seq(Frame) /\ walk # <<>> /\ Len(walk) \in Nat \ {0}
  BY DEF DriveTypes, Busy
<1>2. /\ Without(e) \in Seq(Frame) /\ Len(Without(e)) = Len(walk)
      /\ Without(e)[1].dir = walk[1].dir
  <2>1. 1 \in 1 .. Len(walk)
    BY <1>1
  <2> QED
    BY <1>1, <2>1, WithoutIs
<1>3. CASE walk' = Without(e)
  BY <1>1, <1>2, <1>3
<1>4. CASE walk' = Entering(Without(e), e)
  <2>1. e \in Entries
    BY <1>1, StackIsTyped
  <2> DEFINE w == Without(e)
  <2> HIDE DEF w
  <2>2. w \in Seq(Frame) /\ Len(w) \in Nat \ {0} /\ w[1].dir = walk[1].dir
    BY <1>1, <1>2 DEF w
  <2>3. /\ Entering(w, e) \in Seq(Frame) /\ Len(Entering(w, e)) = Len(w) + 1
        /\ \A i \in 1 .. Len(w) : Entering(w, e)[i] = w[i]
    BY <2>1, <2>2, EnteringIs
  <2>4. Entering(w, e) # <<>> /\ Entering(w, e)[1].dir = walk[1].dir
    BY <2>2, <2>3
  <2> QED
    BY <1>4, <2>4 DEF w
<1>5. walk' = Without(e) \/ walk' = Entering(Without(e), e)
  BY DEF Visit, SkipScanned, SkipEntry, RecordSymlink, EnterDirectory, PassOver, AccessFails, ProcessFile, ProcessFileFails
<1> QED
  BY <1>3, <1>4, <1>5

\* A step of the walk changes neither the command nor the log.
LEMMA VisitKeeps ==
  ASSUME NEW e, Visit(e)
  PROVE  UNCHANGED <<run, outcome, output, log, tail, legacy, orphaned, strayed>>
  BY DEF Visit, SkipScanned, SkipEntry, RecordSymlink, EnterDirectory, PassOver, AccessFails, ProcessFile,
         ProcessFileFails, disk, files, history

\* The memory of a command that marks nothing stays empty.
LEMMA VisitWithoutMarks ==
  ASSUME DriveTypes, Control, Busy, NEW e, Visit(e)
  PROVE  /\ run.command # "scan" \/ ~run.resume => known' = {} /\ pending' = <<>>
         /\ run.command = "survey" => buffer' = {}
         /\ ~run.resume => ~saving'
<1>1. /\ run.command # "scan" \/ ~run.resume => ~run.resume /\ known = {} /\ pending = <<>>
      /\ run.command = "survey" => run.command # "scan" /\ ~run.resume /\ buffer = {}
      /\ ~saving
  <2>1. run.command \in {"scan", "survey"} /\ ~saving
    BY DEF Busy, DriveTypes, RunTypes, Commands
  <2> QED
    BY <2>1 DEF Control
<1>2. CASE RecordSymlink(e)
  BY <1>1, <1>2 DEF RecordSymlink, MarkScanned
<1>3. CASE ProcessFile(e)
  <2>1. MarkScanned(e, stats.files + 1) \/ UNCHANGED <<known, pending, saving>>
    BY <1>3 DEF ProcessFile
  <2>2. run.command # "scan" => buffer' = buffer
    BY <1>3 DEF ProcessFile, Flushed
  <2>3. ~run.resume => UNCHANGED <<known, pending, saving>>
    BY <2>1 DEF MarkScanned
  <2> QED
    BY <1>1, <2>2, <2>3
<1>4. CASE SkipScanned(e) \/ SkipEntry(e) \/ EnterDirectory(e)
  BY <1>1, <1>4 DEF SkipScanned, SkipEntry, EnterDirectory
<1>5. CASE PassOver(e) \/ AccessFails(e) \/ ProcessFileFails(e)
  BY <1>1, <1>5 DEF PassOver, AccessFails, ProcessFileFails
<1> QED
  BY <1>2, <1>3, <1>4, <1>5 DEF Visit

\* A run keeps to the phases it has, in every step.
LEMMA ControlStep == DriveTypes /\ Control /\ [Next]_vars => Control'
<1> SUFFICES ASSUME DriveTypes, Control, [Next]_vars PROVE Control'
  OBVIOUS
<1>1. /\ run \in RunTypes /\ {"idle", "scan", "survey"} = Commands
      /\ stops["cut"] \in Nat /\ "cut" \in Mishaps /\ "io" \in Mishaps
      /\ "kill" \in Mishaps /\ "interrupt" \in Mishaps
  BY BoundAssumption DEF DriveTypes, Commands, Mishaps
<1>2. Entering(<<>>, Root)[1].dir = Root
  BY StartIs
<1>3. ASSUME NEW named \in BOOLEAN, NEW resume \in BOOLEAN, NEW force \in BOOLEAN,
             NEW hidden \in BOOLEAN, StartScan(named, resume, force, hidden)
      PROVE  Control'
  <2> DEFINE refused == named /\ output /\ ~(Loaded(resume) # {}) /\ ~force
  <2>1. /\ run.command = "idle" /\ known' = Loaded(resume) /\ pending' = <<>> /\ saving' = FALSE
        /\ buffer' = {} /\ Migrated(resume) /\ stops' = stops
        /\ outcome' = (IF refused THEN "refused" ELSE "running")
        /\ run' = IF refused THEN run
                  ELSE [command |-> "scan", named |-> named, resume |-> resume,
                       hidden |-> hidden, depth |-> MaxDepth]
        /\ walk' = (IF refused THEN <<>> ELSE Entering(<<>>, Root))
        /\ orphaned' = (orphaned \/ (named /\ ~refused /\ ~resume /\ log \cup legacy # {}))
        /\ strayed' = (strayed \/ (~named /\ resume))
    BY <1>3 DEF StartScan
  <2>2. legacy' \subseteq legacy /\ (resume => legacy' = {}) /\ (tail' # "none" => tail # "none")
        /\ (~resume => log' = log /\ legacy' = legacy)
    BY <2>1, MigratedIs
  <2>3. ~resume => known' = {}
    BY <2>1 DEF Loaded
  <2>4. CASE refused
    <3>1. known' = {} /\ run' = run /\ walk' = <<>> /\ run.command = "idle"
      BY <2>1, <2>4
    <3> QED
      BY <2>1, <2>2, <3>1 DEF Control
  <2>5. CASE ~refused
    <3>1. run' = [command |-> "scan", named |-> named, resume |-> resume,
                       hidden |-> hidden, depth |-> MaxDepth]
          /\ walk' = Entering(<<>>, Root) /\ outcome' = "running"
      BY <2>1, <2>5
    <3>2. named /\ ~resume /\ ~orphaned' => log' = {} /\ legacy' = {}
      BY <2>1, <2>2, <2>5
    <3> QED
      BY <1>2, <2>1, <2>2, <2>3, <3>1, <3>2 DEF Control
  <2> QED
    BY <2>4, <2>5
<1>4. ASSUME NEW hidden \in BOOLEAN, NEW extract \in BOOLEAN, StartSurvey(hidden, extract)
      PROVE  Control'
  BY <1>1, <1>2, <1>4 DEF StartSurvey, Control, disk, files, history
<1>5. ASSUME Busy, NEW e \in Top.left, Visit(e)
      PROVE  Control'
  <2>1. UNCHANGED <<run, outcome, output, log, tail, legacy, orphaned, strayed>>
    BY <1>5, VisitKeeps
  <2>2. walk' # <<>> /\ walk'[1].dir = walk[1].dir /\ walk # <<>> /\ run.command # "idle"
    BY <1>5, StackAfterVisit DEF Busy
  <2>3. /\ run.command # "scan" \/ ~run.resume => known' = {} /\ pending' = <<>>
        /\ run.command = "survey" => buffer' = {}
        /\ ~run.resume => ~saving'
    BY <1>5, VisitWithoutMarks
  <2>4. stops'["cut"] = stops["cut"]
    <3>1. UNCHANGED stops \/ Mishap("io")
      BY <1>5 DEF Visit, SkipScanned, SkipEntry, RecordSymlink, EnterDirectory, PassOver, AccessFails, ProcessFile,
                  ProcessFileFails
    <3> QED
      BY <1>1, <3>1, MishapIsTyped
  <2> QED
    BY <2>1, <2>2, <2>3, <2>4 DEF Control
<1>6. CASE LeaveDirectory
  <2>1. walk # <<>> /\ walk \in Seq(Frame) /\ run.command # "idle" /\ ~saving
    BY <1>6 DEF LeaveDirectory, Busy, DriveTypes
  <2>2. /\ walk' \in Seq(Frame) /\ Len(walk') = Len(walk) - 1
        /\ \A i \in 1 .. Len(walk') : walk'[i] = walk[i]
    BY <1>6, <2>1, PoppedIs DEF LeaveDirectory
  <2>3. walk' # <<>> => walk'[1].dir = walk[1].dir
    <3>1. walk' # <<>> => 1 \in 1 .. Len(walk')
      BY <2>2
    <3> QED
      BY <2>2, <3>1
  <2>4. UNCHANGED <<run, outcome, log, tail, legacy, orphaned, strayed, buffer, stops>>
    BY <1>6 DEF LeaveDirectory, disk, files, history
  <2>5. CASE Top.dir # Root /\ IsArchive(Top.dir) /\ run.command = "scan"
    <3>1. walk' # <<>>
      <4>1. walk[1].dir = Root
        BY <2>1 DEF Control
      <4>2. Len(walk) # 1
        BY <2>5, <4>1 DEF Top
      <4>3. Len(walk) \in Nat /\ Len(walk) # 0
        BY <2>1
      <4>4. Len(walk') # 0
        BY <2>2, <4>2, <4>3
      <4> QED
        BY <4>4
    <3>2. ~run.resume => UNCHANGED <<known, pending, saving>>
      BY <1>6, <2>5 DEF LeaveDirectory, MarkScanned
    <3> QED
      BY <2>1, <2>3, <2>4, <2>5, <3>1, <3>2 DEF Control
  <2>6. CASE ~(Top.dir # Root /\ IsArchive(Top.dir) /\ run.command = "scan")
    <3>1. UNCHANGED <<known, pending, saving>>
      BY <1>6, <2>6 DEF LeaveDirectory
    <3> QED
      BY <2>1, <2>3, <2>4, <3>1 DEF Control
  <2> QED
    BY <2>5, <2>6
<1>7. CASE Save
  <2>1. /\ tail' = "none" /\ pending' = <<>> /\ saving' = FALSE /\ run.resume
        /\ UNCHANGED <<run, walk, known, buffer, outcome, legacy, stops, orphaned, strayed>>
    BY <1>7 DEF Save, Control, history
  <2> QED
    BY <1>1, <1>7, <2>1 DEF Control
<1>8. CASE SaveFails
  <2>1. tail' # "none" => stops'["cut"] >= 1
    <3>1. CASE Mishap("io") /\ tail' = tail
      BY <1>1, <3>1, MishapIsTyped DEF Control
    <3>2. CASE Mishap("cut")
      <4>1. stops'["cut"] = stops["cut"] + 1
        BY <1>1, <3>2, MishapIsTyped
      <4> QED
        BY <1>1, <4>1
    <3> QED
      BY <1>8, <3>1, <3>2 DEF SaveFails
  <2>2. legacy' = legacy /\ history' = history /\ saving' = FALSE /\ walk' = walk /\ run.resume
        /\ (log = {} /\ ~run.resume => log' = {})
    BY <1>8 DEF SaveFails, Control
  <2>3. CASE walk # <<>>
    <3>1. UNCHANGED <<run, outcome, known, pending, buffer>>
      BY <1>8, <2>3 DEF SaveFails
    <3> QED
      BY <2>1, <2>2, <2>3, <3>1 DEF history, Control
  <2>4. CASE walk = <<>>
    <3>1. Ended("error") /\ run'.command = "idle"
      BY <1>8, <2>4, EndIsTyped DEF SaveFails
    <3> QED
      BY <2>1, <2>2, <2>4, <3>1 DEF history, Control, Ended
  <2> QED
    BY <2>3, <2>4
<1>9. CASE FinalSave
  BY <1>9 DEF FinalSave, Control, DriveTypes, history
<1>10. CASE Finish
  <2>1. run'.command = "idle"
    BY <1>1, <1>10 DEF Finish
  <2> QED
    BY <1>10, <2>1 DEF Finish, Control
<1>11. ASSUME NEW how, NEW m \in Mishaps, Ended(how), Mishap(m), walk' = <<>>, saving' = FALSE,
              legacy' = legacy, history' = history, tail' = tail \/ m = "cut"
       PROVE  Control'
  <2>1. /\ run'.command = "idle" /\ known' = {} /\ pending' = <<>> /\ buffer' = {}
    BY <1>11, EndIsTyped DEF Ended
  <2>2. tail' # "none" => stops'["cut"] >= 1
    <3>1. m = "cut" => stops'["cut"] = stops["cut"] + 1
      BY <1>11, MishapIsTyped
    <3>2. m # "cut" => stops'["cut"] = stops["cut"]
      BY <1>1, <1>11, MishapIsTyped
    <3> QED
      BY <1>1, <1>11, <3>1, <3>2 DEF Control
  <2> QED
    BY <1>11, <2>1, <2>2 DEF Control, history
<1>12. CASE Interrupt
  BY <1>1, <1>11, <1>12 DEF Interrupt
<1>13. CASE Kill
  BY <1>1, <1>11, <1>13 DEF Kill, disk, files, history
<1>14. CASE KillInAppend
  BY <1>1, <1>11, <1>14 DEF KillInAppend
<1>15. CASE MigrationCut
  <2>1. stops'["cut"] = stops["cut"] + 1
    BY <1>1, <1>15, MishapIsTyped DEF MigrationCut
  <2> QED
    BY <1>1, <1>15, <2>1 DEF MigrationCut, Control
<1>16. CASE UNCHANGED vars
  BY <1>16 DEF vars, memory, disk, files, history, Control
<1> QED
  BY <1>3, <1>4, <1>5, <1>6, <1>7, <1>8, <1>9, <1>10, <1>12, <1>13, <1>14, <1>15, <1>16 DEF Next

-----------------------------------------------------------------------------
(* What a torn line can swallow.                                           *)

\* Paths that memory takes for scanned and that neither wait nor are in the log.
Lost == {e \in known : e \notin log /\ e \notin Elements(pending)}

\* An append that stops half-way costs two paths at most: the one on the line it
\* leaves torn, and the first that a later append puts behind it.
AtRisk ==
    run.command = "scan" /\ run.resume =>
        Cardinality(Lost) + (IF tail = "none" THEN 0 ELSE 2) <= 2 * stops["cut"]

\* The lost paths are finitely many, and two more paths add at most two.
LEMMA LostIsFinite ==
  ASSUME DriveTypes
  PROVE  IsFiniteSet(Lost) /\ Cardinality(Lost) \in Nat
<1>1. Lost \subseteq Entries
  BY DEF Lost, DriveTypes
<1> QED
  BY <1>1, EntryAssumption, FS_Subset, FS_CardinalityType

LEMMA OneMore ==
  ASSUME NEW T, IsFiniteSet(T), NEW S, NEW a, S \subseteq T \cup {a}
  PROVE  Cardinality(S) <= Cardinality(T) + 1
         /\ Cardinality(S) \in Nat /\ Cardinality(T) \in Nat
<1>1. /\ IsFiniteSet(T \cup {a}) /\ Cardinality(T) \in Nat
      /\ Cardinality(T \cup {a}) = IF a \in T THEN Cardinality(T) ELSE Cardinality(T) + 1
  BY FS_AddElement, FS_CardinalityType
<1>2. Cardinality(S) <= Cardinality(T \cup {a}) /\ IsFiniteSet(S)
  BY <1>1, FS_Subset
<1>3. Cardinality(S) \in Nat
  BY <1>2, FS_CardinalityType
<1> QED
  BY <1>1, <1>2, <1>3

LEMMA TwoMore ==
  ASSUME NEW T, IsFiniteSet(T), NEW S, NEW a, NEW b, S \subseteq T \cup {a, b}
  PROVE  Cardinality(S) <= Cardinality(T) + 2
         /\ Cardinality(S) \in Nat /\ Cardinality(T) \in Nat
<1>1. IsFiniteSet(T \cup {a})
  BY FS_AddElement
<1>2. Cardinality(T \cup {a}) <= Cardinality(T) + 1 /\ Cardinality(T) \in Nat
  BY OneMore
<1>3. S \subseteq (T \cup {a}) \cup {b}
  OBVIOUS
<1>4. Cardinality(S) <= Cardinality(T \cup {a}) + 1
      /\ Cardinality(S) \in Nat /\ Cardinality(T \cup {a}) \in Nat
  BY <1>1, <1>3, OneMore
<1> QED
  BY <1>2, <1>4

\* Marking an entry loses no path.
LEMMA LostAfterMark ==
  ASSUME DriveTypes, NEW e \in Entries, NEW n, MarkScanned(e, n), log' = log
  PROVE  Lost' \subseteq Lost
<1>1. CASE ~run.resume
  BY <1>1 DEF MarkScanned, Lost, Elements
<1>2. CASE run.resume
  <2>1. known' = known \cup {e} /\ pending' = Append(pending, e)
    BY <1>2 DEF MarkScanned
  <2>2. Elements(pending)' = Elements(Append(pending, e))
    BY <2>1 DEF Elements
  <2>3. Elements(pending)' = Elements(pending) \cup {e}
    BY <2>2, ElementsOfAppend DEF DriveTypes
  <2> QED
    BY <2>1, <2>3 DEF Lost
<1> QED
  BY <1>1, <1>2

\* What leaves log, batch and memory alone loses no path.
LEMMA NothingLost ==
  ASSUME UNCHANGED <<log, known, pending>>
  PROVE  Lost' = Lost
  BY DEF Lost, Elements

\* An append that fails half-way keeps its batch; it can spoil the torn path only.
LEMMA LostInFailure ==
  ASSUME DriveTypes, SaveFails, walk # <<>>, Mishap("cut"), CutAppend(pending)
  PROVE  /\ run' = run /\ stops'["cut"] = stops["cut"] + 1
         /\ Lost' \subseteq Lost \cup {tail} /\ (tail = "none" => Lost' \subseteq Lost)
<1>1. stops'["cut"] = stops["cut"] + 1
  <2>1. "cut" \in Mishaps
    BY DEF Mishaps
  <2> QED
    BY <2>1, MishapIsTyped
<1>2. /\ log \subseteq log' \cup {tail} \cup Elements(pending)
      /\ tail = "none" => log \subseteq log'
  BY CutLogIs DEF DriveTypes
<1>3. run' = run /\ known' = known /\ Elements(pending)' = Elements(pending)
  BY DEF SaveFails, Elements
<1> QED
  BY <1>1, <1>2, <1>3 DEF Lost

\* While a run goes on nothing new is lost, except by an append behind a torn tail
\* or by one that fails half-way.
LEMMA LostInRun ==
  ASSUME DriveTypes, Control, run.command = "scan", run'.command = "scan", [Next]_vars
  PROVE  /\ run' = run
         /\ \/ tail' = tail /\ Lost' \subseteq Lost /\ stops'["cut"] = stops["cut"]
            \/ tail' = "none" /\ Save /\ pending # <<>> /\ stops'["cut"] = stops["cut"]
            \/ /\ stops'["cut"] = stops["cut"] + 1 /\ Lost' \subseteq Lost \cup {tail}
               /\ tail = "none" => Lost' \subseteq Lost
<1> DEFINE Goal ==
      /\ run' = run
      /\ \/ tail' = tail /\ Lost' \subseteq Lost /\ stops'["cut"] = stops["cut"]
         \/ tail' = "none" /\ Save /\ pending # <<>> /\ stops'["cut"] = stops["cut"]
         \/ /\ stops'["cut"] = stops["cut"] + 1 /\ Lost' \subseteq Lost \cup {tail}
            /\ tail = "none" => Lost' \subseteq Lost
<1>1. stops["cut"] \in Nat /\ "cut" \in Mishaps /\ "io" \in Mishaps
  BY BoundAssumption DEF DriveTypes, Mishaps
<1>2. ASSUME Busy, NEW e \in Top.left, Visit(e)
      PROVE  Goal
  <2>1. UNCHANGED <<run, log, tail, orphaned>>
    BY <1>2, VisitKeeps
  <2>2. stops'["cut"] = stops["cut"]
    <3>1. UNCHANGED stops \/ Mishap("io")
      BY <1>2 DEF Visit, SkipScanned, SkipEntry, RecordSymlink, EnterDirectory, PassOver, AccessFails, ProcessFile,
                  ProcessFileFails
    <3> QED
      BY <1>1, <3>1, MishapIsTyped
  <2>3. e \in Entries
    BY <1>2, StackIsTyped DEF Busy
  <2>4. (\E n : MarkScanned(e, n)) \/ UNCHANGED <<known, pending>>
    BY <1>2 DEF Visit, SkipScanned, SkipEntry, RecordSymlink, EnterDirectory, PassOver, AccessFails, ProcessFile,
                ProcessFileFails
  <2>5. Lost' \subseteq Lost
    BY <2>1, <2>3, <2>4, LostAfterMark, NothingLost
  <2> QED
    BY <2>1, <2>2, <2>5
<1>3. CASE LeaveDirectory
  <2>1. UNCHANGED <<run, log, tail, stops, orphaned>>
    BY <1>3 DEF LeaveDirectory, disk, files, history
  <2>2. (Top.dir \in Entries /\ MarkScanned(Top.dir, stats.files)) \/ UNCHANGED <<known, pending>>
    BY <1>3, TopIsFrame DEF LeaveDirectory, Busy, DriveTypes
  <2> QED
    BY <2>1, <2>2, LostAfterMark, NothingLost
<1>4. CASE Save
  BY <1>4 DEF Save, DriveTypes
<1>5. CASE SaveFails
  <2>1. walk # <<>>
    BY <1>5, EndIsTyped DEF SaveFails
  <2>2. CASE Mishap("io") /\ UNCHANGED <<log, tail>>
    <3>1. stops'["cut"] = stops["cut"]
      BY <1>1, <2>2, MishapIsTyped
    <3>2. UNCHANGED <<run, known, pending>>
      BY <1>5, <2>1 DEF SaveFails
    <3> QED
      BY <2>2, <3>1, <3>2, NothingLost
  <2>3. CASE Mishap("cut") /\ CutAppend(pending)
    BY <1>5, <2>1, <2>3, LostInFailure
  <2> QED
    BY <1>5, <2>2, <2>3 DEF SaveFails
<1>6. CASE FinalSave
  BY <1>6, NothingLost DEF FinalSave
<1>7. CASE Finish \/ Interrupt \/ Kill \/ KillInAppend
  <2>1. run'.command = "idle"
    BY <1>7, RunEnds
  <2> QED
    BY <2>1
<1>8. CASE UNCHANGED vars
  BY <1>8, NothingLost DEF vars, memory, disk, files, history
<1>9. ~(\E n, r, f, h \in BOOLEAN : StartScan(n, r, f, h)) /\ ~MigrationCut
      /\ ~(\E hidden, extract \in BOOLEAN : StartSurvey(hidden, extract))
  BY DEF StartScan, StartSurvey, MigrationCut
<1> QED
  BY <1>2, <1>3, <1>4, <1>5, <1>6, <1>7, <1>8, <1>9 DEF Next

\* What the append behind a torn tail swallows is the tail and its first path.
LEMMA LostInSave ==
  ASSUME DriveTypes, Save, pending # <<>>
  PROVE  /\ tail = "none" => Lost' \subseteq Lost
         /\ Lost' \subseteq Lost \cup {tail, pending[1]}
<1>1. /\ tail = "none" => Appended(pending) = log \cup Elements(pending)
      /\ log \cup Elements(pending) \subseteq Appended(pending) \cup {tail, pending[1]}
  BY AppendedIs DEF DriveTypes
<1>2. log' = Appended(pending) /\ known' = known
  BY DEF Save
<1> QED
  BY <1>1, <1>2 DEF Lost

\* A resumed scan begins with the log, and an old checkpoint moved into it.
LEMMA LostAtStart ==
  ASSUME DriveTypes, NEW named \in BOOLEAN, NEW resume \in BOOLEAN, NEW force \in BOOLEAN,
         NEW hidden \in BOOLEAN, StartScan(named, resume, force, hidden), run'.resume,
         run'.command = "scan"
  PROVE  /\ stops' = stops
         /\ \/ tail' = tail /\ Lost' = {}
            \/ tail' = "none" /\ Lost' = {}
            \/ tail' = "none" /\ tail # "none" /\ \E a, b : Lost' \subseteq {a, b}
<1>1. /\ run.command = "idle" /\ stops' = stops /\ known' = Loaded(resume)
      /\ Migrated(resume)
  BY DEF StartScan
<1>2. resume /\ known' = log \cup legacy
  <2>1. run' = run \/ run' = [command |-> "scan", named |-> named, resume |-> resume,
                       hidden |-> hidden, depth |-> MaxDepth]
    BY DEF StartScan
  <2>2. resume
    BY <1>1, <2>1
  <2> QED
    BY <1>1, <2>2 DEF Loaded
<1>3. CASE ~(legacy \subseteq log)
  <2>1. /\ tail' = "none" /\ (tail = "none" => log' = log \cup legacy)
        /\ \E first : log \cup legacy \subseteq log' \cup {tail, first}
    BY <1>1, <1>2, <1>3, MigratedIs
  <2>2. PICK first : Lost' \subseteq {tail, first}
    BY <1>2, <2>1 DEF Lost
  <2>3. tail = "none" => Lost' = {}
    BY <1>2, <2>1 DEF Lost
  <2> QED
    BY <1>1, <2>1, <2>2, <2>3
<1>4. CASE legacy \subseteq log
  <2>1. known' \subseteq log' /\ tail' = tail
    BY <1>1, <1>2, <1>4, MigratedIs
  <2>2. Lost' = {}
    BY <2>1 DEF Lost
  <2> QED
    BY <1>1, <2>1, <2>2
<1> QED
  BY <1>3, <1>4

\* A scan begins with StartScan alone.
LEMMA ScanStarts ==
  ASSUME DriveTypes, run.command # "scan", run'.command = "scan", [Next]_vars
  PROVE  \E n, r, f, h \in BOOLEAN : StartScan(n, r, f, h)
<1>1. ~(\E h, x \in BOOLEAN : StartSurvey(h, x))
  BY DEF StartSurvey
<1>2. run' # run
  OBVIOUS
<1>3. ~(Busy /\ \E e \in Top.left : Visit(e)) /\ ~LeaveDirectory /\ ~Save /\ ~FinalSave
  BY <1>2, VisitKeeps DEF LeaveDirectory, Save, FinalSave
<1>5. ~MigrationCut
  BY <1>2 DEF MigrationCut
<1>4. ~Finish /\ ~Interrupt /\ ~Kill /\ ~KillInAppend /\ ~SaveFails
  <2>1. ~Finish /\ ~Interrupt /\ ~Kill /\ ~KillInAppend
    BY RunEnds
  <2>2. SaveFails => run' = run \/ run'.command = "idle"
    BY EndIsTyped DEF SaveFails
  <2> QED
    BY <1>2, <2>1, <2>2
<1> QED
  BY <1>1, <1>2, <1>3, <1>4, <1>5 DEF Next, vars, memory

\* What a torn line may swallow stays within its bound, in every step.
LEMMA AtRiskStep == DriveTypes /\ Control /\ AtRisk /\ [Next]_vars => AtRisk'
<1> SUFFICES ASSUME DriveTypes, Control, AtRisk, [Next]_vars, run'.command = "scan", run'.resume
             PROVE  Cardinality(Lost') + (IF tail' = "none" THEN 0 ELSE 2) <= 2 * stops'["cut"]
  BY DEF AtRisk
<1>1. /\ stops["cut"] \in Nat /\ IsFiniteSet(Lost) /\ Cardinality(Lost) \in Nat
      /\ IsFiniteSet({}) /\ Cardinality({}) = 0
  BY LostIsFinite, FS_EmptySet, BoundAssumption DEF DriveTypes, Mishaps
<1>2. CASE run.command = "scan"
  <2>1. /\ run' = run
        /\ \/ tail' = tail /\ Lost' \subseteq Lost /\ stops'["cut"] = stops["cut"]
           \/ tail' = "none" /\ Save /\ pending # <<>> /\ stops'["cut"] = stops["cut"]
           \/ /\ stops'["cut"] = stops["cut"] + 1 /\ Lost' \subseteq Lost \cup {tail}
              /\ tail = "none" => Lost' \subseteq Lost
    BY <1>2, LostInRun
  <2>2. Cardinality(Lost) + (IF tail = "none" THEN 0 ELSE 2) <= 2 * stops["cut"]
    BY <1>2, <2>1 DEF AtRisk
  <2>3. Lost' \subseteq Lost => Cardinality(Lost') <= Cardinality(Lost) /\ Cardinality(Lost') \in Nat
    BY <1>1, FS_Subset, FS_CardinalityType
  <2>4. CASE tail' = tail /\ Lost' \subseteq Lost /\ stops'["cut"] = stops["cut"]
    BY <1>1, <2>2, <2>3, <2>4
  <2>5. CASE tail' = "none" /\ Save /\ pending # <<>> /\ stops'["cut"] = stops["cut"]
    <3>1. /\ tail = "none" => Lost' \subseteq Lost
          /\ Lost' \subseteq Lost \cup {tail, pending[1]}
      BY <2>5, LostInSave
    <3>2. Cardinality(Lost') <= Cardinality(Lost) + 2 /\ Cardinality(Lost') \in Nat
      BY <1>1, <3>1, TwoMore
    <3> QED
      BY <1>1, <2>2, <2>3, <2>5, <3>1, <3>2
  <2>6. CASE /\ stops'["cut"] = stops["cut"] + 1 /\ Lost' \subseteq Lost \cup {tail}
             /\ tail = "none" => Lost' \subseteq Lost
    <3>1. Cardinality(Lost') <= Cardinality(Lost) + 1 /\ Cardinality(Lost') \in Nat
      BY <1>1, <2>6, OneMore
    <3> QED
      BY <1>1, <2>2, <2>3, <2>6, <3>1
  <2> QED
    BY <2>1, <2>4, <2>5, <2>6
<1>3. CASE run.command # "scan"
  <2>1. /\ stops' = stops
        /\ \/ tail' = tail /\ Lost' = {}
           \/ tail' = "none" /\ Lost' = {}
           \/ tail' = "none" /\ tail # "none" /\ \E a, b : Lost' \subseteq {a, b}
    BY <1>3, ScanStarts, LostAtStart
  <2>2. tail # "none" => stops["cut"] >= 1
    BY DEF Control
  <2>3. CASE Lost' = {} /\ tail' \in {"none", tail}
    BY <1>1, <2>1, <2>2, <2>3
  <2>4. CASE tail' = "none" /\ tail # "none" /\ \E a, b : Lost' \subseteq {a, b}
    <3>1. PICK a, b : Lost' \subseteq {} \cup {a, b}
      BY <2>4
    <3> DEFINE S == Lost'
    <3>2. S \subseteq {} \cup {a, b}
      BY <3>1
    <3> HIDE DEF S
    <3>3. Cardinality(S) <= Cardinality({}) + 2 /\ Cardinality(S) \in Nat
      BY <1>1, <3>2, TwoMore
    <3>4. Cardinality(S) <= 2 /\ Cardinality(S) \in Nat
      BY <1>1, <3>3
    <3> QED
      BY <1>1, <2>1, <2>2, <2>4, <3>4 DEF S
  <2> QED
    BY <2>1, <2>3, <2>4
<1> QED
  BY <1>2, <1>3

\* The bound is the one that the run checks.
LEMMA AtRiskBounds == DriveTypes /\ AtRisk => BatchAtRisk
<1> SUFFICES ASSUME DriveTypes, AtRisk, run.command = "scan", run.resume
             PROVE  Cardinality(Lost) <= 2 * stops["cut"]
  BY DEF BatchAtRisk, Lost
<1>1. stops["cut"] \in Nat /\ Cardinality(Lost) \in Nat
  BY LostIsFinite, BoundAssumption DEF DriveTypes, Mishaps
<1> QED
  BY <1>1 DEF AtRisk

-----------------------------------------------------------------------------
(* The walk.                                                               *)

\* A directory that is an archive or is in one.
Inside(d) == d # Root /\ (IsArchive(d) \/ InArchive[d])

\* An entry that the walk is still to come to; a directory that is being listed.
Waiting(e) == \E i \in 1 .. Len(walk) : e \in walk[i].left
Open(d) == \E i \in 1 .. Len(walk) : walk[i].dir = d

\* The walk has come to the entries V and has listed the directories D among
\* them: it comes to no entry twice, and has come to every entry of what it has
\* listed or is still to come to it.
Frames(V, D) ==
    /\ V \subseteq Entries /\ D \subseteq V
    /\ \A e \in D : Entry[e].type = "dir" \/ IsArchive(e)
    /\ \A e \in V : Entry[e].parent \in D \cup {Root}
    /\ \A i \in 1 .. Len(walk) : walk[i].dir \in D \cup {Root} /\ walk[i].left \cap V = {}
    /\ \A i, j \in 1 .. Len(walk) : walk[i].dir = walk[j].dir => i = j
    /\ \A i, j \in 1 .. Len(walk) : i < j /\ Inside(walk[i].dir) => InArchive[walk[j].dir]
    /\ run.command # "idle" => \A n \in inodes : \E e \in V : Entry[e].inode = n
    /\ outcome \in {"running", "complete", "surveyed"} =>
         \A e \in Entries : Entry[e].parent \in D \cup {Root} => e \in V \/ Waiting(e)

\* A place that is not the last has one after it.
LEMMA Below == \A n, i \in Nat : 1 <= i /\ i <= n /\ i # n => i < n /\ n # 1 /\ 1 \in 1 .. n
  OBVIOUS

\* The entry that is next has not been come to; nor has anything in it.
LEMMA NextEntry ==
  ASSUME DriveTypes, Control, Busy, NEW V, NEW D, Frames(V, D), NEW e \in Top.left
  PROVE  /\ Len(walk) \in 1 .. Len(walk) /\ walk \in Seq(Frame) /\ walk # <<>>
         /\ e \in Entries /\ e \in walk[Len(walk)].left /\ Entry[e].parent = walk[Len(walk)].dir
         /\ e \notin V /\ e # Root /\ Entry[e].parent \in D \cup {Root}
         /\ \A x \in Children(e) : x \notin V /\ x # e
         /\ \A i \in 1 .. Len(walk) : walk[i].dir # e
         /\ \A i \in 1 .. Len(walk) : Inside(walk[i].dir) => InArchive[e]
<1>1. Len(walk) \in 1 .. Len(walk) /\ walk \in Seq(Frame) /\ walk # <<>>
  BY TopIsFrame DEF Busy, DriveTypes
<1>2. /\ e \in Entries /\ e \in walk[Len(walk)].left /\ Entry[e].parent = walk[Len(walk)].dir
  BY <1>1, StackIsTyped DEF Top
<1>3. e \notin V /\ e # Root /\ Entry[e].parent \in D \cup {Root}
  BY <1>1, <1>2, EntryAssumption DEF Frames
<1>4. \A i \in 1 .. Len(walk) : walk[i].dir # e
  BY <1>3 DEF Frames
<1>5. ASSUME NEW x \in Children(e)
      PROVE  x \notin V /\ x # e
  <2>1. x \in Entries /\ Entry[x].parent = e
    BY DEF Children
  <2>2. x \in V => e \in D \cup {Root}
    BY <2>1 DEF Frames
  <2>3. x # e
    BY <1>1, <1>2, <1>4, <2>1
  <2> QED
    BY <1>3, <2>2, <2>3 DEF Frames
<1>6. ASSUME NEW i \in 1 .. Len(walk), Inside(walk[i].dir)
      PROVE  InArchive[e]
  <2> DEFINE t == walk[Len(walk)].dir
  <2>1. t # Root /\ (IsArchive(t) \/ InArchive[t])
    <3>1. CASE i = Len(walk)
      BY <1>6, <3>1 DEF Inside
    <3>2. CASE i # Len(walk)
      <4>1. i < Len(walk) /\ Len(walk) # 1 /\ 1 \in 1 .. Len(walk)
        <5>1. Len(walk) \in Nat /\ i \in Nat /\ 1 <= i /\ i <= Len(walk)
          BY <1>1
        <5> QED
          BY <3>2, <5>1, Below
      <4>2. InArchive[t]
        BY <1>1, <1>6, <4>1 DEF Frames
      <4>3. t # Root
        <5>1. walk[1].dir = Root
          BY <1>1 DEF Control
        <5>2. walk[1].dir # walk[Len(walk)].dir
          BY <1>1, <4>1 DEF Frames
        <5> QED
          BY <5>1, <5>2
      <4> QED
        BY <4>2, <4>3
    <3> QED
      BY <3>1, <3>2
  <2> QED
    BY <1>2, <2>1, InArchiveIs
<1> QED
  BY <1>1, <1>2, <1>3, <1>4, <1>5, <1>6

\* An entry is passed over or recorded.
LEMMA StepOver ==
  ASSUME DriveTypes, Control, Busy, NEW V, NEW D, Frames(V, D), NEW e \in Top.left,
         walk' = Without(e), UNCHANGED <<run, outcome>>, inodes' \subseteq inodes \cup {Entry[e].inode}
  PROVE  Frames(V \cup {e}, D)'
<1> DEFINE n == Len(walk)
           w == Without(e)
<1>1. /\ n \in 1 .. n /\ walk \in Seq(Frame) /\ walk # <<>>
      /\ e \in Entries /\ e \in walk[n].left
      /\ e \notin V /\ Entry[e].parent \in D \cup {Root}
  BY NextEntry
<1>2. /\ w \in Seq(Frame) /\ Len(w) = n
      /\ \A i \in 1 .. n : /\ w[i].dir = walk[i].dir
                           /\ w[i].left = IF i = n THEN walk[i].left \ {e} ELSE walk[i].left
  BY <1>1, WithoutIs
<1> HIDE DEF w
<1>3. walk' = w
  BY DEF w
<1>4. \A i \in 1 .. n : i # n => e \notin walk[i].left
  <2> SUFFICES ASSUME NEW i \in 1 .. n, e \in walk[i].left PROVE i = n
    OBVIOUS
  <2>1. walk[i].left \subseteq Children(walk[i].dir) /\ walk[n].left \subseteq Children(walk[n].dir)
    BY <1>1 DEF DriveTypes
  <2>2. walk[i].dir = walk[n].dir
    BY <1>1, <2>1 DEF Children
  <2> QED
    BY <1>1, <2>2 DEF Frames
<1>7. /\ V \subseteq Entries /\ D \subseteq V
      /\ \A x \in D : Entry[x].type = "dir" \/ IsArchive(x)
      /\ \A x \in V : Entry[x].parent \in D \cup {Root}
      /\ run.command # "idle" => \A k \in inodes : \E x \in V : Entry[x].inode = k
  BY DEF Frames
<1>8. \A i \in 1 .. n : walk[i].dir \in D \cup {Root} /\ walk[i].left \cap V = {}
  BY DEF Frames
<1>9. \A i, j \in 1 .. n : walk[i].dir = walk[j].dir => i = j
  BY DEF Frames
<1>10. \A i, j \in 1 .. n : i < j /\ Inside(walk[i].dir) => InArchive[walk[j].dir]
  BY DEF Frames
<1>5. \A x \in Entries : Waiting(x) => x = e \/ Waiting(x)'
  BY <1>2, <1>3 DEF Waiting
<1>6. \A i \in 1 .. n : walk'[i].left \cap (V \cup {e}) = {}
  <2> TAKE i \in 1 .. n
  <2>1. walk[i].left \cap V = {} /\ (i # n => e \notin walk[i].left)
    BY <1>4, <1>8
  <2>2. walk'[i].left = IF i = n THEN walk[i].left \ {e} ELSE walk[i].left
    BY <1>2, <1>3
  <2> QED
    BY <2>1, <2>2
<1>11. Len(walk') = n /\ \A i \in 1 .. n : walk'[i].dir = walk[i].dir
  BY <1>2, <1>3
<1>12. /\ \A i \in 1 .. n : walk'[i].dir \in D \cup {Root}
       /\ \A i, j \in 1 .. n : walk'[i].dir = walk'[j].dir => i = j
       /\ \A i, j \in 1 .. n : i < j /\ Inside(walk'[i].dir) => InArchive[walk'[j].dir]
  BY <1>8, <1>9, <1>10, <1>11
<1>13. outcome' \in {"running", "complete", "surveyed"} =>
         \A x \in Entries : Entry[x].parent \in D \cup {Root} => x \in V \cup {e} \/ Waiting(x)'
  BY <1>5 DEF Frames
<1>14. /\ V \cup {e} \subseteq Entries /\ D \subseteq V \cup {e}
       /\ \A x \in V \cup {e} : Entry[x].parent \in D \cup {Root}
       /\ run'.command # "idle" => \A k \in inodes' : \E x \in V \cup {e} : Entry[x].inode = k
  BY <1>1, <1>7
<1> QED
  BY <1>6, <1>7, <1>11, <1>12, <1>13, <1>14 DEF Frames

\* A directory or an archive is entered.
LEMMA StepInto ==
  ASSUME DriveTypes, Control, Busy, NEW V, NEW D, Frames(V, D), NEW e \in Top.left,
         Entry[e].type = "dir" \/ IsArchive(e),
         walk' = Entering(Without(e), e), UNCHANGED <<run, outcome>>,
         inodes' \subseteq inodes \cup {Entry[e].inode}
  PROVE  Frames(V \cup {e}, D \cup {e})'
<1> DEFINE n == Len(walk)
           w == Without(e)
<1>1. /\ n \in 1 .. n /\ walk \in Seq(Frame) /\ walk # <<>>
      /\ e \in Entries /\ e \in walk[n].left
      /\ e \notin V /\ Entry[e].parent \in D \cup {Root}
      /\ \A x \in Children(e) : x \notin V /\ x # e
      /\ \A i \in 1 .. n : walk[i].dir # e
      /\ \A i \in 1 .. n : Inside(walk[i].dir) => InArchive[e]
  BY NextEntry
<1>2. /\ w \in Seq(Frame) /\ Len(w) = n
      /\ \A i \in 1 .. n : /\ w[i].dir = walk[i].dir
                           /\ w[i].left = IF i = n THEN walk[i].left \ {e} ELSE walk[i].left
  BY <1>1, WithoutIs
<1> HIDE DEF w
<1>3. /\ walk' \in Seq(Frame) /\ Len(walk') = n + 1
      /\ \A i \in 1 .. n : walk'[i] = w[i]
      /\ walk'[n + 1].dir = e /\ walk'[n + 1].left = Children(e)
  <2>1. walk' = Entering(w, e)
    BY DEF w
  <2> QED
    BY <1>1, <1>2, <2>1, EnteringIs
<1>4. \A i \in 1 .. n + 1 : i \in 1 .. n \/ i = n + 1
  BY <1>1
<1>5. \A i \in 1 .. n : i # n => e \notin walk[i].left
  <2> SUFFICES ASSUME NEW i \in 1 .. n, e \in walk[i].left PROVE i = n
    OBVIOUS
  <2>1. walk[i].left \subseteq Children(walk[i].dir) /\ walk[n].left \subseteq Children(walk[n].dir)
    BY <1>1 DEF DriveTypes
  <2>2. walk[i].dir = walk[n].dir
    BY <1>1, <2>1 DEF Children
  <2> QED
    BY <1>1, <2>2 DEF Frames
<1>6. \A x \in Entries : Waiting(x) => x = e \/ Waiting(x)'
  <2>1. \A i \in 1 .. n : i \in 1 .. n + 1
    BY <1>1
  <2> QED
    BY <1>2, <1>3, <2>1 DEF Waiting
<1>7. \A x \in Children(e) : Waiting(x)'
  <2>1. n + 1 \in 1 .. n + 1
    BY <1>1
  <2> QED
    BY <1>3, <2>1 DEF Waiting
<1>14. \A i \in 1 .. n : walk[i].dir \in D \cup {Root} /\ walk[i].left \cap V = {}
  BY DEF Frames
<1>15. \A i, j \in 1 .. n : walk[i].dir = walk[j].dir => i = j
  BY DEF Frames
<1>16. \A i, j \in 1 .. n : i < j /\ Inside(walk[i].dir) => InArchive[walk[j].dir]
  BY DEF Frames
<1>17. \A i \in 1 .. n : walk'[i].dir = walk[i].dir
  BY <1>2, <1>3
<1>8. \A i \in 1 .. n + 1 : walk'[i].left \cap (V \cup {e}) = {}
  <2>1. ASSUME NEW i \in 1 .. n PROVE walk'[i].left \cap (V \cup {e}) = {}
    <3>1. walk[i].left \cap V = {} /\ (i # n => e \notin walk[i].left)
      BY <1>5, <1>14
    <3>2. walk'[i].left = IF i = n THEN walk[i].left \ {e} ELSE walk[i].left
      BY <1>2, <1>3
    <3> QED
      BY <3>1, <3>2
  <2>2. walk'[n + 1].left \cap (V \cup {e}) = {}
    BY <1>1, <1>3
  <2> QED
    BY <1>4, <2>1, <2>2
<1>9. \A i \in 1 .. n + 1 : walk'[i].dir \in D \cup {e} \cup {Root}
  BY <1>3, <1>4, <1>14, <1>17
<1>10. \A i, j \in 1 .. n + 1 : walk'[i].dir = walk'[j].dir => i = j
  <2>1. \A i, j \in 1 .. n : walk'[i].dir = walk'[j].dir => i = j
    BY <1>15, <1>17
  <2>2. \A i \in 1 .. n : walk'[i].dir # walk'[n + 1].dir
    BY <1>1, <1>3, <1>17
  <2> QED
    BY <1>4, <2>1, <2>2
<1>11. \A i, j \in 1 .. n + 1 : i < j /\ Inside(walk'[i].dir) => InArchive[walk'[j].dir]
  <2>1. \A i, j \in 1 .. n : i < j /\ Inside(walk'[i].dir) => InArchive[walk'[j].dir]
    BY <1>16, <1>17
  <2>2. \A i \in 1 .. n : Inside(walk'[i].dir) => InArchive[walk'[n + 1].dir]
    BY <1>1, <1>3, <1>17
  <2>3. \A j \in 1 .. n : ~(n + 1 < j)
    BY <1>1
  <2>4. ~(n + 1 < n + 1)
    BY <1>1
  <2> QED
    BY <1>4, <2>1, <2>2, <2>3, <2>4
<1>12. \A x \in Entries : Entry[x].parent \in D \cup {e} \cup {Root} /\
         outcome' \in {"running", "complete", "surveyed"} => x \in V \cup {e} \/ Waiting(x)'
  <2> SUFFICES ASSUME NEW x \in Entries, Entry[x].parent \in D \cup {e} \cup {Root},
                      outcome' \in {"running", "complete", "surveyed"}
               PROVE  x \in V \cup {e} \/ Waiting(x)'
    OBVIOUS
  <2>1. CASE Entry[x].parent = e
    BY <1>7, <2>1 DEF Children
  <2>2. CASE Entry[x].parent \in D \cup {Root}
    BY <1>6, <2>2 DEF Frames
  <2> QED
    BY <2>1, <2>2
<1>13. /\ V \cup {e} \subseteq Entries /\ D \cup {e} \subseteq V \cup {e}
       /\ \A x \in D \cup {e} : Entry[x].type = "dir" \/ IsArchive(x)
       /\ \A x \in V \cup {e} : Entry[x].parent \in D \cup {e} \cup {Root}
       /\ run'.command # "idle" => \A k \in inodes' : \E x \in V \cup {e} : Entry[x].inode = k
  BY <1>1 DEF Frames
<1> QED
  BY <1>3, <1>8, <1>9, <1>10, <1>11, <1>12, <1>13 DEF Frames

\* A directory is left.
LEMMA StepOut ==
  ASSUME DriveTypes, NEW V, NEW D, Frames(V, D), LeaveDirectory
  PROVE  /\ Frames(V, D)'
         /\ Len(walk') = Len(walk) - 1 /\ Len(walk) \in Nat \ {0}
         /\ \A i \in 1 .. Len(walk') : i \in 1 .. Len(walk) /\ walk'[i] = walk[i]
         /\ \A d : Open(d) => d = Top.dir \/ Open(d)'
<1> DEFINE n == Len(walk) - 1
<1>1. walk \in Seq(Frame) /\ walk # <<>> /\ Top.left = {} /\ Len(walk) \in Nat \ {0}
  BY DEF LeaveDirectory, Busy, DriveTypes
<1>2. /\ Len(walk') = n
      /\ \A i \in 1 .. Len(walk') : walk'[i] = walk[i]
  BY <1>1, PoppedIs DEF LeaveDirectory
<1>3. \A i \in 1 .. n : i \in 1 .. Len(walk)
  BY <1>1
<1>4. \A i \in 1 .. Len(walk) : i \in 1 .. n \/ i = Len(walk)
  BY <1>1
<1>5. UNCHANGED <<run, outcome, inodes>>
  BY DEF LeaveDirectory
<1>6. \A e \in Entries : Waiting(e) => Waiting(e)'
  <2> SUFFICES ASSUME NEW e \in Entries, NEW i \in 1 .. Len(walk), e \in walk[i].left
               PROVE  \E j \in 1 .. Len(walk') : e \in walk'[j].left
    BY DEF Waiting
  <2>1. i # Len(walk)
    BY <1>1 DEF Top
  <2>2. i \in 1 .. n
    BY <1>4, <2>1
  <2> QED
    BY <1>2, <2>2
<1>7. \A d : Open(d) => d = Top.dir \/ Open(d)'
  <2> SUFFICES ASSUME NEW i \in 1 .. Len(walk), walk[i].dir # Top.dir
               PROVE  \E j \in 1 .. Len(walk') : walk'[j].dir = walk[i].dir
    BY DEF Open
  <2>1. i \in 1 .. n
    BY <1>4 DEF Top
  <2> QED
    BY <1>2, <2>1
<1>8. Frames(V, D)'
  <2>1. /\ \A i \in 1 .. n : walk'[i].dir \in D \cup {Root} /\ walk'[i].left \cap V = {}
        /\ \A i, j \in 1 .. n : walk'[i].dir = walk'[j].dir => i = j
        /\ \A i, j \in 1 .. n : i < j /\ Inside(walk'[i].dir) => InArchive[walk'[j].dir]
    <3>1. /\ \A i \in 1 .. Len(walk) : walk[i].dir \in D \cup {Root} /\ walk[i].left \cap V = {}
          /\ \A i, j \in 1 .. Len(walk) : walk[i].dir = walk[j].dir => i = j
          /\ \A i, j \in 1 .. Len(walk) : i < j /\ Inside(walk[i].dir) => InArchive[walk[j].dir]
      BY DEF Frames
    <3> QED
      BY <1>2, <1>3, <3>1
  <2>2. /\ V \subseteq Entries /\ D \subseteq V
        /\ \A e \in D : Entry[e].type = "dir" \/ IsArchive(e)
        /\ \A e \in V : Entry[e].parent \in D \cup {Root}
        /\ run'.command # "idle" => \A k \in inodes' : \E e \in V : Entry[e].inode = k
        /\ outcome' \in {"running", "complete", "surveyed"} =>
             \A e \in Entries : Entry[e].parent \in D \cup {Root} => e \in V \/ Waiting(e)'
    BY <1>5, <1>6 DEF Frames
  <2> QED
    BY <1>2, <2>1, <2>2 DEF Frames
<1> QED
  BY <1>1, <1>2, <1>3, <1>7, <1>8

\* The walk rests.
LEMMA StepAside ==
  ASSUME NEW V, NEW D, Frames(V, D), walk' = walk, inodes' \subseteq inodes,
         run'.command # "idle" => run.command # "idle",
         outcome' = outcome \/ outcome = "running"
  PROVE  Frames(V, D)'
  BY DEF Frames, Waiting

\* No walk.
LEMMA StepEnds ==
  ASSUME walk' = <<>>, run'.command = "idle", outcome' \notin {"running", "complete", "surveyed"}
  PROVE  Frames({}, {})'
<1>1. Len(walk') = 0
  OBVIOUS
<1> QED
  BY <1>1 DEF Frames

\* A walk begins.
LEMMA StepStarts ==
  ASSUME walk' = Entering(<<>>, Root), inodes' = {}
  PROVE  Frames({}, {})'
<1>1. Len(walk') = 1 /\ walk'[1].dir = Root /\ walk'[1].left = Children(Root)
  BY StartIs
<1>5. \A i \in 1 .. 1 : i = 1 /\ ~(1 < 1)
  OBVIOUS
<1>6. 1 .. Len(walk') = 1 .. 1
  BY <1>1
<1>2. \A i \in 1 .. Len(walk') : i = 1 /\ walk'[i].dir = Root
  BY <1>1, <1>5, <1>6
<1>3. \A e \in Entries : Entry[e].parent = Root => Waiting(e)'
  BY <1>1 DEF Waiting, Children
<1>4. \A i, j \in 1 .. Len(walk') : ~(i < j)
  <2> TAKE i, j \in 1 .. Len(walk')
  <2>1. i = 1 /\ j = 1 /\ ~(1 < 1)
    BY <1>5, <1>6
  <2> QED
    BY <2>1
<1> QED
  BY <1>2, <1>3, <1>4 DEF Frames

\* One entry is visited.
LEMMA StepVisits ==
  ASSUME DriveTypes, Control, Busy, NEW V, NEW D, Frames(V, D), NEW e \in Top.left, Visit(e)
  PROVE  \/ walk' = Without(e) /\ Frames(V \cup {e}, D)'
         \/ /\ walk' = Entering(Without(e), e) /\ Frames(V \cup {e}, D \cup {e})'
            /\ EnterDirectory(e) \/ (ProcessFile(e) /\ Opens(e) /\ Extracted(e))
<1>1. UNCHANGED <<run, outcome>>
  BY VisitKeeps
<1>2. inodes' \subseteq inodes \cup {Entry[e].inode}
  BY DEF Visit, SkipScanned, SkipEntry, RecordSymlink, EnterDirectory, PassOver, AccessFails, ProcessFile, ProcessFileFails
<1>3. \/ walk' = Without(e)
      \/ /\ walk' = Entering(Without(e), e)
         /\ EnterDirectory(e) \/ (ProcessFile(e) /\ Opens(e) /\ Extracted(e))
  BY DEF Visit, SkipScanned, SkipEntry, RecordSymlink, EnterDirectory, PassOver, AccessFails, ProcessFile, ProcessFileFails
<1>4. EnterDirectory(e) \/ (ProcessFile(e) /\ Opens(e) /\ Extracted(e)) =>
        Entry[e].type = "dir" \/ IsArchive(e)
  BY DEF EnterDirectory, Opens
<1> QED
  BY <1>1, <1>2, <1>3, <1>4, StepOver, StepInto

-----------------------------------------------------------------------------
(* What is recorded.                                                       *)

\* The record of an entry that is marked: in an output file, or for a link, as
\* long as nothing was killed, on its way there.
Recorded(e) ==
    /\ Entry[e].type = "file" => Written(e)
    /\ Entry[e].type = "link" /\ Untouched => Written(e) \/ e \in buffer

\* The step loses no record.
Keeps ==
    \A e \in Entries : /\ Written(e) => Written(e)'
                       /\ Untouched' /\ e \in buffer => e \in buffer' \/ Written(e)'

\* Nor does the file of the run lose one.
OwnKeeps ==
    \A e \in Entries : /\ InOwn(e) => InOwn(e)'
                       /\ e \in buffer => e \in buffer' \/ InOwn(e)'

\* Mishaps are counted and never forgotten; so are the runs that mix up files.
LEMMA Fates ==
  ASSUME DriveTypes, [Next]_vars
  PROVE  /\ orphaned => orphaned'
         /\ strayed => strayed'
         /\ stops' = stops \/ \E m \in Mishaps : Mishap(m)
<1>1. ASSUME NEW e, Visit(e)
      PROVE  history' = history /\ (stops' = stops \/ Mishap("io"))
  BY <1>1 DEF Visit, SkipScanned, SkipEntry, RecordSymlink, EnterDirectory, PassOver, AccessFails, ProcessFile,
              ProcessFileFails
<1>2. /\ "io" \in Mishaps /\ "cut" \in Mishaps /\ "kill" \in Mishaps /\ "interrupt" \in Mishaps
  BY DEF Mishaps
<1>3. ASSUME NEW named \in BOOLEAN, NEW resume \in BOOLEAN, NEW force \in BOOLEAN,
             NEW hidden \in BOOLEAN, StartScan(named, resume, force, hidden)
      PROVE  (orphaned => orphaned') /\ (strayed => strayed') /\ stops' = stops
  BY <1>3 DEF StartScan
<1>4. (\E hidden, extract \in BOOLEAN : StartSurvey(hidden, extract)) \/ LeaveDirectory
      \/ Save \/ FinalSave \/ Finish => history' = history /\ stops' = stops
  BY DEF StartSurvey, LeaveDirectory, Save, FinalSave, Finish, history
<1>5. SaveFails \/ Interrupt \/ Kill \/ KillInAppend \/ MigrationCut
        => history' = history /\ \E m \in Mishaps : Mishap(m)
  BY <1>2 DEF SaveFails, Interrupt, Kill, KillInAppend, MigrationCut
<1>6. UNCHANGED vars => history' = history /\ stops' = stops
  BY DEF vars
<1>7. history' = history => (orphaned => orphaned') /\ (strayed => strayed')
  BY DEF history
<1> QED
  BY <1>1, <1>2, <1>3, <1>4, <1>5, <1>6, <1>7 DEF Next

\* The numbers of mishaps never go down.
LEMMA StopsGrow ==
  ASSUME DriveTypes, stops' = stops \/ \E m \in Mishaps : Mishap(m)
  PROVE  /\ \A m \in Mishaps : stops[m] \in Nat /\ stops'[m] \in Nat /\ stops'[m] >= stops[m]
         /\ \A m \in Mishaps : Mishap(m) => stops'[m] >= 1
<1>1. \A m \in Mishaps : stops[m] \in Nat
  BY BoundAssumption DEF DriveTypes
<1>2. CASE stops' = stops
  <2>1. ASSUME NEW m \in Mishaps, Mishap(m) PROVE stops'[m] >= 1
    <3>1. stops'[m] = stops[m] + 1
      BY <2>1, MishapIsTyped
    <3> QED
      BY <1>1, <3>1
  <2> QED
    BY <1>1, <1>2, <2>1
<1>3. ASSUME NEW m \in Mishaps, Mishap(m)
      PROVE  /\ \A k \in Mishaps : stops'[k] \in Nat /\ stops'[k] >= stops[k]
             /\ stops'[m] >= 1
  <2>1. stops'[m] = stops[m] + 1 /\ \A k \in Mishaps \ {m} : stops'[k] = stops[k]
    BY <1>3, MishapIsTyped
  <2> QED
    BY <1>1, <2>1
<1> QED
  BY <1>1, <1>2, <1>3

\* If there has been no crash, or no error, after a step, there was none before.
LEMMA UntouchedBefore ==
  ASSUME DriveTypes, [Next]_vars
  PROVE  /\ Untouched' => Untouched /\ ~Mishap("kill") /\ ~Mishap("cut")
         /\ stops'["io"] = 0 => stops["io"] = 0 /\ ~Mishap("io")
<1>1. /\ "io" \in Mishaps /\ "cut" \in Mishaps /\ "kill" \in Mishaps
  BY DEF Mishaps
<1>2. /\ \A m \in Mishaps : stops[m] \in Nat /\ stops'[m] \in Nat /\ stops'[m] >= stops[m]
      /\ \A m \in Mishaps : Mishap(m) => stops'[m] >= 1
  BY Fates, StopsGrow
<1> DEFINE k == stops["kill"]
           c == stops["cut"]
           i == stops["io"]
<1>3. /\ k \in Nat /\ k' \in Nat /\ k' >= k /\ c \in Nat /\ c' \in Nat /\ c' >= c
      /\ i \in Nat /\ i' \in Nat /\ i' >= i
      /\ (Mishap("kill") => k' >= 1) /\ (Mishap("cut") => c' >= 1) /\ (Mishap("io") => i' >= 1)
  BY <1>1, <1>2
<1>4. (Untouched <=> k + c = 0 /\ ~orphaned) /\ (Untouched' <=> k' + c' = 0 /\ ~orphaned')
  BY DEF Untouched
<1>5. orphaned => orphaned'
  BY Fates
<1> HIDE DEF k, c, i
<1>6. \A a, b, p, q \in Nat : p >= a /\ q >= b /\ p + q = 0 => a + b = 0 /\ ~(p >= 1) /\ ~(q >= 1)
  OBVIOUS
<1>7. \A a, p \in Nat : p >= a /\ p = 0 => a = 0 /\ ~(p >= 1)
  OBVIOUS
<1>8. i' = 0 => i = 0 /\ ~Mishap("io")
  BY <1>3, <1>7
<1>9. k' + c' = 0 => k + c = 0 /\ ~Mishap("kill") /\ ~Mishap("cut")
  BY <1>3, <1>6
<1> QED
  BY <1>4, <1>5, <1>8, <1>9 DEF i

\* The ways in which a step leaves every record where it is or adds one.
LEMMA CatalogueGrows ==
  ASSUME DriveTypes
  PROVE  /\ UNCHANGED <<catalogue, dated>> /\ buffer \subseteq buffer' => Keeps
         /\ WriteOut(buffer) => Keeps
         /\ \A e \in Entries : Flushed(e) => Keeps /\ (run.command = "scan" => Written(e)')
<1>1. ASSUME NEW S \in SUBSET Entries, WriteOut(S)
      PROVE  \A x \in Entries : (Written(x) => Written(x)') /\ (x \in S => Written(x)')
  <2> TAKE x \in Entries
  <2>1. /\ catalogue'[x] = catalogue[x] + (IF run.named /\ x \in S THEN 1 ELSE 0)
        /\ dated \subseteq dated' /\ latest' \subseteq dated' /\ (~run.named => S \subseteq latest')
        /\ catalogue[x] \in Nat
    BY <1>1, WriteOutIs DEF DriveTypes
  <2>2. catalogue[x] >= 1 => catalogue'[x] >= 1
    BY <2>1
  <2>3. x \in S => catalogue'[x] >= 1 \/ x \in dated'
    <3>1. CASE run.named
      BY <2>1, <3>1
    <3>2. CASE ~run.named
      BY <2>1, <3>2
    <3> QED
      BY <3>1, <3>2
  <2> QED
    BY <2>1, <2>2, <2>3 DEF Written
<1>2. UNCHANGED <<catalogue, dated>> /\ buffer \subseteq buffer' => Keeps
  BY DEF Keeps, Written
<1>3. WriteOut(buffer) => Keeps
  BY <1>1 DEF Keeps, DriveTypes
<1>4. ASSUME NEW e \in Entries, Flushed(e)
      PROVE  Keeps /\ (run.command = "scan" => Written(e)')
  <2>1. CASE run.command = "scan"
    <3>1. WriteOut(buffer \cup {e}) /\ buffer \cup {e} \in SUBSET Entries
      BY <1>4, <2>1 DEF Flushed, DriveTypes
    <3> QED
      BY <1>1, <3>1 DEF Keeps
  <2>2. CASE run.command # "scan"
    BY <1>2, <1>4, <2>2 DEF Flushed
  <2> QED
    BY <2>1, <2>2
<1> QED
  BY <1>2, <1>3, <1>4

\* The same of the file of the run, while the run goes on.
LEMMA OwnGrows ==
  ASSUME DriveTypes, run'.named = run.named
  PROVE  /\ UNCHANGED <<catalogue, latest>> /\ buffer \subseteq buffer' => OwnKeeps
         /\ WriteOut(buffer) => OwnKeeps
         /\ \A e \in Entries : Flushed(e) => OwnKeeps /\ (run.command = "scan" => InOwn(e)')
<1>1. ASSUME NEW S \in SUBSET Entries, WriteOut(S)
      PROVE  \A x \in Entries : (InOwn(x) => InOwn(x)') /\ (x \in S => InOwn(x)')
  <2> TAKE x \in Entries
  <2>1. /\ catalogue'[x] = catalogue[x] + (IF run.named /\ x \in S THEN 1 ELSE 0)
        /\ latest \subseteq latest' /\ (~run.named => S \subseteq latest')
        /\ catalogue[x] \in Nat
    BY <1>1, WriteOutIs DEF DriveTypes
  <2>2. CASE run.named
    BY <2>1, <2>2 DEF InOwn
  <2>3. CASE ~run.named
    BY <2>1, <2>3 DEF InOwn
  <2> QED
    BY <2>2, <2>3
<1>2. UNCHANGED <<catalogue, latest>> /\ buffer \subseteq buffer' => OwnKeeps
  BY DEF OwnKeeps, InOwn
<1>3. WriteOut(buffer) => OwnKeeps
  BY <1>1 DEF OwnKeeps, DriveTypes
<1>4. ASSUME NEW e \in Entries, Flushed(e)
      PROVE  OwnKeeps /\ (run.command = "scan" => InOwn(e)')
  <2>1. CASE run.command = "scan"
    <3>1. WriteOut(buffer \cup {e}) /\ buffer \cup {e} \in SUBSET Entries
      BY <1>4, <2>1 DEF Flushed, DriveTypes
    <3> QED
      BY <1>1, <3>1 DEF OwnKeeps
  <2>2. CASE run.command # "scan"
    BY <1>2, <1>4, <2>2 DEF Flushed
  <2> QED
    BY <2>1, <2>2
<1> QED
  BY <1>2, <1>3, <1>4

\* Visiting an entry loses no record.
LEMMA VisitLosesNothing ==
  ASSUME DriveTypes, Busy, NEW e \in Top.left, Visit(e)
  PROVE  Keeps /\ OwnKeeps
<1>1. e \in Entries /\ run'.named = run.named
  BY StackIsTyped, VisitKeeps DEF Busy
<1>2. CASE ProcessFile(e)
  BY <1>1, <1>2, CatalogueGrows, OwnGrows DEF ProcessFile
<1>3. CASE SkipScanned(e) \/ SkipEntry(e) \/ RecordSymlink(e) \/ EnterDirectory(e) \/ PassOver(e)
          \/ AccessFails(e) \/ ProcessFileFails(e)
  <2>1. UNCHANGED <<catalogue, dated, latest>> /\ buffer \subseteq buffer'
    BY <1>3 DEF SkipScanned, SkipEntry, RecordSymlink, EnterDirectory, PassOver, AccessFails, ProcessFileFails, disk, files, history
  <2> QED
    BY <1>1, <2>1, CatalogueGrows, OwnGrows
<1> QED
  BY <1>2, <1>3 DEF Visit

\* Records are lost only when a scan that does not resume begins: then nothing is
\* marked, or the catalogue is truncated beside a log in use.
LEMMA RecordsStay ==
  ASSUME DriveTypes, Control, [Next]_vars
  PROVE  Keeps \/ (~orphaned' => Marked' = {} /\ \E n, r, f, h \in BOOLEAN : StartScan(n, r, f, h))
<1>1. ASSUME NEW named \in BOOLEAN, NEW resume \in BOOLEAN, NEW force \in BOOLEAN,
             NEW hidden \in BOOLEAN, StartScan(named, resume, force, hidden)
      PROVE  Keeps \/ (~orphaned' => Marked' = {})
  <2> DEFINE resuming == Loaded(resume) # {}
             refused == named /\ output /\ ~resuming /\ ~force
  <2>1. /\ run.command = "idle" /\ known' = Loaded(resume) /\ pending' = <<>>
        /\ buffer' = {} /\ Migrated(resume) /\ dated' = dated
        /\ catalogue' = (IF refused \/ resuming \/ ~named THEN catalogue
                         ELSE [e \in Entries |-> 0])
        /\ orphaned' = (orphaned \/ (named /\ ~refused /\ ~resume /\ log \cup legacy # {}))
    BY <1>1 DEF StartScan
  <2>2. CASE refused \/ resuming \/ ~named
    <3>1. catalogue' = catalogue /\ buffer = {}
      BY <2>1, <2>2 DEF Control
    <3> QED
      BY <2>1, <3>1, CatalogueGrows
  <2>3. CASE ~(refused \/ resuming \/ ~named)
    <3>1. ~orphaned' => log \cup legacy = {}
      BY <2>1, <2>3 DEF Loaded
    <3>2. known' = {} /\ log' \subseteq log \cup legacy /\ legacy' \subseteq legacy
      BY <2>1, <2>3, MigratedIs
    <3>3. Elements(pending)' = {}
      <4>1. Elements(pending)' = Elements(<<>>)
        BY <2>1 DEF Elements
      <4> QED
        BY <4>1, ElementsAre DEF DriveTypes
    <3> QED
      BY <3>1, <3>2, <3>3 DEF Marked
  <2> QED
    BY <2>2, <2>3
<1>2. ASSUME NEW hidden \in BOOLEAN, NEW extract \in BOOLEAN, StartSurvey(hidden, extract)
      PROVE  Keeps
  <2>1. UNCHANGED <<catalogue, dated>> /\ buffer = {}
    BY <1>2 DEF StartSurvey, disk, files, history, Control
  <2> QED
    BY <2>1, CatalogueGrows
<1>3. CASE Busy /\ \E e \in Top.left : Visit(e)
  BY <1>3, VisitLosesNothing
<1>4. CASE LeaveDirectory \/ Save \/ MigrationCut
  BY <1>4, CatalogueGrows DEF LeaveDirectory, Save, MigrationCut, disk, files, history
<1>5. CASE SaveFails
  <2>1. CASE walk # <<>>
    BY <1>5, <2>1, CatalogueGrows DEF SaveFails, files
  <2>2. CASE walk = <<>>
    <3>1. UNCHANGED <<catalogue, dated>> /\ buffer = {}
      BY <1>5, <2>2 DEF SaveFails, files, Control
    <3> QED
      BY <3>1, CatalogueGrows
  <2> QED
    BY <2>1, <2>2
<1>6. CASE FinalSave \/ Finish \/ Interrupt
  BY <1>6, CatalogueGrows DEF FinalSave, Finish, Interrupt
<1>7. CASE Kill \/ KillInAppend
  <2>1. ~Untouched'
    BY <1>7, UntouchedBefore DEF Kill, KillInAppend
  <2>2. UNCHANGED <<catalogue, dated>>
    BY <1>7 DEF Kill, KillInAppend, disk, files, history
  <2> QED
    BY <2>1, <2>2 DEF Keeps, Written
<1>8. CASE UNCHANGED vars
  BY <1>8, CatalogueGrows DEF vars, memory, disk, files, history
<1> QED
  BY <1>1, <1>2, <1>3, <1>4, <1>5, <1>6, <1>7, <1>8 DEF Next

\* A record that stays.
LEMMA RecordStays ==
  ASSUME DriveTypes, [Next]_vars, Keeps, NEW e \in Entries
  PROVE  /\ Written(e) => Written(e)'
         /\ Recorded(e) => Recorded(e)'
<1>1. Untouched' => Untouched
  BY UntouchedBefore
<1> QED
  BY <1>1 DEF Recorded, Keeps

-----------------------------------------------------------------------------
(* The checkpoint is honest.                                               *)

\* What is marked, and every archive that a scan has opened, is recorded.
Honest ==
    ~orphaned => /\ \A e \in Marked : Recorded(e)
                 /\ run.command = "scan" =>
                      \A i \in 1 .. Len(walk) : walk[i].dir # Root => Recorded(walk[i].dir)

\* The step of the walk records what it marks or enters.
LEMMA VisitRecords ==
  ASSUME DriveTypes, Control, Busy, run.command = "scan", NEW e \in Top.left, Visit(e),
         Marks(e) \/ walk' = Entering(Without(e), e) \/ RecordSymlink(e) \/ ProcessFile(e)
         \/ EnterDirectory(e)
  PROVE  Recorded(e)'
<1>1. e \in Entries
  BY StackIsTyped DEF Busy
<1>2. CASE RecordSymlink(e)
  <2>1. e \in buffer' /\ Entry[e].type = "link"
    BY <1>2 DEF RecordSymlink
  <2> QED
    BY <2>1 DEF Recorded
<1>3. CASE ProcessFile(e)
  <2>1. Written(e)' /\ Entry[e].type = "file"
    BY <1>1, <1>3, CatalogueGrows DEF ProcessFile
  <2> QED
    BY <2>1 DEF Recorded
<1>4. CASE EnterDirectory(e)
  <2>1. Entry[e].type = "dir"
    BY <1>4 DEF EnterDirectory
  <2> QED
    BY <2>1 DEF Recorded
<1>5. CASE SkipScanned(e) \/ SkipEntry(e) \/ PassOver(e) \/ AccessFails(e) \/ ProcessFileFails(e)
  <2>1. walk' = Without(e)
    BY <1>5 DEF SkipScanned, SkipEntry, PassOver, AccessFails, ProcessFileFails
  <2>2. Len(Without(e)) = Len(walk) /\ Len(walk) \in Nat
        /\ Len(Entering(Without(e), e)) = Len(Without(e)) + 1
    BY <1>1, WithoutIs, EnteringIs DEF DriveTypes, Busy
  <2>3. walk' # Entering(Without(e), e)
    BY <2>1, <2>2
  <2>4. ~LeaveDirectory
    BY DEF LeaveDirectory
  <2>5. RecordSymlink(e) \/ ProcessFile(e) \/ EnterDirectory(e)
    BY <2>3, <2>4 DEF Marks
  <2> QED
    BY <1>2, <1>3, <1>4, <2>5
<1> QED
  BY <1>2, <1>3, <1>4, <1>5 DEF Visit

\* What a step takes for scanned is recorded after it.
LEMMA MarkIsRecorded ==
  ASSUME DriveTypes, Control, Honest, [Next]_vars, Keeps, ~orphaned, NEW e \in Entries, Marks(e)
  PROVE  Recorded(e)'
<1>1. run.command = "scan"
  <2>1. Busy
    BY DEF Marks, LeaveDirectory
  <2> QED
    BY <2>1 DEF Marks, Control, Busy, DriveTypes, RunTypes, Commands
<1>2. CASE Busy /\ e \in Top.left /\ (RecordSymlink(e) \/ ProcessFile(e))
  <2>1. Visit(e)
    BY <1>2 DEF Visit
  <2> QED
    BY <1>1, <1>2, <2>1, VisitRecords
<1>3. CASE LeaveDirectory /\ e = Top.dir /\ e # Root
  <2>1. Len(walk) \in 1 .. Len(walk)
    BY <1>3, TopIsFrame DEF LeaveDirectory, Busy, DriveTypes
  <2>2. Recorded(e)
    BY <1>1, <1>3, <2>1 DEF Honest, Top
  <2> QED
    BY <2>2, RecordStays
<1> QED
  BY <1>2, <1>3 DEF Marks

\* What is open after a step of a scan was open before it or is entered.
LEMMA OpenedStep ==
  ASSUME DriveTypes, Control, [Next]_vars, run'.command = "scan", NEW i \in 1 .. Len(walk'),
         walk'[i].dir # Root
  PROVE  /\ run.command = "scan" /\ walk'[i].dir \in Entries
         /\ \/ i \in 1 .. Len(walk) /\ walk'[i].dir = walk[i].dir
            \/ Busy /\ \E e \in Top.left : /\ Visit(e) /\ walk' = Entering(Without(e), e)
                                           /\ i = Len(walk) + 1 /\ walk'[i].dir = e
<1>1. walk'[i].dir \in Entries
  <2>1. walk' \in Seq(Frame)
    BY TypesStep DEF DriveTypes
  <2>2. walk'[i] \in Frame
    BY <2>1
  <2> QED
    BY <2>2 DEF Frame
<1>2. \A j \in 1 .. 1 : j = 1
  OBVIOUS
<1>3. ASSUME walk' = Entering(<<>>, Root)
      PROVE  FALSE
  <2>1. 1 .. Len(walk') = 1 .. 1 /\ walk'[1].dir = Root
    BY <1>3, StartIs
  <2> QED
    BY <1>2, <2>1
<1>4. ASSUME NEW n \in BOOLEAN, NEW r \in BOOLEAN, NEW f \in BOOLEAN, NEW h \in BOOLEAN,
             StartScan(n, r, f, h)
      PROVE  FALSE
  <2>1. walk' = <<>> \/ walk' = Entering(<<>>, Root)
    BY <1>4 DEF StartScan
  <2>2. Len(<<>>) = 0
    OBVIOUS
  <2> QED
    BY <1>3, <2>1, <2>2
<1>5. ASSUME NEW h \in BOOLEAN, NEW x \in BOOLEAN, StartSurvey(h, x)
      PROVE  FALSE
  BY <1>3, <1>5 DEF StartSurvey
<1>6. ASSUME Busy, NEW e \in Top.left, Visit(e)
      PROVE  /\ run.command = "scan"
             /\ \/ i \in 1 .. Len(walk) /\ walk'[i].dir = walk[i].dir
                \/ walk' = Entering(Without(e), e) /\ i = Len(walk) + 1 /\ walk'[i].dir = e
  <2> DEFINE n == Len(walk)
             w == Without(e)
  <2>1. run' = run /\ e \in Entries /\ n \in Nat
    BY <1>6, VisitKeeps, StackIsTyped DEF Busy, DriveTypes
  <2>2. w \in Seq(Frame) /\ Len(w) = n /\ \A j \in 1 .. n : w[j].dir = walk[j].dir
    BY <1>6, WithoutIs DEF DriveTypes, Busy
  <2> HIDE DEF w
  <2>3. /\ Len(Entering(w, e)) = n + 1
        /\ \A j \in 1 .. n : Entering(w, e)[j] = w[j]
        /\ Entering(w, e)[n + 1].dir = e
    BY <2>1, <2>2, EnteringIs
  <2>4. walk' = w \/ walk' = Entering(w, e)
    BY <1>6 DEF Visit, SkipScanned, SkipEntry, RecordSymlink, EnterDirectory, PassOver, AccessFails, ProcessFile,
                ProcessFileFails, w
  <2>5. \A m \in Nat : \A j \in 1 .. m + 1 : j \in 1 .. m \/ j = m + 1
    OBVIOUS
  <2>6. i \in 1 .. n \/ (i = n + 1 /\ walk' = Entering(w, e))
    BY <2>1, <2>2, <2>3, <2>4, <2>5
  <2>7. i \in 1 .. n => walk'[i].dir = walk[i].dir
    BY <2>2, <2>3, <2>4
  <2> QED
    BY <2>1, <2>3, <2>6, <2>7 DEF w
<1>7. CASE LeaveDirectory
  <2>1. /\ run' = run /\ walk \in Seq(Frame) /\ walk # <<>>
        /\ walk' = SubSeq(walk, 1, Len(walk) - 1)
    BY <1>7 DEF LeaveDirectory, Busy, DriveTypes
  <2>2. Len(walk') = Len(walk) - 1 /\ walk'[i] = walk[i] /\ Len(walk) \in Nat
    BY <2>1, PoppedIs
  <2>3. i \in 1 .. Len(walk)
    BY <2>2
  <2> QED
    BY <1>1, <2>1, <2>2, <2>3
<1>8. CASE Save \/ SaveFails \/ FinalSave \/ MigrationCut \/ UNCHANGED vars
  <2>1. walk' = walk /\ (run'.command = run.command \/ run'.command = "idle")
    <3>1. SaveFails => walk' = walk /\ (run' = run \/ run'.command = "idle")
      BY EndIsTyped DEF SaveFails
    <3>2. Save \/ FinalSave \/ MigrationCut \/ UNCHANGED vars => walk' = walk /\ run' = run
      BY DEF Save, FinalSave, MigrationCut, vars, memory
    <3> QED
      BY <1>8, <3>1, <3>2
  <2>2. walk' = walk /\ run'.command = run.command
    BY <2>1
  <2> QED
    BY <1>1, <2>2
<1>9. CASE Finish \/ Interrupt \/ Kill \/ KillInAppend
  <2>1. run'.command = "idle"
    BY <1>9, RunEnds
  <2> QED
    BY <2>1
<1> QED
  BY <1>1, <1>4, <1>5, <1>6, <1>7, <1>8, <1>9 DEF Next

\* What is taken for scanned is recorded, in every step.
LEMMA HonestStep == DriveTypes /\ Control /\ Honest /\ [Next]_vars => Honest'
<1> SUFFICES ASSUME DriveTypes, Control, Honest, [Next]_vars, ~orphaned' PROVE Honest'
  BY DEF Honest
<1>1. ~orphaned
  BY Fates
<1>2. Marked \subseteq Entries
  BY ElementsAre DEF Marked, DriveTypes
<1>3. CASE Keeps
  <2>1. \A e \in Marked' : Recorded(e)'
    <3>1. \A e \in Marked : Recorded(e)'
      BY <1>1, <1>2, <1>3, RecordStays DEF Honest
    <3>2. \A e \in Entries : Marks(e) => Recorded(e)'
      BY <1>1, <1>3, MarkIsRecorded
    <3> QED
      BY <3>1, <3>2, MarkedStep
  <2>2. ASSUME run'.command = "scan", NEW i \in 1 .. Len(walk'), walk'[i].dir # Root
        PROVE  \E d \in Entries : d = walk'[i].dir /\ Recorded(d)'
    <3>1. PICK d \in Entries : d = walk'[i].dir
      BY <2>2, OpenedStep
    <3>2. CASE i \in 1 .. Len(walk) /\ walk'[i].dir = walk[i].dir
      <4>1. Recorded(d)
        BY <1>1, <2>2, <3>1, <3>2, OpenedStep DEF Honest
      <4> QED
        BY <1>3, <3>1, <4>1, RecordStays
    <3>3. CASE Busy /\ d \in Top.left /\ Visit(d) /\ walk' = Entering(Without(d), d)
      <4>1. Recorded(d)'
        BY <2>2, <3>3, OpenedStep, VisitRecords
      <4> QED
        BY <3>1, <4>1
    <3> QED
      BY <2>2, <3>1, <3>2, <3>3, OpenedStep
  <2> QED
    BY <2>1, <2>2 DEF Honest
<1>4. CASE Marked' = {} /\ \E n, r, f, h \in BOOLEAN : StartScan(n, r, f, h)
  <2>1. \A i \in 1 .. Len(walk') : run'.command = "scan" => walk'[i].dir = Root
    <3>1. run.command # "scan"
      BY <1>4 DEF StartScan
    <3> QED
      BY <3>1, OpenedStep
  <2> QED
    BY <1>4, <2>1 DEF Honest
<1> QED
  BY <1>3, <1>4, RecordsStay

-----------------------------------------------------------------------------
(* Archives are marked when their members are recorded.                    *)

\* Of an archive that every scan opens: in the log its members are recorded, and
\* while it is open they are recorded or still to come.
WholeArchives ==
    ~orphaned /\ stops["io"] = 0 =>
        /\ \A a \in Marked \ LegacyPaths :
             AlwaysOpened(a) => \A m \in Members(a) : Written(m)
        /\ run.command = "scan" =>
             \A i \in 1 .. Len(walk) : walk[i].dir # Root /\ AlwaysOpened(walk[i].dir) =>
                 \A m \in Members(walk[i].dir) : Written(m) \/ m \in walk[i].left

\* Such an archive is opened when the walk comes to it.
LEMMA IsOpened ==
  ASSUME DriveTypes, Control, Busy, run.command = "scan", NEW V, NEW D, Frames(V, D),
         NEW a \in Top.left, AlwaysOpened(a)
  PROVE  Opens(a) /\ Extracted(a)
<1>1. /\ a \in Entries /\ a \notin V
      /\ \A i \in 1 .. Len(walk) : Inside(walk[i].dir) => InArchive[a]
  BY NextEntry
<1>2. ~IsHardlinkDup(a)
  <2> SUFFICES ASSUME Entry[a].inode \in inodes \ {0} PROVE FALSE
    BY DEF IsHardlinkDup
  <2>1. PICK x \in V : Entry[x].inode = Entry[a].inode
    BY DEF Frames, Busy
  <2>2. x \in Entries \ {a}
    BY <1>1 DEF Frames
  <2> QED
    BY <2>1, <2>2 DEF AlwaysOpened
<1>3. Depth = 0
  <2>1. DOMAIN walk = 1 .. Len(walk)
    BY DEF DriveTypes
  <2>2. {i \in DOMAIN walk : walk[i].dir # Root /\ IsArchive(walk[i].dir)} = {}
    BY <1>1, <2>1 DEF AlwaysOpened, Inside
  <2> QED
    BY <2>2, FS_EmptySet DEF Depth
<1>4. run.depth = MaxDepth /\ MaxDepth \in Nat
  BY BoundAssumption DEF Control
<1> QED
  BY <1>2, <1>3, <1>4 DEF AlwaysOpened, Opens, Extracted

\* A member that a scan comes to is recorded.
LEMMA MemberIsRecorded ==
  ASSUME DriveTypes, Control, Busy, run.command = "scan", [Next]_vars,
         NEW a \in Entries, IsArchive(a), NEW m \in Members(a), m \in Top.left, Visit(m),
         stops'["io"] = 0
  PROVE  Written(m)'
<1>1. /\ m \in Entries /\ Entry[m].parent = a /\ Entry[m].type = "file"
      /\ ~Entry[m].hidden /\ "scan" \notin Entry[m].excluded
  BY DEF Members, Children
<1>2. InArchive[m]
  BY <1>1, EntryAssumption, InArchiveIs
<1>3. ~Mishap("io")
  BY UntouchedBefore
<1>4. ProcessFile(m)
  BY <1>1, <1>2, <1>3 DEF Visit, SkipScanned, Scanned, SkipEntry, IsExcluded, ShouldSkipPath, RecordSymlink,
                          EnterDirectory, PassOver, AccessFails, ProcessFileFails
<1> QED
  BY <1>1, <1>4, CatalogueGrows DEF ProcessFile

\* An archive that a step takes for scanned has its members recorded.
LEMMA MarkIsWhole ==
  ASSUME DriveTypes, Control, WholeArchives, NEW V, NEW D, Frames(V, D), [Next]_vars,
         ~orphaned, stops["io"] = 0, Keeps, NEW a \in Entries, Marks(a), AlwaysOpened(a),
         NEW m \in Members(a)
  PROVE  Written(m)'
<1>1. run.command = "scan"
  <2>1. Busy
    BY DEF Marks, LeaveDirectory
  <2> QED
    BY <2>1 DEF Marks, Control, Busy, DriveTypes, RunTypes, Commands
<1>2. CASE Busy /\ a \in Top.left /\ (RecordSymlink(a) \/ (ProcessFile(a) /\ ~(Opens(a) /\ Extracted(a))))
  <2>1. ~RecordSymlink(a)
    BY DEF RecordSymlink, AlwaysOpened, IsArchive
  <2> QED
    BY <1>1, <1>2, <2>1, IsOpened
<1>3. CASE LeaveDirectory /\ a = Top.dir /\ a # Root
  <2>1. Len(walk) \in 1 .. Len(walk) /\ Top.left = {}
    BY <1>3, TopIsFrame DEF LeaveDirectory, Busy, DriveTypes
  <2>2. Written(m)
    BY <1>1, <1>3, <2>1 DEF WholeArchives, Top
  <2>3. m \in Entries
    BY DEF Members, Children
  <2> QED
    BY <2>2, <2>3, RecordStays
<1> QED
  BY <1>2, <1>3 DEF Marks

\* What a directory that stays open has yet to list only shrinks by the entry
\* that is visited.
LEMMA LeftStep ==
  ASSUME DriveTypes, Control, [Next]_vars, run'.command = "scan", NEW i \in 1 .. Len(walk'),
         walk'[i].dir # Root
  PROVE  \/ /\ i \in 1 .. Len(walk) /\ walk'[i].dir = walk[i].dir
            /\ \A m \in walk[i].left : m \in walk'[i].left \/ (Busy /\ m \in Top.left /\ Visit(m))
         \/ walk'[i].left = Children(walk'[i].dir)
<1>1. CASE Busy /\ \E e \in Top.left : Visit(e)
  <2>1. PICK e \in Top.left : Visit(e)
    BY <1>1
  <2> DEFINE n == Len(walk)
             w == Without(e)
  <2>2. e \in Entries /\ n \in Nat
    BY <1>1, StackIsTyped DEF Busy, DriveTypes
  <2>3. /\ w \in Seq(Frame) /\ Len(w) = n
        /\ \A j \in 1 .. n : /\ w[j].dir = walk[j].dir
                             /\ w[j].left = IF j = n THEN walk[j].left \ {e} ELSE walk[j].left
    BY <1>1, WithoutIs DEF DriveTypes, Busy
  <2>4. walk' = w \/ walk' = Entering(w, e)
    BY <2>1 DEF Visit, SkipScanned, SkipEntry, RecordSymlink, EnterDirectory, PassOver, AccessFails, ProcessFile,
                ProcessFileFails
  <2> HIDE DEF w
  <2>5. /\ Len(Entering(w, e)) = n + 1
        /\ \A j \in 1 .. n : Entering(w, e)[j] = w[j]
        /\ Entering(w, e)[n + 1].dir = e /\ Entering(w, e)[n + 1].left = Children(e)
    BY <2>2, <2>3, EnteringIs
  <2>6. \A m \in Nat : \A j \in 1 .. m + 1 : j \in 1 .. m \/ j = m + 1
    OBVIOUS
  <2>7. i \in 1 .. n \/ (i = n + 1 /\ walk' = Entering(w, e))
    BY <2>2, <2>3, <2>4, <2>5, <2>6
  <2>8. i \in 1 .. n => walk'[i].dir = walk[i].dir /\ walk[i].left \subseteq walk'[i].left \cup {e}
    BY <2>3, <2>4, <2>5
  <2> QED
    BY <1>1, <2>1, <2>5, <2>7, <2>8
<1>2. CASE ~(Busy /\ \E e \in Top.left : Visit(e))
  <2>1. i \in 1 .. Len(walk)
    BY <1>2, OpenedStep
  <2>2. CASE LeaveDirectory
    <3>1. walk' = SubSeq(walk, 1, Len(walk) - 1) /\ walk \in Seq(Frame) /\ walk # <<>>
      BY <2>2 DEF LeaveDirectory, Busy, DriveTypes
    <3>2. walk'[i] = walk[i]
      BY <3>1, PoppedIs
    <3> QED
      BY <2>1, <3>2
  <2>3. CASE ~LeaveDirectory
    <3>1. walk' = walk
      <4>1. walk' # <<>> /\ run.command = "scan" /\ walk' # Entering(<<>>, Root)
        <5>1. \A j \in 1 .. 1 : j = 1
          OBVIOUS
        <5>2. walk' = Entering(<<>>, Root) => 1 .. Len(walk') = 1 .. 1 /\ walk'[1].dir = Root
          BY StartIs
        <5>3. walk' = <<>> => Len(walk') = 0
          OBVIOUS
        <5> QED
          BY <5>1, <5>2, <5>3, OpenedStep
      <4>2. ~ \E n, r, f, h \in BOOLEAN : StartScan(n, r, f, h)
        BY <4>1 DEF StartScan
      <4>3. ~ \E h, x \in BOOLEAN : StartSurvey(h, x)
        BY <4>1 DEF StartSurvey
      <4>4. ~Interrupt /\ ~Kill /\ ~KillInAppend
        BY <4>1 DEF Interrupt, Kill, KillInAppend
      <4> QED
        BY <1>2, <2>3, <4>2, <4>3, <4>4
           DEF Next, Save, SaveFails, FinalSave, Finish, MigrationCut, vars, memory
    <3> QED
      BY <2>1, <3>1
  <2> QED
    BY <2>2, <2>3
<1> QED
  BY <1>1, <1>2

\* The members of an open archive are recorded or still to come, in every step.
LEMMA WholeArchivesStep ==
  ASSUME DriveTypes, Control, WholeArchives, NEW V, NEW D, Frames(V, D), [Next]_vars
  PROVE  WholeArchives'
<1> SUFFICES ASSUME ~orphaned', stops'["io"] = 0 PROVE WholeArchives'
  BY DEF WholeArchives
<1>1. ~orphaned /\ stops["io"] = 0
  BY Fates, UntouchedBefore
<1>2. Marked \subseteq Entries /\ \A a, m : m \in Members(a) => m \in Entries /\ m \in Children(a)
  BY ElementsAre DEF Marked, DriveTypes, Members, Children
<1>3. CASE Keeps
  <2>1. ASSUME NEW a \in Entries, a \in Marked', a \notin LegacyPaths, AlwaysOpened(a),
               NEW m \in Members(a)
        PROVE  Written(m)'
    <3>1. a \in Marked \/ Marks(a)
      BY <2>1, MarkedStep
    <3>2. CASE a \in Marked
      BY <1>1, <1>2, <1>3, <2>1, <3>2, RecordStays DEF WholeArchives
    <3>3. CASE Marks(a)
      BY <1>1, <1>3, <2>1, <3>3, MarkIsWhole
    <3> QED
      BY <3>1, <3>2, <3>3
  <2>2. Marked' \subseteq Entries
    BY <1>2, MarkedStep
  <2>3. ASSUME run'.command = "scan", NEW i \in 1 .. Len(walk'), NEW d \in Entries,
               walk'[i].dir = d, AlwaysOpened(d), NEW m \in Members(d)
        PROVE  Written(m)' \/ m \in walk'[i].left
    <3>1. d # Root /\ m \in Entries /\ m \in Children(d) /\ run.command = "scan"
      BY <1>2, <2>3, EntryAssumption, OpenedStep
    <3>2. CASE walk'[i].left = Children(d)
      BY <3>1, <3>2
    <3>3. CASE /\ i \in 1 .. Len(walk) /\ walk'[i].dir = walk[i].dir
               /\ \A x \in walk[i].left : x \in walk'[i].left \/ (Busy /\ x \in Top.left /\ Visit(x))
      <4>1. Written(m) \/ m \in walk[i].left
        BY <1>1, <2>3, <3>1, <3>3 DEF WholeArchives
      <4>2. Written(m) => Written(m)'
        BY <1>3, <3>1, RecordStays
      <4>3. Busy /\ m \in Top.left /\ Visit(m) => Written(m)'
        BY <2>3, <3>1, MemberIsRecorded DEF AlwaysOpened
      <4> QED
        BY <3>3, <4>1, <4>2, <4>3
    <3> QED
      BY <2>3, <3>1, <3>2, <3>3, LeftStep
  <2>4. \A i \in 1 .. Len(walk') : run'.command = "scan" /\ walk'[i].dir # Root =>
          walk'[i].dir \in Entries
    BY OpenedStep
  <2>5. \A a : AlwaysOpened(a)' <=> AlwaysOpened(a)
    BY DEF AlwaysOpened, IsArchive, IsCorrupt
  <2> QED
    BY <2>1, <2>2, <2>3, <2>4, <2>5 DEF WholeArchives
<1>4. CASE Marked' = {} /\ \E n, r, f, h \in BOOLEAN : StartScan(n, r, f, h)
  <2>1. \A i \in 1 .. Len(walk') : run'.command = "scan" => walk'[i].dir = Root
    <3>1. run.command # "scan"
      BY <1>4 DEF StartScan
    <3> QED
      BY <3>1, OpenedStep
  <2> QED
    BY <1>4, <2>1 DEF WholeArchives
<1> QED
  BY <1>3, <1>4, RecordsStay

-----------------------------------------------------------------------------
(* A walk without errors covers the drive.                                 *)

\* A scan without errors has recorded what it came to, and entered the
\* directories, except for what it is told to pass over.
Own(e) == Entry[e].type \in {"file", "link"} => InOwn(e) \/ e \in buffer
ScanCovers(V, D) ==
    (run.command = "scan" \/ outcome = "complete") /\ stats.errors = 0 =>
        \A e \in V : "scan" \notin Entry[e].excluded /\ ~ShouldSkipPath(e) =>
            /\ Entry[e].type = "dir" => e \in D
            /\ ~run.resume => Own(e)
            /\ run.resume /\ ~orphaned => Recorded(e)

\* A survey that has nothing to disclose has entered every directory and opened
\* every archive it came to, and has counted every GNSS file.
NothingMissed == /\ stats.errors = 0 /\ stats.skipped = 0 /\ stats.excluded = 0
                 /\ stats.corrupt = 0 /\ stats.dups = 0 /\ stats.seen = stats.extracted
SurveyCovers(V, D) ==
    run.command = "survey" \/ outcome = "surveyed" =>
        /\ stats.seen >= stats.extracted
        /\ run.hidden => stats.skipped = 0
        /\ NothingMissed => \A e \in V :
             /\ Entry[e].type = "dir" \/ IsArchive(e) => e \in D
             /\ Entry[e].gnss => stats.gnss >= 1

\* The counters only grow while a walk goes on.
Grows(s, t) ==
    /\ t.errors = 0 => s.errors = 0
    /\ t.skipped = 0 => s.skipped = 0
    /\ t.excluded = 0 => s.excluded = 0
    /\ t.corrupt = 0 => s.corrupt = 0
    /\ t.dups = 0 => s.dups = 0
    /\ s.gnss >= 1 => t.gnss >= 1
    /\ s.seen >= s.extracted => t.seen >= t.extracted
    /\ s.seen >= s.extracted /\ t.seen = t.extracted => s.seen = s.extracted

\* The ways in which the counters of a walk change make none smaller.
LEMMA Growing ==
  ASSUME DriveTypes
  PROVE  /\ Grows(stats, stats)
         /\ Grows(stats, [stats EXCEPT !.errors = @ + 1])
         /\ Grows(stats, [stats EXCEPT !.skipped = @ + 1])
         /\ Grows(stats, [stats EXCEPT !.excluded = @ + 1])
         /\ Grows(stats, [stats EXCEPT !.links = @ + 1])
<1>1. stats \in Counters
  BY DEF DriveTypes
<1>2. \A n \in Nat : n + 1 # 0 /\ n + 1 >= n /\ n >= n
  OBVIOUS
<1> QED
  BY <1>1, <1>2 DEF Grows, Counters

\* Visiting an entry makes no counter smaller.
LEMMA VisitGrows ==
  ASSUME DriveTypes, Busy, NEW e \in Top.left, Visit(e)
  PROVE  Grows(stats, stats')
<1>1. e \in Entries
  BY StackIsTyped DEF Busy
<1>2. /\ stats.errors \in Nat /\ stats.corrupt \in Nat /\ stats.gnss \in Nat /\ stats.dups \in Nat
      /\ stats.seen \in Nat /\ stats.extracted \in Nat
  BY DEF DriveTypes, Counters
<1>3. CASE ProcessFile(e)
  <2>1. /\ stats'.errors = stats.errors /\ stats'.skipped = stats.skipped
        /\ stats'.excluded = stats.excluded
        /\ stats'.corrupt = stats.corrupt + IF IsCorrupt(e) THEN 1 ELSE 0
        /\ stats'.gnss = stats.gnss + IF IsGnss(e) THEN 1 ELSE 0
        /\ stats'.dups = stats.dups + IF IsHardlinkDup(e) THEN 1 ELSE 0
        /\ stats'.seen = stats.seen + IF Opens(e) THEN 1 ELSE 0
        /\ stats'.extracted = stats.extracted + IF Opens(e) /\ Extracted(e) THEN 1 ELSE 0
    BY <1>1, <1>3, ProcessCounts
  <2>2. stats'.corrupt = 0 => stats.corrupt = 0
    BY <1>2, <2>1
  <2>3. stats.gnss >= 1 => stats'.gnss >= 1
    BY <1>2, <2>1
  <2>4. stats'.dups = 0 => stats.dups = 0
    BY <1>2, <2>1
  <2>5. /\ stats.seen >= stats.extracted => stats'.seen >= stats'.extracted
        /\ stats.seen >= stats.extracted /\ stats'.seen = stats'.extracted
           => stats.seen = stats.extracted
    BY <1>2, <2>1
  <2> QED
    BY <2>1, <2>2, <2>3, <2>4, <2>5 DEF Grows
<1>4. CASE ProcessFileFails(e)
  <2>1. /\ stats'.errors = stats.errors + 1
        /\ stats'.dups = stats.dups + IF IsHardlinkDup(e) THEN 1 ELSE 0
        /\ stats'.skipped = stats.skipped /\ stats'.excluded = stats.excluded
        /\ stats'.corrupt = stats.corrupt /\ stats'.gnss = stats.gnss
        /\ stats'.seen = stats.seen /\ stats'.extracted = stats.extracted
    BY <1>1, <1>4, FailureCounts DEF ProcessFileFails
  <2>2. stats'.dups = 0 => stats.dups = 0
    BY <1>2, <2>1
  <2> QED
    BY <1>2, <2>1, <2>2 DEF Grows
<1>5. CASE SkipScanned(e) \/ SkipEntry(e) \/ RecordSymlink(e) \/ EnterDirectory(e) \/ PassOver(e)
          \/ AccessFails(e)
  <2>1. stats' \in {stats, [stats EXCEPT !.errors = @ + 1], [stats EXCEPT !.skipped = @ + 1],
                    [stats EXCEPT !.excluded = @ + 1], [stats EXCEPT !.links = @ + 1]}
    BY <1>5 DEF SkipScanned, SkipEntry, RecordSymlink, EnterDirectory, PassOver, AccessFails
  <2> QED
    BY <2>1, Growing
<1> QED
  BY <1>3, <1>4, <1>5 DEF Visit

\* What a scan does with the entry it comes to, unless it counts an error.
LEMMA ScanFinds ==
  ASSUME DriveTypes, Control, FilesAreMarked, Honest, Busy, run.command = "scan", [Next]_vars, Keeps,
         NEW e \in Top.left, Visit(e), stats'.errors = 0,
         "scan" \notin Entry[e].excluded, ~ShouldSkipPath(e)
  PROVE  /\ Entry[e].type = "dir" => walk' = Entering(Without(e), e)
         /\ ~run.resume => Own(e)'
         /\ run.resume /\ ~orphaned => Recorded(e)'
<1>1. e \in Entries
  BY StackIsTyped DEF Busy
<1>2. stats \in Counters /\ [stats EXCEPT !.errors = @ + 1].errors # 0
  BY DEF DriveTypes, Counters
<1>3. CASE SkipScanned(e)
  <2>1. e \in Marked /\ run.resume
    BY <1>3 DEF SkipScanned, Scanned, Marked
  <2>2. Entry[e].type # "dir" /\ (~orphaned => Recorded(e))
    BY <2>1 DEF FilesAreMarked, Honest
  <2> QED
    BY <1>1, <2>1, <2>2, RecordStays
<1>4. CASE SkipEntry(e)
  BY <1>4 DEF SkipEntry, IsExcluded
<1>5. CASE RecordSymlink(e)
  <2>1. Entry[e].type = "link" /\ e \in buffer'
    BY <1>5 DEF RecordSymlink
  <2> QED
    BY <1>5, <2>1, VisitRecords DEF Own
<1>6. CASE EnterDirectory(e)
  <2>1. walk' = Entering(Without(e), e) /\ Entry[e].type = "dir"
    BY <1>2, <1>6 DEF EnterDirectory
  <2> QED
    BY <1>6, <2>1, VisitRecords DEF Own
<1>7. CASE ProcessFile(e)
  <2>1. Entry[e].type = "file" /\ Flushed(e)
    BY <1>7 DEF ProcessFile
  <2>2. InOwn(e)'
    BY <1>1, <2>1, OwnGrows, VisitKeeps
  <2> QED
    BY <1>7, <2>1, <2>2, VisitRecords DEF Own
<1>8. CASE PassOver(e)
  BY <1>8 DEF PassOver, Own, Recorded
<1>9. CASE AccessFails(e)
  BY <1>2, <1>9 DEF AccessFails
<1>10. CASE ProcessFileFails(e)
  <2>1. stats'.errors = stats.errors + 1 /\ stats.errors \in Nat
    BY <1>1, <1>2, <1>10, FailureCounts DEF ProcessFileFails, Counters
  <2> QED
    BY <2>1
<1> QED
  BY <1>3, <1>4, <1>5, <1>6, <1>7, <1>8, <1>9, <1>10 DEF Visit

\* What a survey does with the entry it comes to, unless it will have something
\* to disclose.
LEMMA SurveyFinds ==
  ASSUME DriveTypes, Control, Busy, run.command = "survey", NEW V, NEW D, Frames(V, D),
         stats.seen >= stats.extracted, NEW e \in Top.left, Visit(e), NothingMissed'
  PROVE  /\ Entry[e].type = "dir" \/ IsArchive(e) => walk' = Entering(Without(e), e)
         /\ Entry[e].gnss => stats'.gnss >= 1
<1>1. e \in Entries /\ e \notin V /\ (Entry[e].gnss => Entry[e].type = "file")
  BY NextEntry, TreeAssumption
<1>2. /\ stats \in Counters /\ [stats EXCEPT !.errors = @ + 1].errors # 0
      /\ [stats EXCEPT !.skipped = @ + 1].skipped # 0
      /\ [stats EXCEPT !.excluded = @ + 1].excluded # 0
  BY DEF DriveTypes, Counters
<1>3. stats'.errors = 0 /\ stats'.skipped = 0 /\ stats'.excluded = 0 /\ stats'.corrupt = 0
      /\ stats'.dups = 0 /\ stats'.seen = stats'.extracted
  BY DEF NothingMissed
<1>4. ~SkipScanned(e)
  BY DEF SkipScanned, Scanned, Control
<1>5. ~SkipEntry(e)
  BY <1>2, <1>3 DEF SkipEntry
<1>6. CASE RecordSymlink(e)
  BY <1>1, <1>6 DEF RecordSymlink, IsArchive
<1>7. CASE EnterDirectory(e)
  <2>1. walk' = Entering(Without(e), e) /\ Entry[e].type = "dir"
    BY <1>2, <1>3, <1>7 DEF EnterDirectory
  <2> QED
    BY <1>1, <2>1
<1>8. CASE ProcessFile(e)
  <2>1. /\ stats'.corrupt = stats.corrupt + IF IsCorrupt(e) THEN 1 ELSE 0
        /\ stats'.gnss = stats.gnss + IF IsGnss(e) THEN 1 ELSE 0
        /\ stats'.dups = stats.dups + IF IsHardlinkDup(e) THEN 1 ELSE 0
        /\ stats'.seen = stats.seen + IF Opens(e) THEN 1 ELSE 0
        /\ stats'.extracted = stats.extracted + IF Opens(e) /\ Extracted(e) THEN 1 ELSE 0
    BY <1>1, <1>8, ProcessCounts
  <2>3. Entry[e].type = "file"
    BY <1>8 DEF ProcessFile
  <2>5. ~IsCorrupt(e)
    <3>1. \A n \in Nat : n + 1 # 0
      OBVIOUS
    <3>2. stats.corrupt \in Nat
      BY <1>2 DEF Counters
    <3> QED
      BY <1>3, <2>1, <3>1, <3>2
  <2>6. Entry[e].gnss => stats'.gnss >= 1
    <3>1. \A n \in Nat : n + 1 >= 1
      OBVIOUS
    <3>2. stats.gnss \in Nat
      BY <1>2 DEF Counters
    <3> QED
      BY <2>1, <2>5, <3>1, <3>2 DEF IsGnss
  <2>7. ~IsHardlinkDup(e)
    <3>1. \A n \in Nat : n + 1 # 0
      OBVIOUS
    <3>2. stats.dups \in Nat
      BY <1>2 DEF Counters
    <3> QED
      BY <1>3, <2>1, <3>1, <3>2
  <2>8. IsArchive(e) => Opens(e)
    BY <2>5, <2>7 DEF Opens
  <2>9. CASE Opens(e) /\ ~Extracted(e)
    <3>2. stats.seen \in Nat /\ stats.extracted \in Nat
      BY <1>2 DEF Counters
    <3>3. stats'.seen = stats.seen + 1 /\ stats'.extracted = stats.extracted
      BY <2>1, <2>9, <3>2
    <3>4. \A m, n \in Nat : m >= n => m + 1 # n
      OBVIOUS
    <3> QED
      BY <1>3, <3>2, <3>3, <3>4
  <2>10. CASE ~(Opens(e) /\ ~Extracted(e))
    <3>1. IsArchive(e) => walk' = Entering(Without(e), e)
      BY <1>8, <2>8, <2>10 DEF ProcessFile
    <3> QED
      BY <2>3, <2>6, <3>1
  <2> QED
    BY <2>9, <2>10
<1>9. CASE PassOver(e)
  BY <1>1, <1>9 DEF PassOver, IsArchive
<1>10. CASE AccessFails(e) \/ ProcessFileFails(e)
  BY <1>2, <1>3, <1>10 DEF AccessFails, ProcessFileFails
<1> QED
  BY <1>4, <1>5, <1>6, <1>7, <1>8, <1>9, <1>10 DEF Visit

\* A scan that visits an entry covers one more.
LEMMA ScanCoversVisit ==
  ASSUME DriveTypes, Control, FilesAreMarked, Honest, [Next]_vars, Keeps, OwnKeeps, Busy,
         NEW V, NEW D, Frames(V, D), ScanCovers(V, D), NEW e \in Top.left, Visit(e),
         NEW E, D \subseteq E, walk' = Entering(Without(e), e) => e \in E
  PROVE  ScanCovers(V \cup {e}, E)'
<1> SUFFICES ASSUME run'.command = "scan" \/ outcome' = "complete", stats'.errors = 0,
                    NEW x \in V \cup {e}, "scan" \notin Entry[x].excluded, ~ShouldSkipPath(x)'
             PROVE  /\ Entry[x].type = "dir" => x \in E
                    /\ ~run'.resume => Own(x)'
                    /\ run'.resume /\ ~orphaned' => Recorded(x)'
  BY DEF ScanCovers
<1>1. UNCHANGED <<run, outcome, orphaned>>
  BY VisitKeeps
<1>2. run.command = "scan"
  BY <1>1 DEF Control, Busy
<1>3. stats.errors = 0
  BY VisitGrows DEF Grows
<1>4. ~ShouldSkipPath(x)
  BY <1>1 DEF ShouldSkipPath
<1>5. CASE x = e
  BY <1>1, <1>2, <1>4, <1>5, ScanFinds
<1>6. CASE x \in V
  <2>1. /\ Entry[x].type = "dir" => x \in D
        /\ ~run.resume => Own(x)
        /\ run.resume /\ ~orphaned => Recorded(x)
    BY <1>2, <1>3, <1>4, <1>6 DEF ScanCovers
  <2>2. x \in Entries
    BY <1>6 DEF Frames
  <2>3. Own(x) => Own(x)'
    BY <2>2 DEF Own, OwnKeeps
  <2> QED
    BY <1>1, <2>1, <2>2, <2>3, RecordStays
<1> QED
  BY <1>5, <1>6

\* A survey that visits an entry covers one more.
LEMMA SurveyCoversVisit ==
  ASSUME DriveTypes, Control, Busy,
         NEW V, NEW D, Frames(V, D), SurveyCovers(V, D), NEW e \in Top.left, Visit(e),
         NEW E, D \subseteq E, walk' = Entering(Without(e), e) => e \in E
  PROVE  SurveyCovers(V \cup {e}, E)'
<1> SUFFICES ASSUME run'.command = "survey" \/ outcome' = "surveyed" PROVE SurveyCovers(V \cup {e}, E)'
  BY DEF SurveyCovers
<1>1. UNCHANGED <<run, outcome>>
  BY VisitKeeps
<1>2. run.command = "survey"
  BY <1>1 DEF Control, Busy
<1>3. Grows(stats, stats')
  BY VisitGrows
<1>4. stats.seen >= stats.extracted /\ (run.hidden => stats.skipped = 0)
  BY <1>2 DEF SurveyCovers
<1>5. stats'.seen >= stats'.extracted
  BY <1>3, <1>4 DEF Grows
<1>6. run'.hidden => stats'.skipped = 0
  <2> SUFFICES ASSUME run.hidden PROVE stats'.skipped = 0
    BY <1>1
  <2>1. CASE SkipEntry(e)
    <3>1. IsExcluded(e)
      BY <2>1 DEF SkipEntry, ShouldSkipPath
    <3>2. stats' = [stats EXCEPT !.excluded = @ + 1] /\ stats \in Counters
      BY <2>1, <3>1 DEF SkipEntry, DriveTypes
    <3>3. stats'.skipped = stats.skipped
      BY <3>2 DEF Counters
    <3> QED
      BY <1>4, <3>3
  <2>2. CASE SkipScanned(e) \/ RecordSymlink(e) \/ EnterDirectory(e) \/ PassOver(e)
          \/ AccessFails(e)
    <3>1. stats' \in {stats, [stats EXCEPT !.errors = @ + 1], [stats EXCEPT !.links = @ + 1]}
      BY <2>2 DEF SkipScanned, RecordSymlink, EnterDirectory, PassOver, AccessFails
    <3>2. stats'.skipped = stats.skipped
      BY <3>1 DEF DriveTypes, Counters
    <3> QED
      BY <1>4, <3>2
  <2>4. ~ProcessFileFails(e)
    BY <1>2 DEF ProcessFileFails
  <2>3. CASE ProcessFile(e)
    <3>1. stats'.skipped = stats.skipped
      BY <2>3, StackIsTyped, ProcessCounts DEF Busy
    <3> QED
      BY <1>4, <3>1
  <2> QED
    BY <2>1, <2>2, <2>3, <2>4 DEF Visit
<1>7. ASSUME NothingMissed', NEW x \in V \cup {e}
      PROVE  /\ Entry[x].type = "dir" \/ IsArchive(x) => x \in E
             /\ Entry[x].gnss => stats'.gnss >= 1
  <2>1. NothingMissed
    BY <1>3, <1>4, <1>7 DEF NothingMissed, Grows
  <2>2. CASE x = e
    BY <1>2, <1>4, <1>7, <2>2, SurveyFinds
  <2>3. CASE x \in V
    BY <1>2, <1>3, <2>1, <2>3 DEF SurveyCovers, Grows
  <2> QED
    BY <2>2, <2>3
<1>8. \A x : IsArchive(x)' <=> IsArchive(x)
  BY DEF IsArchive
<1> QED
  BY <1>5, <1>6, <1>7, <1>8 DEF SurveyCovers

Covers(V, D) == Frames(V, D) /\ ScanCovers(V, D) /\ SurveyCovers(V, D)
Coverage == \E V, D \in SUBSET Entries : Covers(V, D)

\* The walk rests, a directory is left, or the command is over.
LEMMA CoversRest ==
  ASSUME DriveTypes, [Next]_vars, Keeps, OwnKeeps, NEW V, NEW D, Covers(V, D), Frames(V, D)',
         run'.hidden = run.hidden, run'.resume = run.resume, Grows(stats, stats'), stats'.skipped = stats.skipped,
         run'.command = "scan" \/ outcome' = "complete" => run.command = "scan" \/ outcome = "complete",
         run'.command = "survey" \/ outcome' = "surveyed" => run.command = "survey" \/ outcome = "surveyed"
  PROVE  Covers(V, D)'
<1>3. ScanCovers(V, D)'
  <2> SUFFICES ASSUME run'.command = "scan" \/ outcome' = "complete", stats'.errors = 0,
                      NEW e \in V, "scan" \notin Entry[e].excluded, ~ShouldSkipPath(e)'
               PROVE  /\ Entry[e].type = "dir" => e \in D
                      /\ ~run'.resume => Own(e)'
                      /\ run'.resume /\ ~orphaned' => Recorded(e)'
    BY DEF ScanCovers
  <2>1. ~ShouldSkipPath(e) /\ stats.errors = 0 /\ (~orphaned' => ~orphaned)
    BY Fates DEF ShouldSkipPath, Grows
  <2>2. /\ Entry[e].type = "dir" => e \in D
        /\ ~run.resume => Own(e)
        /\ run.resume /\ ~orphaned => Recorded(e)
    BY <2>1 DEF Covers, ScanCovers
  <2>3. e \in Entries
    BY DEF Covers, Frames
  <2>4. Own(e) => Own(e)'
    BY <2>3 DEF Own, OwnKeeps
  <2> QED
    BY <2>1, <2>2, <2>3, <2>4, RecordStays
<1>4. SurveyCovers(V, D)'
  <2> SUFFICES ASSUME run.command = "survey" \/ outcome = "surveyed" PROVE SurveyCovers(V, D)'
    BY DEF SurveyCovers
  <2>1. SurveyCovers(V, D)
    BY DEF Covers
  <2>2. /\ stats.seen >= stats.extracted
        /\ run.hidden => stats.skipped = 0
        /\ NothingMissed => \A e \in V :
             /\ Entry[e].type = "dir" \/ IsArchive(e) => e \in D
             /\ Entry[e].gnss => stats.gnss >= 1
    BY <2>1 DEF SurveyCovers
  <2>3. stats'.seen >= stats'.extracted /\ (run'.hidden => stats'.skipped = 0)
    BY <2>2 DEF Grows
  <2>4. NothingMissed' => NothingMissed
    BY <2>2 DEF NothingMissed, Grows
  <2>5. stats.gnss >= 1 => stats'.gnss >= 1
    BY DEF Grows
  <2>6. \A x : IsArchive(x)' <=> IsArchive(x)
    BY DEF IsArchive
  <2> QED
    BY <2>2, <2>3, <2>4, <2>5, <2>6 DEF SurveyCovers
<1> QED
  BY <1>3, <1>4 DEF Covers

\* A walk begins, or ends without an answer.
LEMMA CoversNothing ==
  ASSUME Frames({}, {})', stats' \in Counters,
         run'.command = "survey" \/ outcome' = "surveyed" => stats' = NoStats
  PROVE  Covers({}, {})'
<1>1. ScanCovers({}, {})'
  BY DEF ScanCovers
<1>2. NoStats.seen = 0 /\ NoStats.extracted = 0 /\ NoStats.skipped = 0 /\ 0 >= 0
  BY DEF NoStats
<1>3. SurveyCovers({}, {})'
  BY <1>2 DEF SurveyCovers
<1> QED
  BY <1>1, <1>3 DEF Covers

\* In every step the sets of what was come to and of what was listed can be extended.
LEMMA CoverageStep ==
  DriveTypes /\ Control /\ FilesAreMarked /\ Honest /\ Coverage /\ [Next]_vars => Coverage'
<1> SUFFICES ASSUME DriveTypes, Control, FilesAreMarked, Honest, [Next]_vars,
                    NEW V \in SUBSET Entries, NEW D \in SUBSET Entries, Covers(V, D)
             PROVE  Coverage'
  BY DEF Coverage
<1> DEFINE Nothing == Covers({}, {})'
           Rest == Covers(V, D)'
<1>1. Nothing \/ Rest => Coverage'
  BY DEF Coverage
<1>2. Frames(V, D) /\ ScanCovers(V, D) /\ SurveyCovers(V, D)
  BY DEF Covers
<1>3. stats' \in Counters /\ DriveTypes'
  BY TypesStep DEF DriveTypes
<1>4. ASSUME NEW named \in BOOLEAN, NEW resume \in BOOLEAN, NEW force \in BOOLEAN,
             NEW hidden \in BOOLEAN, StartScan(named, resume, force, hidden)
      PROVE  Nothing
  <2> DEFINE refused == named /\ output /\ ~(Loaded(resume) # {}) /\ ~force
  <2>1. /\ run.command = "idle" /\ inodes' = {}
        /\ outcome' = (IF refused THEN "refused" ELSE "running")
        /\ run' = IF refused THEN run
                  ELSE [command |-> "scan", named |-> named, resume |-> resume,
                       hidden |-> hidden, depth |-> MaxDepth]
        /\ walk' = (IF refused THEN <<>> ELSE Entering(<<>>, Root))
    BY <1>4 DEF StartScan
  <2>2. run'.command # "survey" /\ outcome' # "surveyed"
    BY <2>1
  <2>3. CASE refused
    <3>1. Frames({}, {})'
      BY <2>1, <2>3, StepEnds
    <3> QED
      BY <1>3, <2>2, <3>1, CoversNothing
  <2>4. CASE ~refused
    <3>1. Frames({}, {})'
      BY <2>1, <2>4, StepStarts
    <3> QED
      BY <1>3, <2>2, <3>1, CoversNothing
  <2> QED
    BY <2>3, <2>4
<1>5. ASSUME NEW hidden \in BOOLEAN, NEW extract \in BOOLEAN, StartSurvey(hidden, extract)
      PROVE  Nothing
  <2>1. walk' = Entering(<<>>, Root) /\ inodes' = {} /\ stats' = NoStats
    BY <1>5 DEF StartSurvey
  <2>2. Frames({}, {})'
    BY <2>1, StepStarts
  <2> QED
    BY <1>3, <2>1, <2>2, CoversNothing
<1>6. ASSUME Busy, NEW e \in Top.left, Visit(e)
      PROVE  Coverage'
  <2>1. Keeps /\ OwnKeeps /\ e \in Entries
    BY <1>6, VisitLosesNothing, StackIsTyped DEF Busy
  <2>3. CASE walk' = Without(e) /\ Frames(V \cup {e}, D)'
    <3>1. walk' # Entering(Without(e), e)
      <4>1. Len(Without(e)) = Len(walk) /\ Len(walk) \in Nat
            /\ Len(Entering(Without(e), e)) = Len(Without(e)) + 1
        BY <1>6, <2>1, WithoutIs, EnteringIs DEF DriveTypes, Busy
      <4> QED
        BY <2>3, <4>1
    <3>2. ScanCovers(V \cup {e}, D)'
      BY <1>2, <1>6, <2>1, <3>1, ScanCoversVisit
    <3>3. SurveyCovers(V \cup {e}, D)'
      BY <1>2, <1>6, <3>1, SurveyCoversVisit
    <3>4. Covers(V \cup {e}, D)'
      BY <2>3, <3>2, <3>3 DEF Covers
    <3> QED
      BY <2>1, <3>4 DEF Coverage
  <2>4. CASE walk' = Entering(Without(e), e) /\ Frames(V \cup {e}, D \cup {e})'
    <3>2. ScanCovers(V \cup {e}, D \cup {e})'
      BY <1>2, <1>6, <2>1, ScanCoversVisit
    <3>3. SurveyCovers(V \cup {e}, D \cup {e})'
      BY <1>2, <1>6, SurveyCoversVisit
    <3>4. Covers(V \cup {e}, D \cup {e})'
      BY <2>4, <3>2, <3>3 DEF Covers
    <3> QED
      BY <2>1, <3>4 DEF Coverage
  <2> QED
    BY <1>2, <1>6, <2>3, <2>4, StepVisits
<1>7. CASE LeaveDirectory
  <2>1. Frames(V, D)'
    BY <1>2, <1>7, StepOut
  <2>2. UNCHANGED <<run, stats, outcome, catalogue, dated, latest, buffer>>
    BY <1>7 DEF LeaveDirectory, disk, files, history
  <2>3. Keeps /\ OwnKeeps /\ run.command # "idle"
    BY <1>7, <2>2, CatalogueGrows, OwnGrows DEF LeaveDirectory, Busy
  <2> QED
    BY <1>1, <2>1, <2>2, <2>3, Growing, CoversRest
<1>8. CASE Save \/ FinalSave \/ UNCHANGED vars
  <2>1. UNCHANGED <<run, walk, inodes, stats, outcome>>
    BY <1>8 DEF Save, FinalSave, vars, memory
  <2>2. Frames(V, D)'
    BY <1>2, <2>1, StepAside
  <2>3. Keeps /\ OwnKeeps
    BY <1>8, <2>1, CatalogueGrows, OwnGrows DEF Save, FinalSave, vars, memory, disk, files, history
  <2> QED
    BY <1>1, <2>1, <2>2, <2>3, Growing, CoversRest
<1>9. CASE SaveFails
  <2>1. CASE walk # <<>>
    <3>1. /\ UNCHANGED <<run, walk, inodes, outcome, catalogue, dated, latest, buffer>>
          /\ stats' = [stats EXCEPT !.errors = @ + 1]
      BY <1>9, <2>1 DEF SaveFails, files
    <3>2. Frames(V, D)'
      BY <1>2, <3>1, StepAside
    <3>3. Keeps /\ OwnKeeps /\ stats'.skipped = stats.skipped
      BY <3>1, CatalogueGrows, OwnGrows, CountersAreTyped DEF DriveTypes, Counters
    <3> QED
      BY <1>1, <3>1, <3>2, <3>3, Growing, CoversRest
  <2>2. CASE walk = <<>>
    <3>1. walk' = <<>> /\ Ended("error")
      BY <1>9, <2>2 DEF SaveFails
    <3>2. run'.command = "idle" /\ outcome' = "error"
      BY <3>1, EndIsTyped DEF Ended
    <3>3. Frames({}, {})'
      BY <3>1, <3>2, StepEnds
    <3> QED
      BY <1>1, <1>3, <3>2, <3>3, CoversNothing
  <2> QED
    BY <2>1, <2>2
<1>10. CASE Finish
  <2>1. /\ UNCHANGED <<walk, stats>> /\ inodes' = {} /\ WriteOut(buffer)
        /\ run' = [run EXCEPT !.command = "idle"] /\ run.command # "idle"
        /\ outcome' = IF run.command = "survey" THEN "surveyed" ELSE "complete"
    BY <1>10 DEF Finish
  <2>2. /\ run'.command = "idle" /\ run'.hidden = run.hidden /\ run.command \in {"scan", "survey"}
        /\ run'.resume = run.resume /\ run'.named = run.named
    BY <2>1 DEF DriveTypes, RunTypes, Commands
  <2>3. outcome = "running"
    BY <2>1 DEF Control
  <2>4. Frames(V, D)'
    BY <1>2, <2>1, <2>2, <2>3, StepAside
  <2>5. Keeps /\ OwnKeeps
    BY <2>1, <2>2, CatalogueGrows, OwnGrows
  <2> QED
    BY <1>1, <2>1, <2>2, <2>3, <2>4, <2>5, Growing, CoversRest
<1>11. CASE Interrupt \/ Kill \/ KillInAppend
  <2>1. walk' = <<>> /\ (Ended("interrupted") \/ Ended("killed"))
    BY <1>11 DEF Interrupt, Kill, KillInAppend
  <2>2. run'.command = "idle" /\ outcome' \in {"interrupted", "killed"}
    BY <2>1, EndIsTyped DEF Ended
  <2>3. Frames({}, {})'
    BY <2>1, <2>2, StepEnds
  <2> QED
    BY <1>1, <1>3, <2>2, <2>3, CoversNothing
<1>12. CASE MigrationCut
  <2>1. /\ walk' = <<>> /\ run'.command = "idle" /\ outcome' = "killed"
    BY <1>12 DEF MigrationCut, Control
  <2>2. Frames({}, {})'
    BY <2>1, StepEnds
  <2> QED
    BY <1>1, <1>3, <2>1, <2>2, CoversNothing
<1> QED
  BY <1>1, <1>4, <1>5, <1>6, <1>7, <1>8, <1>9, <1>10, <1>11, <1>12 DEF Next

-----------------------------------------------------------------------------
(* What follows for a scan and for a survey that come to their end.        *)

\* When the command is over the walk has come to every entry of what it listed.
LEMMA AllVisited ==
  ASSUME Control, NEW V, NEW D, Frames(V, D), outcome \in {"complete", "surveyed"},
         NEW e \in Entries, Entry[e].parent \in D \cup {Root}
  PROVE  e \in V
<1>1. walk = <<>>
  BY DEF Control
<1>2. ~Waiting(e)
  <2>1. Len(walk) = 0
    BY <1>1
  <2> QED
    BY <2>1 DEF Waiting
<1> QED
  BY <1>2 DEF Frames

\* CompleteCatalogue: by the tree, an entry to be recorded that the walk did not
\* come to would have a directory above it that the walk did not come to.
LEMMA CatalogueIsComplete == DriveTypes /\ Control /\ Coverage => CompleteCatalogue
<1> SUFFICES ASSUME DriveTypes, Control, outcome = "complete", stats.errors = 0,
                    NEW V \in SUBSET Entries, NEW D \in SUBSET Entries, Covers(V, D),
                    NEW x \in Entries, Reachable[x]
             PROVE  /\ Entry[x].type \in {"file", "link"} /\ ~run.resume => InOwn(x)
                    /\ Entry[x].type = "file" /\ run.resume /\ ~orphaned => Written(x)
                    /\ Entry[x].type = "link" /\ run.resume /\ Untouched => Written(x)
  BY DEF CompleteCatalogue, Coverage
<1>1. \A e \in V : "scan" \notin Entry[e].excluded /\ ~ShouldSkipPath(e) =>
         /\ Entry[e].type = "dir" => e \in D
         /\ ~run.resume => Own(e)
         /\ run.resume /\ ~orphaned => Recorded(e)
  BY DEF Covers, ScanCovers
<1>2. \A e \in Entries : Entry[e].parent \in D \cup {Root} => e \in V
  BY AllVisited DEF Covers
<1> DEFINE Missed == {e \in Entries : Reachable[e] /\ e \notin V}
<1>3. Missed = {}
  <2> SUFFICES ASSUME Missed # {} PROVE FALSE
    OBVIOUS
  <2>1. PICK e \in Missed : Entry[e].parent \notin Missed
    <3>1. Missed \in SUBSET Entries
      OBVIOUS
    <3> HIDE DEF Missed
    <3> QED
      BY <3>1, TreeAssumption
  <2> DEFINE p == Entry[e].parent
  <2>2. e \in Entries /\ Reachable[e] /\ e \notin V /\ p \in Entries \cup {Root}
    BY EntryAssumption DEF Attributes
  <2>3. p # Root /\ p \notin D
    BY <1>2, <2>2
  <2>4. Entry[p].type = "dir" /\ Reachable[p] /\ p \in Entries
    BY <2>2, <2>3, ReachableIs
  <2>5. p \in V
    BY <2>1, <2>4
  <2>6. "scan" \notin Entry[p].excluded /\ ~ShouldSkipPath(p)
    BY <2>4, ReachableIs
  <2> QED
    BY <1>1, <2>3, <2>4, <2>5, <2>6
<1>4. buffer = {}
  BY DEF Control
<1>5. x \in V /\ "scan" \notin Entry[x].excluded /\ ~ShouldSkipPath(x)
  BY <1>3, ReachableIs
<1>6. (~run.resume => Own(x)) /\ (run.resume /\ ~orphaned => Recorded(x))
  BY <1>1, <1>5
<1>7. Untouched => ~orphaned
  BY DEF Untouched
<1> QED
  BY <1>4, <1>6, <1>7 DEF Own, Recorded

\* WipeIsDisclosed: a survey without a warning has entered everything.
LEMMA NothingIsOverlooked == DriveTypes /\ Control /\ Coverage => WipeIsDisclosed
<1> SUFFICES ASSUME DriveTypes, Control, outcome = "surveyed", Verdict = "wipe",
                    Warnings \cup Summary \subseteq {"links"},
                    NEW V \in SUBSET Entries, NEW D \in SUBSET Entries, Covers(V, D)
             PROVE  ~ \E e \in Entries : Entry[e].gnss
  BY DEF WipeIsDisclosed, Coverage
<1>1. SurveyCovers(V, D)
  BY DEF Covers
<1>2. /\ stats.seen >= stats.extracted /\ (run.hidden => stats.skipped = 0)
      /\ NothingMissed => \A e \in V : /\ Entry[e].type = "dir" \/ IsArchive(e) => e \in D
                                       /\ Entry[e].gnss => stats.gnss >= 1
  BY <1>1 DEF SurveyCovers
<1>3. stats \in Counters
  BY DEF DriveTypes
<1>4. /\ ~(stats.claimed > Capacity \/ stats.corrupt > 0)
      /\ ~(stats.skipped > 0 /\ ~run.hidden)
      /\ ~(stats.seen - stats.extracted > 0) /\ ~(stats.errors > 0)
  BY DEF Warnings
<1>13. ~(stats.excluded > 0) /\ ~(stats.dups > 0)
  BY DEF Summary
<1>5. ~(stats.gnss > 0)
  BY DEF Verdict
<1>6. /\ \A n \in Nat : (~(n > 0) => n = 0) /\ (~(n > 0) => ~(n >= 1))
      /\ \A m, n \in Nat : m >= n /\ ~(m - n > 0) => m = n
  OBVIOUS
<1>7. /\ stats.errors \in Nat /\ stats.skipped \in Nat /\ stats.corrupt \in Nat
      /\ stats.seen \in Nat /\ stats.extracted \in Nat /\ stats.gnss \in Nat
      /\ stats.excluded \in Nat /\ stats.dups \in Nat
  BY <1>3 DEF Counters
<1>8. /\ stats.errors = 0 /\ stats.corrupt = 0 /\ stats.skipped = 0 /\ stats.excluded = 0
      /\ stats.dups = 0
  BY <1>2, <1>4, <1>6, <1>7, <1>13 DEF DriveTypes
<1>9. stats.seen = stats.extracted /\ ~(stats.gnss >= 1)
  BY <1>2, <1>4, <1>5, <1>6, <1>7
<1>10. \A e \in V : (Entry[e].type = "dir" \/ IsArchive(e) => e \in D) /\ ~Entry[e].gnss
  BY <1>2, <1>8, <1>9 DEF NothingMissed
<1>11. \A e \in Entries : Entry[e].parent \in D \cup {Root} => e \in V
  BY AllVisited DEF Covers
<1> DEFINE Missed == {e \in Entries : e \notin V}
<1>12. Missed = {}
  <2> SUFFICES ASSUME Missed # {} PROVE FALSE
    OBVIOUS
  <2>1. PICK e \in Missed : Entry[e].parent \notin Missed
    <3>1. Missed \in SUBSET Entries
      OBVIOUS
    <3> HIDE DEF Missed
    <3> QED
      BY <3>1, TreeAssumption
  <2> DEFINE p == Entry[e].parent
  <2>2. e \in Entries /\ e \notin V /\ p \in Entries \cup {Root}
    BY EntryAssumption DEF Attributes
  <2>3. p # Root /\ p \notin D
    BY <1>11, <2>2
  <2>4. p \in V /\ (Entry[p].type = "dir" \/ IsArchive(p))
    BY <2>1, <2>2, <2>3, TreeAssumption
  <2> QED
    BY <1>10, <2>3, <2>4
<1> QED
  BY <1>10, <1>12

-----------------------------------------------------------------------------
(* The inductive invariant.                                                *)

DriveInv == /\ DriveTypes /\ Control /\ FilesAreMarked /\ AtRisk
            /\ Honest /\ WholeArchives /\ Coverage

\* The inductive invariant holds initially.
LEMMA InitialInv == Init => DriveInv
<1> SUFFICES ASSUME Init PROVE DriveInv
  OBVIOUS
<1>1. DriveTypes /\ Control /\ FilesAreMarked
  BY InitialTypes, InitialControl
<1>2. AtRisk
  <2>1. run.command = "idle"
    BY DEF Init
  <2> QED
    BY <2>1 DEF AtRisk
<1>3. Marked = legacy /\ legacy \subseteq LegacyPaths /\ run.command = "idle" /\ outcome = "none"
  <2>1. Elements(pending) = {}
    BY <1>1, ElementsAre DEF Init, DriveTypes
  <2> QED
    BY <2>1 DEF Init, Marked
<1>4. \A e \in legacy : e \in Entries /\ catalogue[e] = 1
  BY LegacyAssumption DEF Init
<1>5. Honest
  <2>1. 1 >= 1
    OBVIOUS
  <2> QED
    BY <1>3, <1>4, <2>1 DEF Honest, Recorded, Written
<1>6. WholeArchives
  BY <1>3 DEF WholeArchives
<1>7. Coverage
  <2>1. Frames({}, {})
    <3>1. Len(walk) = 0
      BY DEF Init
    <3> QED
      BY <1>3, <3>1 DEF Frames
  <2>2. ScanCovers({}, {}) /\ SurveyCovers({}, {})
    BY <1>3 DEF ScanCovers, SurveyCovers
  <2> QED
    BY <2>1, <2>2 DEF Coverage, Covers
<1> QED
  BY <1>1, <1>2, <1>5, <1>6, <1>7 DEF DriveInv

\* The inductive invariant is kept by every step.
LEMMA InvStep == DriveInv /\ [Next]_vars => DriveInv'
<1> SUFFICES ASSUME DriveInv, [Next]_vars PROVE DriveInv'
  OBVIOUS
<1>1. /\ DriveTypes /\ Control /\ FilesAreMarked /\ AtRisk
      /\ Honest /\ WholeArchives /\ Coverage
  BY DEF DriveInv
<1>2. WholeArchives'
  <2>1. PICK V, D \in SUBSET Entries : Frames(V, D)
    BY <1>1 DEF Coverage, Covers
  <2> QED
    BY <1>1, <2>1, WholeArchivesStep
<1> QED
  BY <1>1, <1>2, TypesStep, ControlStep, FilesAreMarkedStep, AtRiskStep, HonestStep, CoverageStep
     DEF DriveInv

\* The invariant holds in every scan and survey, whatever the tree, the interrupts,
\* kills, torn lines and errors (scanner.py, utils/checkpoint.py).
THEOREM DriveIsInvariant == Spec => []DriveInv
  BY InitialInv, InvStep, PTL DEF Spec

\* Types: what is in memory and in the four files stays what it is declared to be.
THEOREM DriveTypesHold == Spec => []TypeOK
<1>1. DriveInv => TypeOK
  BY TypesImplyTypeOK DEF DriveInv
<1> QED
  BY <1>1, DriveIsInvariant, PTL

\* The checkpoint: every path that a later run would skip has its record in one of
\* the output files, whichever run wrote it and wherever to, and an archive is
\* marked only when its plain members are recorded (mark_scanned after
\* _emit_record, and after the recursion into an archive).
THEOREM CheckpointIsHonest == Spec => []CheckpointHonest
<1>1. DriveInv => CheckpointHonest
  <2> SUFFICES ASSUME DriveInv, ~orphaned, NEW e \in log \cup legacy
               PROVE  /\ Entry[e].type = "file" => Written(e)
                      /\ Entry[e].type = "link" /\ Untouched => Written(e) \/ e \in buffer
                      /\ AlwaysOpened(e) /\ stops["io"] = 0 /\ e \notin LegacyPaths
                         => \A m \in Members(e) : Written(m)
    BY DEF CheckpointHonest
  <2>1. e \in Marked /\ Honest /\ WholeArchives
    BY DEF Marked, DriveInv
  <2>2. Recorded(e)
    BY <2>1 DEF Honest
  <2> QED
    BY <2>1, <2>2 DEF Recorded, WholeArchives
<1> QED
  BY <1>1, DriveIsInvariant, PTL

\* The catalogue: a scan that reports no error has every reachable file in its own
\* output file, or, when it resumed, in one of the files of the runs before it,
\* however many these were (DeepScanner.scan, _scan_recursive).
THEOREM CatalogueIsCompleted == Spec => []CompleteCatalogue
<1>1. DriveInv => CompleteCatalogue
  BY CatalogueIsComplete DEF DriveInv
<1> QED
  BY <1>1, DriveIsInvariant, PTL

\* The survey: a verdict that lets the drive be wiped, with no warning but the one
\* about links, and no excluded entry and no hardlink in the summary, means that
\* there is no GNSS file on the drive (survey_verdict, survey_warnings).
THEOREM WipeIsSafe == Spec => []WipeIsDisclosed
<1>1. DriveInv => WipeIsDisclosed
  BY NothingIsOverlooked DEF DriveInv
<1> QED
  BY <1>1, DriveIsInvariant, PTL

\* A crash: what memory takes for scanned and what the log and the batch hold
\* differ by no more than two paths for each append that stopped half-way
\* (CheckpointManager.save_checkpoint).
THEOREM CrashCostsLittle == Spec => []BatchAtRisk
<1>1. DriveInv => BatchAtRisk
  BY AtRiskBounds DEF DriveInv
<1> QED
  BY <1>1, DriveIsInvariant, PTL

-----------------------------------------------------------------------------
(* What is recorded twice.                                                 *)

\* What the mishaps so far allow for: one record for each, and one more for an
\* append that stopped half-way, once the torn line it left has swallowed a path.
Allowed == Total + stops["cut"] - (IF tail = "none" THEN 0 ELSE 1)
Count(e) == catalogue[e] + (IF run.named /\ e \in buffer THEN 1 ELSE 0)
Within(X, n) == \A e \in Entries : Count(e) <= n + (IF e \in X THEN 1 ELSE 0)

\* The entries P are those that a run does not record again: the log holds them,
\* or the archive they are in.
Anchored(P, K) == \A e \in P : IF InArchive[e] THEN Entry[e].parent \in P ELSE e \in K

\* In a scan every entry may be recorded once more than is allowed for when it
\* has been come to or is not recorded again.  s = 1 when a torn line has
\* swallowed a path in this run.
Repeats(V, D, P, s) ==
    /\ Anchored(P, known)
    /\ Within(P \cup V, Allowed - s)
    /\ \A i \in 1 .. Len(walk) : Inside(walk[i].dir) => walk[i].dir \notin P
    /\ \A e \in Entries : Entry[e].type = "dir" => Count(e) = 0
    /\ run.resume =>
         /\ s = 0 => known \subseteq log \cup Elements(pending)
         /\ \A e \in V : ~InArchive[e] /\ Entry[e].type # "dir" =>
              e \in known \/ Open(e) \/ Count(e) <= Allowed - s
         /\ \A a \in D : IsArchive(a) /\ ~InArchive[a] => a \in known \/ Open(a)

\* Between the scans that write the file named with -o.
Settled ==
    /\ \A e \in Entries : Entry[e].type = "dir" => Count(e) = 0
    /\ \/ log = {} /\ legacy = {} /\ Within(Entries, Allowed)
       \/ \E P \in SUBSET Entries : Anchored(P, log \cup legacy) /\ Within(P, Allowed)

RepeatInv ==
    ~orphaned /\ ~strayed =>
      IF run.command = "scan" /\ run.named
        THEN \E V, D, P \in SUBSET Entries : \E s \in {0, 1} : Frames(V, D) /\ Repeats(V, D, P, s)
        ELSE Settled

\* The budget of records of one entry is a number, and at most that of the mishaps.
LEMMA AllowedIs ==
  ASSUME DriveTypes, Control
  PROVE  /\ Allowed \in Nat /\ Allowed <= Total + stops["cut"]
         /\ Total \in Nat /\ stops["cut"] \in Nat
<1>1. \A m \in Mishaps : stops[m] \in Nat
  BY BoundAssumption DEF DriveTypes
<1> DEFINE a == stops["interrupt"]
           b == stops["kill"]
           c == stops["cut"]
           d == stops["io"]
<1>2. a \in Nat /\ b \in Nat /\ c \in Nat /\ d \in Nat /\ Total = a + b + c + d
  BY <1>1 DEF Mishaps, Total
<1>3. tail # "none" => c >= 1
  BY DEF Control
<1> HIDE DEF a, b, c, d
<1>4. Total \in Nat
  BY <1>2
<1>5. \A x, y \in Nat : /\ x + y - 0 \in Nat /\ x + y - 0 <= x + y
                        /\ (y >= 1 => x + y - 1 \in Nat /\ x + y - 1 <= x + y)
  OBVIOUS
<1>6. Allowed = Total + c - (IF tail = "none" THEN 0 ELSE 1)
  BY DEF Allowed, c
<1>7. CASE tail = "none"
  BY <1>2, <1>4, <1>5, <1>6, <1>7 DEF c
<1>8. CASE tail # "none"
  BY <1>2, <1>3, <1>4, <1>5, <1>6, <1>8 DEF c
<1> QED
  BY <1>7, <1>8

\* How the budget changes with mishaps and with what becomes of a torn line.
LEMMA AllowedStep ==
  ASSUME DriveTypes, Control
  PROVE  /\ stops' = stops /\ tail' = tail => Allowed' = Allowed
         /\ stops' = stops /\ tail' = "none" =>
              Allowed' = Allowed + (IF tail = "none" THEN 0 ELSE 1)
         /\ \A m \in Mishaps : Mishap(m) /\ tail' = tail => Allowed' >= Allowed + 1
         /\ Mishap("cut") => Allowed' >= Allowed + 1
<1> DEFINE c == stops["cut"]
           t == IF tail = "none" THEN 0 ELSE 1
<1>1. Allowed = Total + c - t /\ Allowed' = Total' + c' - t'
  BY DEF Allowed
<1>2. Total \in Nat /\ c \in Nat /\ t \in {0, 1} /\ t' \in {0, 1}
  BY AllowedIs
<1>3. stops' = stops => Total' = Total /\ c' = c
  BY DEF Total
<1>4. ASSUME NEW m \in Mishaps, Mishap(m)
      PROVE  Total' = Total + 1 /\ c' \in Nat /\ c' >= c /\ (m = "cut" => c' = c + 1)
  <2>1. Total' = Total + 1 /\ stops'[m] = stops[m] + 1 /\ \A k \in Mishaps \ {m} : stops'[k] = stops[k]
    BY <1>4, MishapIsTyped
  <2>2. "cut" \in Mishaps
    BY DEF Mishaps
  <2>3. c' = c \/ c' = c + 1
    BY <2>1, <2>2
  <2>4. m = "cut" => c' = c + 1
    BY <2>1
  <2> HIDE DEF c
  <2> QED
    BY <1>2, <2>1, <2>3, <2>4
<1>5. /\ tail' = tail => t' = t
      /\ tail' = "none" => t' = 0
  OBVIOUS
<1>6. "cut" \in Mishaps
  BY DEF Mishaps
<1>7. stops' = stops /\ tail' = tail => Allowed' = Allowed
  BY <1>1, <1>3, <1>5
<1>8. stops' = stops /\ tail' = "none" => Allowed' = Allowed + t
  <2> SUFFICES ASSUME stops' = stops, tail' = "none" PROVE Allowed' = Allowed + t
    OBVIOUS
  <2>1. Total' = Total /\ c' = c /\ t' = 0
    BY <1>3, <1>5
  <2> HIDE DEF c, t
  <2> QED
    BY <1>1, <1>2, <2>1
<1>9. ASSUME NEW m \in Mishaps, Mishap(m), tail' = tail \/ m = "cut"
      PROVE  Allowed' >= Allowed + 1
  <2>1. Total' = Total + 1 /\ c' \in Nat /\ c' >= c /\ (m = "cut" => c' = c + 1) /\ (tail' = tail => t' = t)
    BY <1>4, <1>5, <1>9
  <2> DEFINE T == Total
  <2>2. T \in Nat /\ T' = T + 1
    BY <1>2, <2>1
  <2>3. Allowed = T + c - t /\ Allowed' = T' + c' - t'
    BY <1>1
  <2> HIDE DEF c, t, T
  <2>6. \A k, n, j \in Nat : \A u, v \in {0, 1} :
          /\ j >= n => (k + 1) + j - u >= (k + n - u) + 1
          /\ j = n + 1 => (k + 1) + j - v >= (k + n - u) + 1
    OBVIOUS
  <2>4. CASE t' = t
    BY <1>2, <2>1, <2>2, <2>3, <2>4, <2>6
  <2>5. CASE c' = c + 1
    BY <1>2, <2>1, <2>2, <2>3, <2>5, <2>6
  <2> QED
    BY <1>9, <2>1, <2>4, <2>5
<1> QED
  BY <1>6, <1>7, <1>8, <1>9

\* How many records a step adds: none, or one of e.
LEMMA CountIs ==
  ASSUME DriveTypes
  PROVE  \A e \in Entries : Count(e) \in Nat /\ catalogue[e] <= Count(e)
<1> TAKE e \in Entries
<1>1. catalogue[e] \in Nat
  BY DEF DriveTypes
<1>2. \A n \in Nat : n + 0 \in Nat /\ n + 1 \in Nat /\ n <= n + 0 /\ n <= n + 1
  OBVIOUS
<1> QED
  BY <1>1, <1>2 DEF Count

\* How the number of an entry's records changes with what is written.
LEMMA CountStep ==
  ASSUME DriveTypes
  PROVE  /\ catalogue' = catalogue /\ (~run'.named \/ buffer' = {}) =>
              \A x \in Entries : Count(x)' <= Count(x)
         /\ UNCHANGED <<catalogue, buffer>> /\ run'.named = run.named =>
              \A x \in Entries : Count(x)' = Count(x)
         /\ run.named /\ WriteOut(buffer) /\ buffer' = {} =>
              \A x \in Entries : Count(x)' = Count(x)
         /\ \A e \in Entries :
              run' = run /\ run.named
              /\ ((Flushed(e) /\ run.command = "scan")
                  \/ (catalogue' = catalogue /\ buffer' = buffer \cup {e})) =>
                 /\ \A x \in Entries \ {e} : Count(x)' = Count(x)
                 /\ Count(e)' <= Count(e) + 1
<1>1. \A x \in Entries : catalogue[x] \in Nat
  BY DEF DriveTypes
<1>2. \A n \in Nat : n + 0 = n /\ n <= n + 1 /\ n <= n /\ n + 0 <= n + 0 /\ n + 1 <= n + 1
                     /\ n + 1 <= (n + 1) + 1 /\ n + 0 <= n + 1 /\ (n + 1) + 0 = n + 1
                     /\ (n + 1) + 0 <= (n + 0) + 1 /\ (n + 1) + 0 <= (n + 1) + 1
                     /\ n + 1 <= (n + 0) + 1
  OBVIOUS
<1>3. \A x : Count(x)' = catalogue'[x] + (IF run'.named /\ x \in buffer' THEN 1 ELSE 0)
  BY DEF Count
<1>4. ASSUME catalogue' = catalogue, ~run'.named \/ buffer' = {}, NEW x \in Entries
      PROVE  Count(x)' <= Count(x)
  <2>1. Count(x)' = catalogue[x] + 0
    BY <1>3, <1>4
  <2>2. Count(x) = catalogue[x] + 0 \/ Count(x) = catalogue[x] + 1
    BY DEF Count
  <2> QED
    BY <1>1, <1>2, <2>1, <2>2
<1>5. UNCHANGED <<catalogue, buffer>> /\ run'.named = run.named =>
        \A x \in Entries : Count(x)' = Count(x)
  BY <1>3 DEF Count
<1>6. ASSUME run.named, WriteOut(buffer), buffer' = {}, NEW x \in Entries
      PROVE  Count(x)' = Count(x)
  <2>1. catalogue'[x] = catalogue[x] + (IF x \in buffer THEN 1 ELSE 0) /\ x \notin buffer'
    BY <1>6 DEF WriteOut
  <2> QED
    BY <1>1, <1>2, <1>3, <1>6, <2>1 DEF Count
<1>7. ASSUME NEW e \in Entries, run' = run, run.named, Flushed(e), run.command = "scan"
      PROVE  /\ \A x \in Entries \ {e} : Count(x)' = Count(x)
             /\ Count(e)' <= Count(e) + 1
  <2>1. catalogue' = [x \in Entries |-> catalogue[x] + IF x \in buffer \cup {e} THEN 1 ELSE 0]
        /\ buffer' = {}
    BY <1>7 DEF Flushed, WriteOut
  <2>2. ASSUME NEW x \in Entries \ {e}
        PROVE  Count(x)' = Count(x)
    <3>1. catalogue'[x] = catalogue[x] + (IF x \in buffer THEN 1 ELSE 0) /\ x \notin buffer'
      BY <2>1
    <3> QED
      BY <1>1, <1>2, <1>3, <1>7, <3>1 DEF Count
  <2>3. Count(e)' <= Count(e) + 1
    <3>1. catalogue'[e] = catalogue[e] + 1 /\ e \notin buffer'
      BY <2>1
    <3>2. Count(e)' = (catalogue[e] + 1) + 0
      BY <1>3, <3>1
    <3>3. Count(e) = catalogue[e] + 0 \/ Count(e) = catalogue[e] + 1
      BY DEF Count
    <3> QED
      BY <1>1, <1>2, <3>2, <3>3
  <2> QED
    BY <2>2, <2>3
<1>8. ASSUME NEW e \in Entries, run' = run, run.named, catalogue' = catalogue, buffer' = buffer \cup {e}
      PROVE  /\ \A x \in Entries \ {e} : Count(x)' = Count(x)
             /\ Count(e)' <= Count(e) + 1
  <2>1. \A x \in Entries \ {e} : Count(x)' = Count(x)
    BY <1>3, <1>8 DEF Count
  <2>2. Count(e)' = catalogue[e] + 1
    BY <1>3, <1>8
  <2>3. Count(e) = catalogue[e] + 0 \/ Count(e) = catalogue[e] + 1
    BY DEF Count
  <2> QED
    BY <1>1, <1>2, <2>1, <2>2, <2>3
<1> QED
  BY <1>4, <1>5, <1>6, <1>7, <1>8

-----------------------------------------------------------------------------
(* One entry of the walk of a scan, and what it may be recorded.           *)

\* What is open stays open; an entry that is entered is open.
LEMMA VisitOpens ==
  ASSUME DriveTypes, Busy, NEW e \in Top.left, Visit(e)
  PROVE  /\ \A d : Open(d) => Open(d)'
         /\ walk' = Entering(Without(e), e) => Open(e)'
         /\ \A i \in 1 .. Len(walk') :
              \/ \E j \in 1 .. Len(walk) : walk'[i].dir = walk[j].dir
              \/ walk' = Entering(Without(e), e) /\ walk'[i].dir = e
<1> DEFINE n == Len(walk)
           w == Without(e)
<1>1. e \in Entries /\ n \in Nat
  BY StackIsTyped DEF Busy, DriveTypes
<1>2. w \in Seq(Frame) /\ Len(w) = n /\ \A j \in 1 .. n : w[j].dir = walk[j].dir
  BY WithoutIs DEF DriveTypes, Busy
<1>3. walk' = w \/ walk' = Entering(w, e)
  BY DEF Visit, SkipScanned, SkipEntry, RecordSymlink, EnterDirectory, PassOver, AccessFails, ProcessFile, ProcessFileFails
<1> HIDE DEF w
<1>4. /\ Len(Entering(w, e)) = n + 1
      /\ \A j \in 1 .. n : Entering(w, e)[j] = w[j]
      /\ Entering(w, e)[n + 1].dir = e
  BY <1>1, <1>2, EnteringIs
<1>5. \A m \in Nat : /\ \A j \in 1 .. m + 1 : j \in 1 .. m \/ j = m + 1
                     /\ \A j \in 1 .. m : j \in 1 .. m + 1
                     /\ m + 1 \in 1 .. m + 1
  OBVIOUS
<1>6. \A j \in 1 .. n : j \in 1 .. Len(walk') /\ walk'[j].dir = walk[j].dir
  BY <1>1, <1>2, <1>3, <1>4, <1>5
<1>7. \A i \in 1 .. Len(walk') : i \in 1 .. n \/ (walk' = Entering(w, e) /\ walk'[i].dir = e)
  BY <1>1, <1>2, <1>3, <1>4, <1>5
<1>8. walk' = Entering(w, e) => n + 1 \in 1 .. Len(walk') /\ walk'[n + 1].dir = e
  BY <1>1, <1>4, <1>5
<1> QED
  BY <1>6, <1>7, <1>8 DEF Open, w

\* Marking an entry forgets no path.
LEMMA MarkKeeps ==
  ASSUME DriveTypes, NEW e \in Entries, NEW n, MarkScanned(e, n)
  PROVE  /\ known \subseteq known' /\ known' \subseteq known \cup Elements(pending)'
         /\ Elements(pending) \subseteq Elements(pending)'
         /\ run.resume => e \in known'
<1>1. CASE ~run.resume
  <2>1. UNCHANGED <<known, pending>>
    BY <1>1 DEF MarkScanned
  <2> QED
    BY <1>1, <2>1 DEF Elements
<1>2. CASE run.resume
  <2>1. known' = known \cup {e} /\ pending' = Append(pending, e)
    BY <1>2 DEF MarkScanned
  <2>2. Elements(pending)' = Elements(Append(pending, e))
    BY <2>1 DEF Elements
  <2>3. Elements(pending)' = Elements(pending) \cup {e}
    BY <2>2, ElementsOfAppend DEF DriveTypes
  <2> QED
    BY <2>1, <2>3
<1> QED
  BY <1>1, <1>2

\* Visiting an entry forgets no path.
LEMMA VisitMarks ==
  ASSUME DriveTypes, Busy, NEW e \in Top.left, Visit(e)
  PROVE  /\ known \subseteq known' /\ known' \subseteq known \cup Elements(pending)'
         /\ Elements(pending) \subseteq Elements(pending)'
<1>1. e \in Entries
  BY StackIsTyped DEF Busy
<1>2. CASE UNCHANGED <<known, pending>>
  BY <1>2 DEF Elements
<1>3. CASE \E n : MarkScanned(e, n)
  BY <1>1, <1>3, MarkKeeps
<1> QED
  BY <1>2, <1>3 DEF Visit, SkipScanned, SkipEntry, RecordSymlink, EnterDirectory, PassOver, AccessFails, ProcessFile,
                    ProcessFileFails

\* In a scan, an entry that the walk comes to and that is not skipped as scanned
\* has not been recorded more often than the mishaps so far allow for.
LEMMA NotYetRepeated ==
  ASSUME DriveTypes, Control, Busy, run.command = "scan", NEW V, NEW D, NEW P, NEW s \in {0, 1},
         Frames(V, D), Repeats(V, D, P, s), NEW e \in Top.left, ~Scanned(e)
  PROVE  e \notin P /\ Count(e) <= Allowed - s
<1>1. /\ e \in Entries /\ e \notin V /\ Entry[e].parent = walk[Len(walk)].dir
      /\ Len(walk) \in 1 .. Len(walk)
  BY NextEntry
<1>2. /\ Anchored(P, known) /\ Within(P \cup V, Allowed - s)
      /\ \A i \in 1 .. Len(walk) : Inside(walk[i].dir) => walk[i].dir \notin P
  BY DEF Repeats
<1>3. e \notin P
  <2>1. CASE InArchive[e]
    <3>1. Inside(Entry[e].parent)
      BY <1>1, <2>1, InArchiveIs DEF Inside
    <3>2. Entry[e].parent \notin P
      BY <1>1, <1>2, <3>1
    <3> QED
      BY <1>2, <2>1, <3>2 DEF Anchored
  <2>2. CASE ~InArchive[e]
    <3>1. e \notin known
      BY <2>2 DEF Scanned, Control
    <3> QED
      BY <1>2, <2>2, <3>1 DEF Anchored
  <2> QED
    BY <2>1, <2>2
<1>4. Count(e) <= Allowed - s + 0
  BY <1>1, <1>2, <1>3 DEF Within
<1>5. Allowed - s + 0 = Allowed - s
  <2>1. Allowed \in Nat
    BY AllowedIs
  <2>2. \A a \in Nat : \A t \in {0, 1} : a - t + 0 = a - t
    OBVIOUS
  <2> QED
    BY <2>1, <2>2
<1> QED
  BY <1>3, <1>4, <1>5

\* Visiting an entry records it once at most, and not if it is known.
LEMMA VisitCountsRecords ==
  ASSUME DriveTypes, Control, Busy, run.command = "scan", run.named, NEW e \in Top.left, Visit(e)
  PROVE  /\ \A x \in Entries \ {e} : Count(x)' = Count(x)
         /\ Count(e)' = Count(e) \/ (~Scanned(e) /\ Entry[e].type # "dir" /\ Count(e)' <= Count(e) + 1)
         /\ Allowed' = Allowed \/ Allowed' >= Allowed + 1
<1>1. e \in Entries
  BY StackIsTyped DEF Busy
<1>2. tail' = tail /\ run' = run
  BY VisitKeeps
<1>3. Allowed' = Allowed \/ Allowed' >= Allowed + 1
  <2>1. stops' = stops \/ Mishap("io")
    BY DEF Visit, SkipScanned, SkipEntry, RecordSymlink, EnterDirectory, PassOver, AccessFails, ProcessFile, ProcessFileFails
  <2> QED
    BY <1>2, <2>1, AllowedStep DEF Mishaps
<1>4. CASE SkipScanned(e) \/ SkipEntry(e) \/ EnterDirectory(e) \/ PassOver(e)
          \/ AccessFails(e) \/ ProcessFileFails(e)
  <2>1. UNCHANGED <<catalogue, buffer>>
    BY <1>4 DEF SkipScanned, SkipEntry, EnterDirectory, PassOver, AccessFails, ProcessFileFails, disk, files, history
  <2> QED
    BY <1>1, <1>2, <1>3, <2>1, CountStep
<1>5. CASE RecordSymlink(e)
  <2>1. /\ catalogue' = catalogue /\ buffer' = buffer \cup {e}
        /\ ~Scanned(e) /\ Entry[e].type # "dir"
    BY <1>5 DEF RecordSymlink, Admitted, disk, files, history
  <2> QED
    BY <1>1, <1>2, <1>3, <2>1, CountStep
<1>6. CASE ProcessFile(e)
  <2>1. Flushed(e) /\ ~Scanned(e) /\ Entry[e].type # "dir"
    BY <1>6 DEF ProcessFile, Admitted
  <2> QED
    BY <1>1, <1>2, <1>3, <2>1, CountStep
<1> QED
  BY <1>4, <1>5, <1>6 DEF Visit

\* Before and after a step the counts are numbers.
LEMMA NumbersAre ==
  DriveTypes /\ Control => Allowed \in Nat /\ \A e \in Entries : Count(e) \in Nat
  BY AllowedIs, CountIs

\* Budgets and numbers of records are natural before and after a step.
LEMMA NumbersStep ==
  ASSUME DriveTypes, Control, [Next]_vars
  PROVE  /\ Allowed \in Nat /\ Allowed' \in Nat
         /\ \A e \in Entries : Count(e) \in Nat /\ Count(e)' \in Nat
<1>1. DriveTypes' /\ Control'
  BY TypesStep, ControlStep
<1>2. (DriveTypes /\ Control => Allowed \in Nat /\ \A e \in Entries : Count(e) \in Nat)'
  BY NumbersAre, PTL
<1> QED
  BY <1>1, <1>2, NumbersAre

\* After the visit the entry is marked, or open, or not recorded too often.
LEMMA VisitSettles ==
  ASSUME DriveTypes, Control, Busy, run.command = "scan", run.named, run.resume, NEW V, NEW D, NEW P,
         NEW s \in {0, 1}, Frames(V, D), Repeats(V, D, P, s), NEW e \in Top.left, Visit(e),
         ~InArchive[e], Entry[e].type # "dir"
  PROVE  e \in known' \/ Open(e)' \/ (Count(e)' = Count(e) /\ Count(e) <= Allowed - s)
<1>1. e \in Entries
  BY StackIsTyped DEF Busy
<1>2. CASE SkipScanned(e)
  BY <1>2 DEF SkipScanned, Scanned
<1>3. CASE SkipEntry(e) \/ PassOver(e) \/ AccessFails(e) \/ ProcessFileFails(e)
  <2>1. UNCHANGED <<catalogue, buffer>> /\ ~Scanned(e)
    BY <1>3 DEF SkipEntry, PassOver, AccessFails, ProcessFileFails, Admitted, disk, files, history
  <2> QED
    BY <1>1, <2>1, CountStep, NotYetRepeated, VisitKeeps
<1>4. CASE RecordSymlink(e)
  BY <1>1, <1>4, MarkKeeps DEF RecordSymlink
<1>5. CASE EnterDirectory(e)
  BY <1>5 DEF EnterDirectory
<1>6. CASE ProcessFile(e)
  <2>1. walk' = Entering(Without(e), e) \/ MarkScanned(e, stats.files + 1)
    BY <1>6 DEF ProcessFile
  <2> QED
    BY <1>1, <2>1, MarkKeeps, VisitOpens
<1> QED
  BY <1>2, <1>3, <1>4, <1>5, <1>6 DEF Visit

\* Visiting an entry keeps the numbers of records within the budget.
LEMMA RepeatsVisit ==
  ASSUME DriveTypes, Control, Busy, run.command = "scan", run.named, [Next]_vars, NEW V, NEW D, NEW P,
         NEW s \in {0, 1}, Frames(V, D), Repeats(V, D, P, s), NEW e \in Top.left, Visit(e),
         NEW E, D \subseteq E, E \subseteq D \cup {e}, e \in E => Open(e)'
  PROVE  Repeats(V \cup {e}, E, P, s)'
<1> DEFINE a == Allowed - s
<1>1. /\ e \in Entries /\ e \notin V
  BY NextEntry
<1>2. /\ Anchored(P, known) /\ Within(P \cup V, a)
      /\ \A i \in 1 .. Len(walk) : Inside(walk[i].dir) => walk[i].dir \notin P
      /\ \A x \in Entries : Entry[x].type = "dir" => Count(x) = 0
      /\ run.resume =>
           /\ s = 0 => known \subseteq log \cup Elements(pending)
           /\ \A x \in V : ~InArchive[x] /\ Entry[x].type # "dir" =>
                x \in known \/ Open(x) \/ Count(x) <= a
           /\ \A x \in D : IsArchive(x) /\ ~InArchive[x] => x \in known \/ Open(x)
  BY DEF Repeats
<1>3. /\ known \subseteq known' /\ known' \subseteq known \cup Elements(pending)'
      /\ Elements(pending) \subseteq Elements(pending)'
  BY VisitMarks
<1>4. /\ \A d : Open(d) => Open(d)'
      /\ \A i \in 1 .. Len(walk') :
           \/ \E j \in 1 .. Len(walk) : walk'[i].dir = walk[j].dir
           \/ walk' = Entering(Without(e), e) /\ walk'[i].dir = e
  BY VisitOpens
<1>5. run' = run /\ log' = log
  BY VisitKeeps
<1>6. /\ \A x \in Entries \ {e} : Count(x)' = Count(x)
      /\ Count(e)' = Count(e) \/ (~Scanned(e) /\ Entry[e].type # "dir" /\ Count(e)' <= Count(e) + 1)
      /\ Allowed' = Allowed \/ Allowed' >= Allowed + 1
  BY VisitCountsRecords
<1>7. a \in Int /\ a' \in Int /\ a' >= a /\ (\A x \in Entries : Count(x) \in Nat /\ Count(x)' \in Nat)
  <2>2. Allowed \in Nat /\ Allowed' \in Nat
    BY NumbersStep
  <2>3. \A x \in Entries : Count(x) \in Nat /\ Count(x)' \in Nat
    BY NumbersStep
  <2>4. \A k, l \in Nat : \A t \in {0, 1} : /\ k - t \in Int
                                            /\ l = k \/ l >= k + 1 => l - t >= k - t
    OBVIOUS
  <2> QED
    BY <1>6, <2>2, <2>3, <2>4
<1>8. ~Scanned(e) => e \notin P /\ Count(e) <= a
  BY NotYetRepeated
<1>9. a' = Allowed' - s
  OBVIOUS
<1> HIDE DEF a
<1>10. \A k, l \in Int : \A m, n \in Nat :
         /\ l >= k /\ n <= k => n <= l + 0 /\ n <= l + 1 /\ n <= l
         /\ l >= k /\ n <= k + 1 => n <= l + 1
         /\ l >= k /\ n <= k + 0 => n <= l + 0 /\ n <= l + 1
         /\ l >= k /\ m <= k /\ n <= m + 1 => n <= l + 1
  OBVIOUS
<1>11. Within(P \cup (V \cup {e}), a)'
  <2> SUFFICES ASSUME NEW x \in Entries
               PROVE  Count(x)' <= a' + (IF x \in P \cup (V \cup {e}) THEN 1 ELSE 0)
    BY DEF Within
  <2>1. Count(x) <= a + (IF x \in P \cup V THEN 1 ELSE 0)
    BY <1>2 DEF Within
  <2>2. CASE x # e
    BY <1>6, <1>7, <1>10, <2>1, <2>2
  <2>3. CASE x = e
    <3>1. CASE Count(e)' = Count(e)
      BY <1>7, <1>10, <2>1, <2>3, <3>1
    <3>2. CASE ~Scanned(e) /\ Count(e)' <= Count(e) + 1
      BY <1>7, <1>8, <1>10, <2>3, <3>2
    <3> QED
      BY <1>6, <3>1, <3>2
  <2> QED
    BY <2>2, <2>3
<1>12. Anchored(P, known)'
  BY <1>2, <1>3 DEF Anchored
<1>13. \A i \in 1 .. Len(walk') : Inside(walk'[i].dir) => walk'[i].dir \notin P
  <2>1. walk' = Entering(Without(e), e) => e \notin P
    <3>1. ASSUME SkipScanned(e) PROVE walk' # Entering(Without(e), e)
      <4>1. Len(Without(e)) = Len(walk) /\ Len(walk) \in Nat
            /\ Len(Entering(Without(e), e)) = Len(Without(e)) + 1
        BY <1>1, WithoutIs, EnteringIs DEF DriveTypes, Busy
      <4> QED
        BY <3>1, <4>1 DEF SkipScanned
    <3>2. ~SkipScanned(e) => ~Scanned(e)
      BY DEF Visit, SkipEntry, RecordSymlink, EnterDirectory, PassOver, AccessFails, ProcessFile, ProcessFileFails, Admitted
    <3> QED
      BY <1>8, <3>1, <3>2
  <2> QED
    BY <1>2, <1>4, <2>1
<1>14. \A x \in Entries : Entry[x].type = "dir" => Count(x)' = 0
  BY <1>2, <1>6
<1>15. run.resume => (s = 0 => known' \subseteq log' \cup Elements(pending)')
  BY <1>2, <1>3, <1>5
<1>16. run.resume => \A x \in V \cup {e} : ~InArchive[x] /\ Entry[x].type # "dir" =>
         x \in known' \/ Open(x)' \/ Count(x)' <= a'
  <2> SUFFICES ASSUME run.resume, NEW x \in V \cup {e}, ~InArchive[x], Entry[x].type # "dir"
               PROVE  x \in known' \/ Open(x)' \/ Count(x)' <= a'
    OBVIOUS
  <2>1. CASE x = e
    <3>1. e \in known' \/ Open(e)' \/ (Count(e)' = Count(e) /\ Count(e) <= a)
      BY <2>1, VisitSettles DEF a
    <3> QED
      BY <1>1, <1>7, <1>10, <2>1, <3>1
  <2>2. CASE x \in V
    <3>1. x \in Entries \ {e}
      BY <1>1, <2>2 DEF Frames
    <3>2. x \in known \/ Open(x) \/ Count(x) <= a
      BY <1>2, <2>2
    <3> QED
      BY <1>3, <1>4, <1>6, <1>7, <1>10, <3>1, <3>2
  <2> QED
    BY <2>1, <2>2
<1>17. run.resume => \A x \in E : IsArchive(x) /\ ~InArchive[x] => x \in known' \/ Open(x)'
  BY <1>2, <1>3, <1>4
<1>18. \A x : IsArchive(x)' <=> IsArchive(x)
  BY DEF IsArchive
<1> QED
  BY <1>5, <1>11, <1>12, <1>13, <1>14, <1>15, <1>16, <1>17, <1>18 DEF Repeats, Inside, a

\* The walk of a scan rests, or a directory is left.
LEMMA RepeatsRest ==
  ASSUME DriveTypes, Control, [Next]_vars, NEW V, NEW D, NEW P, NEW s \in {0, 1}, NEW t \in {0, 1},
         Frames(V, D), Repeats(V, D, P, s), run' = run, known \subseteq known',
         \A x \in Entries : Count(x)' = Count(x), Allowed' - t >= Allowed - s,
         run.resume /\ t = 0 /\ (s = 0 => known \subseteq log \cup Elements(pending))
           => known' \subseteq log' \cup Elements(pending)',
         \A i \in 1 .. Len(walk') : \E j \in 1 .. Len(walk) : walk'[i].dir = walk[j].dir,
         run.resume => \A d \in Entries : Open(d) /\ IsArchive(d) => Open(d)' \/ d \in known'
  PROVE  Repeats(V, D, P, t)'
<1> DEFINE a == Allowed - s
           b == Allowed - t
<1>1. /\ Anchored(P, known) /\ Within(P \cup V, a)
      /\ \A i \in 1 .. Len(walk) : Inside(walk[i].dir) => walk[i].dir \notin P
      /\ \A x \in Entries : Entry[x].type = "dir" => Count(x) = 0
      /\ run.resume =>
           /\ s = 0 => known \subseteq log \cup Elements(pending)
           /\ \A x \in V : ~InArchive[x] /\ Entry[x].type # "dir" =>
                x \in known \/ Open(x) \/ Count(x) <= a
           /\ \A x \in D : IsArchive(x) /\ ~InArchive[x] => x \in known \/ Open(x)
  BY DEF Repeats
<1>2. a \in Int /\ b' \in Int /\ b' >= a /\ (\A x \in Entries : Count(x) \in Nat)
  <2>1. Allowed \in Nat /\ Allowed' \in Nat /\ \A x \in Entries : Count(x) \in Nat
    BY NumbersStep
  <2>2. \A k \in Nat : \A u \in {0, 1} : k - u \in Int
    OBVIOUS
  <2> QED
    BY <2>1, <2>2
<1> HIDE DEF a, b
<1>3. \A k, l \in Int : \A n \in Nat :
         /\ l >= k /\ n <= k => n <= l
         /\ l >= k /\ n <= k + 0 => n <= l + 0
         /\ l >= k /\ n <= k + 1 => n <= l + 1
  OBVIOUS
<1>4. Within(P \cup V, b)'
  <2> SUFFICES ASSUME NEW x \in Entries
               PROVE  Count(x)' <= b' + (IF x \in P \cup V THEN 1 ELSE 0)
    BY DEF Within
  <2>1. Count(x) <= a + (IF x \in P \cup V THEN 1 ELSE 0) /\ Count(x)' = Count(x)
    BY <1>1 DEF Within
  <2>2. CASE x \in P \cup V
    BY <1>2, <1>3, <2>1, <2>2
  <2>3. CASE x \notin P \cup V
    BY <1>2, <1>3, <2>1, <2>3
  <2> QED
    BY <2>2, <2>3
<1>5. Anchored(P, known)'
  BY <1>1 DEF Anchored
<1>6. \A i \in 1 .. Len(walk') : Inside(walk'[i].dir) => walk'[i].dir \notin P
  BY <1>1
<1>7. \A x \in Entries : Entry[x].type = "dir" => Count(x)' = 0
  BY <1>1
<1>8. run.resume => (t = 0 => known' \subseteq log' \cup Elements(pending)')
  BY <1>1
<1>9. run.resume => \A x \in V : ~InArchive[x] /\ Entry[x].type # "dir" =>
         x \in known' \/ Open(x)' \/ Count(x)' <= b'
  <2> SUFFICES ASSUME run.resume, NEW x \in V, ~InArchive[x], Entry[x].type # "dir"
               PROVE  x \in known' \/ Open(x)' \/ Count(x)' <= b'
    OBVIOUS
  <2>1. x \in Entries
    BY DEF Frames
  <2>2. x \in known \/ Open(x) \/ Count(x) <= a
    BY <1>1
  <2>3. Open(x) => IsArchive(x)
    BY <2>1, EntryAssumption DEF Open, Frames
  <2> QED
    BY <1>2, <1>3, <2>1, <2>2, <2>3
<1>10. run.resume => \A x \in D : IsArchive(x) /\ ~InArchive[x] => x \in known' \/ Open(x)'
  <2>1. D \subseteq Entries
    BY DEF Frames
  <2> QED
    BY <1>1, <2>1
<1>11. \A x : IsArchive(x)' <=> IsArchive(x)
  BY DEF IsArchive
<1> QED
  BY <1>4, <1>5, <1>6, <1>7, <1>8, <1>9, <1>10, <1>11 DEF Repeats, Inside, b

\* A mishap ends the scan, and allows for one record more of every entry.
LEMMA SettledAfterMishap ==
  ASSUME DriveTypes, Control, [Next]_vars, NEW V, NEW D, NEW P, NEW s \in {0, 1}, Repeats(V, D, P, s),
         \A x \in Entries : Count(x)' <= Count(x), Allowed' >= Allowed + 1
  PROVE  Settled'
<1>1. /\ Allowed \in Nat /\ Allowed' \in Nat
      /\ \A x \in Entries : Count(x) \in Nat /\ Count(x)' \in Nat
  BY NumbersStep
<1>2. Within(P \cup V, Allowed - s) /\ \A x \in Entries : Entry[x].type = "dir" => Count(x) = 0
  BY DEF Repeats
<1>3. \A m, n \in Nat : m <= n /\ n = 0 => m = 0
  OBVIOUS
<1>4. \A k, l, m, n \in Nat : \A u, v \in {0, 1} :
        l >= k + 1 /\ n <= k - u + v /\ m <= n => m <= l + 0
  OBVIOUS
<1>5. \A x \in Entries : Entry[x].type = "dir" => Count(x)' = 0
  BY <1>1, <1>2, <1>3
<1>6. Within({}, Allowed)'
  <2> SUFFICES ASSUME NEW x \in Entries PROVE Count(x)' <= Allowed' + 0
    BY DEF Within
  <2>1. Count(x) <= Allowed - s + (IF x \in P \cup V THEN 1 ELSE 0)
    BY <1>2 DEF Within
  <2>2. PICK v \in {0, 1} : Count(x) <= Allowed - s + v
    BY <2>1
  <2> QED
    BY <1>1, <1>4, <2>2
<1>7. \A K : Anchored({}, K)
  BY DEF Anchored
<1>8. Anchored({}, log \cup legacy)'
  BY <1>7 DEF Anchored
<1> QED
  BY <1>5, <1>6, <1>8 DEF Settled

\* So does an append of an old checkpoint that stops half-way.
LEMMA SettledAfterCut ==
  ASSUME DriveTypes, Control, [Next]_vars, Settled,
         \A x \in Entries : Count(x)' <= Count(x), Allowed' >= Allowed + 1
  PROVE  Settled'
<1>1. /\ Allowed \in Nat /\ Allowed' \in Nat
      /\ \A x \in Entries : Count(x) \in Nat /\ Count(x)' \in Nat
  BY NumbersStep
<1>2. PICK X : Within(X, Allowed)
  BY DEF Settled
<1>3. \A m, n \in Nat : m <= n /\ n = 0 => m = 0
  OBVIOUS
<1>4. \A k, l, m, n \in Nat : \A v \in {0, 1} : l >= k + 1 /\ n <= k + v /\ m <= n => m <= l + 0
  OBVIOUS
<1>5. \A x \in Entries : Entry[x].type = "dir" => Count(x)' = 0
  BY <1>1, <1>3 DEF Settled
<1>6. Within({}, Allowed)'
  <2> SUFFICES ASSUME NEW x \in Entries PROVE Count(x)' <= Allowed' + 0
    BY DEF Within
  <2>1. PICK v \in {0, 1} : Count(x) <= Allowed + v
    BY <1>2 DEF Within
  <2> QED
    BY <1>1, <1>4, <2>1
<1>7. Anchored({}, log \cup legacy)'
  BY DEF Anchored
<1> QED
  BY <1>5, <1>6, <1>7 DEF Settled

\* A scan that finishes: what its log holds, and what is in the archives that the
\* log holds, is not recorded again by a scan that resumes.
LEMMA SettledAfterScan ==
  ASSUME DriveTypes, Control, [Next]_vars, ~orphaned, run.command = "scan", run.named,
         NEW V \in SUBSET Entries, NEW D \in SUBSET Entries, NEW P \in SUBSET Entries,
         NEW s \in {0, 1}, Frames(V, D), Repeats(V, D, P, s), Finish
  PROVE  Settled'
<1>1. /\ walk = <<>> /\ pending = <<>> /\ WriteOut(buffer) /\ buffer' = {}
      /\ UNCHANGED <<log, tail, legacy, stops>>
  BY DEF Finish
<1>2. \A x \in Entries : Count(x)' = Count(x)
  BY <1>1, CountStep
<1>3. Allowed' = Allowed /\ Allowed \in Nat /\ \A x \in Entries : Count(x) \in Nat
  BY <1>1, AllowedStep, NumbersStep
<1>4. /\ Anchored(P, known) /\ Within(P \cup V, Allowed - s)
      /\ \A x \in Entries : Entry[x].type = "dir" => Count(x) = 0
      /\ run.resume =>
           /\ s = 0 => known \subseteq log \cup Elements(pending)
           /\ \A x \in V : ~InArchive[x] /\ Entry[x].type # "dir" =>
                x \in known \/ Open(x) \/ Count(x) <= Allowed - s
           /\ \A x \in D : IsArchive(x) /\ ~InArchive[x] => x \in known \/ Open(x)
  BY DEF Repeats
<1>5. \A x : ~Open(x)
  <2>1. Len(walk) = 0
    BY <1>1
  <2> QED
    BY <2>1 DEF Open
<1>6. Elements(pending) = {}
  BY <1>1, ElementsAre DEF DriveTypes
<1>7. \A k, n \in Nat : /\ n <= k - 1 + 1 => n <= k + 0
                        /\ n <= k - 1 + 0 => n <= k + 0
                        /\ n <= k - 0 + 1 => n <= k + 1
                        /\ n <= k - 1 + 1 => n <= k + 1
                        /\ n <= k - 1 + 0 => n <= k + 1
                        /\ n <= k - 0 + 0 => n <= k + 1 /\ n <= k + 0
                        /\ n <= k - 0 => n <= k + 0
                        /\ n = 0 => n <= k + 0
                        /\ n <= k + 0 => n <= k + 1
  OBVIOUS
<1>8. \A x \in Entries : Entry[x].type = "dir" => Count(x)' = 0
  BY <1>2, <1>4
<1>9. CASE ~run.resume
  <2>1. log' = {} /\ legacy' = {}
    BY <1>1, <1>9 DEF Control
  <2>2. Within(Entries, Allowed)'
    <3> SUFFICES ASSUME NEW x \in Entries PROVE Count(x)' <= Allowed' + 1
      BY DEF Within
    <3>1. Count(x) <= Allowed - s + (IF x \in P \cup V THEN 1 ELSE 0)
      BY <1>4 DEF Within
    <3>2. PICK v \in {0, 1} : Count(x) <= Allowed - s + v
      BY <3>1
    <3>3. Count(x) <= Allowed + 1
      BY <1>3, <1>7, <3>2
    <3> QED
      BY <1>2, <1>3, <3>3
  <2> QED
    BY <1>8, <2>1, <2>2 DEF Settled
<1>10. CASE run.resume /\ s = 1
  <2>1. Within({}, Allowed)'
    <3> SUFFICES ASSUME NEW x \in Entries PROVE Count(x)' <= Allowed' + 0
      BY DEF Within
    <3>1. Count(x) <= Allowed - 1 + (IF x \in P \cup V THEN 1 ELSE 0)
      BY <1>4, <1>10 DEF Within
    <3>2. Count(x) <= Allowed + 0
      BY <1>3, <1>7, <3>1
    <3> QED
      BY <1>2, <1>3, <3>2
  <2>2. Anchored({}, log \cup legacy)'
    BY DEF Anchored
  <2> QED
    BY <1>8, <2>1, <2>2 DEF Settled
<1>11. CASE run.resume /\ s = 0
  <2>5. PICK Q \in SUBSET Entries : Q = P \cup {x \in V : InArchive[x] \/ x \in known}
    OBVIOUS
  <2>1. known \subseteq log
    BY <1>4, <1>6, <1>11
  <2>2. Anchored(Q, log \cup legacy)
    <3> SUFFICES ASSUME NEW x \in Q
                 PROVE  IF InArchive[x] THEN Entry[x].parent \in Q ELSE x \in log
      BY DEF Anchored
    <3>1. CASE x \in P
      BY <1>4, <2>1, <2>5, <3>1 DEF Anchored
    <3>2. CASE x \in V /\ ~InArchive[x]
      <4>1. x \in known \/ x \in P
        BY <2>5, <3>2
      <4> QED
        BY <1>4, <2>1, <3>2, <4>1 DEF Anchored
    <3>3. CASE x \in V /\ InArchive[x]
      <4> DEFINE p == Entry[x].parent
      <4>1. p # Root /\ (IsArchive(p) \/ InArchive[p]) /\ p \in D \cup {Root}
        BY <3>3, InArchiveIs DEF Frames
      <4>2. p \in D /\ p \in V
        BY <4>1 DEF Frames
      <4>3. InArchive[p] \/ p \in known
        BY <1>4, <1>5, <1>11, <4>1, <4>2
      <4> QED
        BY <2>5, <3>3, <4>2, <4>3
    <3> QED
      BY <2>5, <3>1, <3>2, <3>3
  <2>3. Within(Q, Allowed)'
    <3> SUFFICES ASSUME NEW x \in Entries PROVE Count(x)' <= Allowed' + (IF x \in Q THEN 1 ELSE 0)
      BY DEF Within
    <3>1. Count(x) <= Allowed - 0 + (IF x \in P \cup V THEN 1 ELSE 0)
      BY <1>4, <1>11 DEF Within
    <3>2. CASE x \in Q
      <4>1. Count(x) <= Allowed + 1
        BY <1>3, <1>7, <3>1
      <4> QED
        BY <1>2, <1>3, <3>2, <4>1
    <3>3. CASE x \notin Q
      <4>1. x \notin P /\ (x \in V => ~InArchive[x] /\ x \notin known)
        BY <2>5, <3>3
      <4>2. Count(x) <= Allowed + 0
        <5>1. CASE x \notin V
          BY <1>3, <1>7, <3>1, <4>1, <5>1
        <5>2. CASE x \in V /\ Entry[x].type = "dir"
          BY <1>3, <1>4, <1>7, <5>2
        <5>3. CASE x \in V /\ Entry[x].type # "dir"
          <6>1. Count(x) <= Allowed - 0
            BY <1>4, <1>5, <1>11, <4>1, <5>3
          <6> QED
            BY <1>3, <1>7, <6>1
        <5> QED
          BY <5>1, <5>2, <5>3
      <4> QED
        BY <1>2, <1>3, <3>3, <4>2
    <3> QED
      BY <3>2, <3>3
  <2>4. Anchored(Q, log \cup legacy)'
    BY <1>1, <2>2 DEF Anchored
  <2> QED
    BY <1>8, <2>3, <2>4 DEF Settled
<1> QED
  BY <1>9, <1>10, <1>11

\* Between scans nothing is recorded, and mishaps only allow for more.
LEMMA SettledStays ==
  ASSUME DriveTypes, Control, [Next]_vars, Settled, log' = log, legacy' = legacy,
         \A x \in Entries : Count(x)' <= Count(x), Allowed' >= Allowed
  PROVE  Settled'
<1>1. /\ Allowed \in Nat /\ Allowed' \in Nat
      /\ \A x \in Entries : Count(x) \in Nat /\ Count(x)' \in Nat
  BY NumbersStep
<1>2. \A k, l, m, n \in Nat : \A v \in {0, 1} : l >= k /\ n <= k + v /\ m <= n => m <= l + v
  OBVIOUS
<1>3. \A m, n \in Nat : m <= n /\ n = 0 => m = 0
  OBVIOUS
<1>4. \A x \in Entries : Entry[x].type = "dir" => Count(x)' = 0
  BY <1>1, <1>3 DEF Settled
<1>5. ASSUME NEW X, Within(X, Allowed)
      PROVE  Within(X, Allowed)'
  <2> SUFFICES ASSUME NEW x \in Entries PROVE Count(x)' <= Allowed' + (IF x \in X THEN 1 ELSE 0)
    BY DEF Within
  <2>1. PICK v \in {0, 1} : v = IF x \in X THEN 1 ELSE 0
    OBVIOUS
  <2>2. Count(x) <= Allowed + v
    BY <1>5, <2>1 DEF Within
  <2>3. Count(x)' <= Allowed' + v
    BY <1>1, <1>2, <2>2
  <2> QED
    BY <2>1, <2>3
<1>6. CASE log = {} /\ legacy = {} /\ Within(Entries, Allowed)
  <2>1. Within(Entries, Allowed)'
    BY <1>5, <1>6
  <2> QED
    BY <1>4, <1>6, <2>1 DEF Settled
<1>7. CASE \E P \in SUBSET Entries : Anchored(P, log \cup legacy) /\ Within(P, Allowed)
  <2>1. PICK P \in SUBSET Entries : Anchored(P, log \cup legacy) /\ Within(P, Allowed)
    BY <1>7
  <2>2. Within(P, Allowed)'
    BY <1>5, <2>1
  <2>3. Anchored(P, log \cup legacy)'
    BY <2>1 DEF Anchored
  <2> QED
    BY <1>4, <2>2, <2>3 DEF Settled
<1> QED
  BY <1>6, <1>7 DEF Settled

\* A scan begins: it resumes from what the log holds, or has nothing to resume.
LEMMA RepeatsAtStart ==
  ASSUME DriveTypes, Control, [Next]_vars, Settled, ~orphaned', ~strayed',
         NEW named \in BOOLEAN, NEW resume \in BOOLEAN, NEW force \in BOOLEAN,
         NEW hidden \in BOOLEAN, StartScan(named, resume, force, hidden)
  PROVE  RepeatInv'
<1> DEFINE resuming == Loaded(resume) # {}
           refused == named /\ output /\ ~resuming /\ ~force
<1>1. /\ run.command = "idle" /\ known' = Loaded(resume) /\ pending' = <<>> /\ buffer' = {}
      /\ Migrated(resume) /\ stops' = stops /\ inodes' = {}
      /\ run' = IF refused THEN run
                ELSE [command |-> "scan", named |-> named, resume |-> resume,
                       hidden |-> hidden, depth |-> MaxDepth]
      /\ walk' = (IF refused THEN <<>> ELSE Entering(<<>>, Root))
      /\ catalogue' = (IF refused \/ resuming \/ ~named THEN catalogue ELSE [e \in Entries |-> 0])
      /\ orphaned' = (orphaned \/ (named /\ ~refused /\ ~resume /\ log \cup legacy # {}))
      /\ strayed' = (strayed \/ (~named /\ resume))
  BY DEF StartScan
<1>2. buffer' = {}
  BY <1>1
<1>3. /\ Allowed \in Nat /\ Allowed' \in Nat
      /\ \A x \in Entries : Count(x) \in Nat /\ Count(x)' \in Nat
  BY NumbersStep
<1>4. CASE refused
  <2>1. catalogue' = catalogue /\ run'.command # "scan"
    BY <1>1, <1>4
  <2>2. /\ tail' = tail /\ log' = log /\ legacy' = legacy
    <3>1. resume => log = {} /\ legacy = {}
      BY <1>4 DEF Loaded
    <3> QED
      BY <1>1, <3>1, MigratedIs
  <2>3. Allowed' >= Allowed
    <3>1. \A n \in Nat : n >= n
      OBVIOUS
    <3> QED
      BY <1>1, <1>3, <2>2, <3>1, AllowedStep
  <2>4. Settled'
    BY <1>2, <2>1, <2>2, <2>3, CountStep, SettledStays
  <2> QED
    BY <2>1, <2>4 DEF RepeatInv
<1>6. CASE ~refused /\ ~named
  <2>1. ~resume /\ catalogue' = catalogue /\ ~run'.named
    BY <1>1, <1>6
  <2>2. tail' = tail /\ log' = log /\ legacy' = legacy
    BY <1>1, <2>1, MigratedIs
  <2>3. Allowed' >= Allowed
    <3>1. \A n \in Nat : n >= n
      OBVIOUS
    <3> QED
      BY <1>1, <1>3, <2>2, <3>1, AllowedStep
  <2>4. Settled'
    BY <1>2, <2>1, <2>2, <2>3, CountStep, SettledStays
  <2> QED
    BY <2>1, <2>4 DEF RepeatInv
<1>5. CASE ~refused /\ named
  <2>1. /\ run'.command = "scan" /\ run'.resume = resume /\ walk' = Entering(<<>>, Root)
        /\ run'.named
        /\ (~resume => log = {} /\ legacy = {})
    BY <1>1, <1>5
  <2>2. Frames({}, {})'
    BY <1>1, <2>1, StepStarts
  <2>3. \A i \in 1 .. Len(walk') : ~Inside(walk'[i].dir)
    <3>1. \A j \in 1 .. 1 : j = 1
      OBVIOUS
    <3>2. 1 .. Len(walk') = 1 .. 1 /\ walk'[1].dir = Root
      BY <2>1, StartIs
    <3> QED
      BY <3>1, <3>2 DEF Inside
  <2>4. \E P \in SUBSET Entries : \E s \in {0, 1} :
          /\ Anchored(P, known') /\ Within(P, Allowed - s)'
          /\ \A x \in Entries : Entry[x].type = "dir" => Count(x)' = 0
          /\ s = 0 => known' \subseteq log' \cup Elements(pending)'
    <3>1. CASE resuming
      <4>1. resume /\ known' = log \cup legacy /\ known' # {} /\ catalogue' = catalogue
        BY <1>1, <1>5, <3>1 DEF Loaded
      <4>2. PICK P \in SUBSET Entries : Anchored(P, log \cup legacy) /\ Within(P, Allowed)
        BY <4>1 DEF Settled
      <4>3. \A x \in Entries : Count(x)' <= Count(x)
        BY <1>2, <4>1, CountStep
      <4>4. \A x \in Entries : Entry[x].type = "dir" => Count(x)' = 0
        <5>1. \A m, n \in Nat : m <= n /\ n = 0 => m = 0
          OBVIOUS
        <5> QED
          BY <1>3, <4>3, <5>1 DEF Settled
      <4>5. \E s \in {0, 1} : /\ Allowed' - s = Allowed
                              /\ s = 0 => known' \subseteq log'
        <5>1. CASE legacy \subseteq log
          <6>1. log' = log /\ tail' = tail
            BY <1>1, <5>1, MigratedIs
          <6>2. Allowed' - 0 = Allowed
            BY <1>1, <1>3, <6>1, AllowedStep
          <6> QED
            BY <4>1, <5>1, <6>1, <6>2
        <5>2. CASE ~(legacy \subseteq log)
          <6>1. tail' = "none" /\ (tail = "none" => log' = log \cup legacy)
            BY <1>1, <4>1, <5>2, MigratedIs
          <6>2. Allowed' = Allowed + (IF tail = "none" THEN 0 ELSE 1)
            BY <1>1, <6>1, AllowedStep
          <6>3. CASE tail = "none"
            <7>1. Allowed' - 0 = Allowed
              BY <1>3, <6>2, <6>3
            <7> QED
              BY <4>1, <6>1, <6>3, <7>1
          <6>4. CASE tail # "none"
            <7>1. Allowed' - 1 = Allowed
              BY <1>3, <6>2, <6>4
            <7> QED
              BY <7>1
          <6> QED
            BY <6>3, <6>4
        <5> QED
          BY <5>1, <5>2
      <4>6. PICK s \in {0, 1} : Allowed' - s = Allowed /\ (s = 0 => known' \subseteq log')
        BY <4>5
      <4>7. Within(P, Allowed - s)'
        <5> SUFFICES ASSUME NEW x \in Entries
                     PROVE  Count(x)' <= Allowed' - s + (IF x \in P THEN 1 ELSE 0)
          BY DEF Within
        <5>1. PICK v \in {0, 1} : v = IF x \in P THEN 1 ELSE 0
          OBVIOUS
        <5>2. Count(x) <= Allowed + v /\ Count(x)' <= Count(x)
          BY <4>2, <4>3, <5>1 DEF Within
        <5>3. \A k, m, n \in Nat : \A u \in {0, 1} : n <= k + u /\ m <= n => m <= k + u
          OBVIOUS
        <5>4. Count(x)' <= Allowed + v
          BY <1>3, <5>2, <5>3
        <5> QED
          BY <4>6, <5>1, <5>4
      <4> QED
        BY <4>1, <4>2, <4>4, <4>6, <4>7
    <3>2. CASE ~resuming
      <4>1. known' = {} /\ catalogue' = [e \in Entries |-> 0]
        BY <1>1, <1>5, <3>2
      <4>2. \A x \in Entries : Count(x)' = 0
        <5>1. \A x \in Entries : Count(x)' = catalogue'[x] + (IF run'.named /\ x \in buffer' THEN 1 ELSE 0)
          BY DEF Count
        <5> QED
          BY <1>2, <4>1, <5>1
      <4>3. Within({}, Allowed - 0)'
        <5> SUFFICES ASSUME NEW x \in Entries PROVE Count(x)' <= Allowed' - 0 + 0
          BY DEF Within
        <5> QED
          BY <1>3, <4>2
      <4>4. Anchored({}, known')
        BY DEF Anchored
      <4> QED
        BY <4>1, <4>2, <4>3, <4>4
    <3> QED
      BY <3>1, <3>2
  <2>5. PICK P \in SUBSET Entries, s \in {0, 1} :
          /\ Anchored(P, known') /\ Within(P, Allowed - s)'
          /\ \A x \in Entries : Entry[x].type = "dir" => Count(x)' = 0
          /\ s = 0 => known' \subseteq log' \cup Elements(pending)'
    BY <2>4
  <2>6. Within(P \cup {}, Allowed - s)'
    <3>1. P \cup {} = P
      OBVIOUS
    <3> QED
      BY <2>5, <3>1
  <2>7. Anchored(P, known)'
    BY <2>5 DEF Anchored
  <2>8. \A d : Inside(d)' <=> Inside(d)
    BY DEF Inside, IsArchive
  <2>9. Repeats({}, {}, P, s)'
    BY <2>3, <2>5, <2>6, <2>7, <2>8 DEF Repeats
  <2> QED
    BY <2>1, <2>2, <2>9 DEF RepeatInv
<1> QED
  BY <1>4, <1>5, <1>6

\* A step of the walk of a scan.
LEMMA RepeatsInVisit ==
  ASSUME DriveTypes, Control, Busy, run.command = "scan", run.named, [Next]_vars,
         NEW V \in SUBSET Entries, NEW D \in SUBSET Entries, NEW P \in SUBSET Entries,
         NEW s \in {0, 1}, Frames(V, D), Repeats(V, D, P, s), NEW e \in Top.left, Visit(e)
  PROVE  RepeatInv'
<1>1. run' = run /\ e \in Entries
  BY VisitKeeps, StackIsTyped DEF Busy
<1>2. CASE walk' = Without(e) /\ Frames(V \cup {e}, D)'
  <2>1. e \notin D
    <3>1. e \notin V
      BY NextEntry
    <3>2. D \subseteq V
      BY DEF Frames
    <3> QED
      BY <3>1, <3>2
  <2>2. Repeats(V \cup {e}, D, P, s)'
    BY <2>1, RepeatsVisit
  <2> QED
    BY <1>1, <1>2, <2>2 DEF RepeatInv
<1>3. CASE walk' = Entering(Without(e), e) /\ Frames(V \cup {e}, D \cup {e})'
  <2>1. Open(e)'
    BY <1>3, VisitOpens
  <2>2. Repeats(V \cup {e}, D \cup {e}, P, s)'
    BY <2>1, RepeatsVisit
  <2> QED
    BY <1>1, <1>3, <2>2 DEF RepeatInv
<1> QED
  BY <1>2, <1>3, StepVisits

\* The numbers of records stay within the budget, in every step.
LEMMA RepeatStep == DriveTypes /\ Control /\ RepeatInv /\ [Next]_vars => RepeatInv'
<1> SUFFICES ASSUME DriveTypes, Control, RepeatInv, [Next]_vars, ~orphaned', ~strayed'
             PROVE  RepeatInv'
  BY DEF RepeatInv
<1>1. ~orphaned /\ ~strayed
  BY Fates
<1>2. Allowed \in Nat /\ Allowed' \in Nat
  BY NumbersStep
<1>3. \A k, l \in Nat : (l >= k + 1 => l >= k) /\ k >= k
  OBVIOUS
<1>4. /\ stops' = stops /\ tail' = tail => Allowed' = Allowed
      /\ \A m \in Mishaps : Mishap(m) /\ tail' = tail => Allowed' >= Allowed + 1
      /\ Mishap("cut") => Allowed' >= Allowed + 1
      /\ "io" \in Mishaps /\ "kill" \in Mishaps /\ "interrupt" \in Mishaps
  BY AllowedStep DEF Mishaps
<1>5. CASE ~(run.command = "scan" /\ run.named)
  <2>1. Settled
    BY <1>1, <1>5 DEF RepeatInv
  <2>2. ASSUME NEW n \in BOOLEAN, NEW r \in BOOLEAN, NEW f \in BOOLEAN, NEW h \in BOOLEAN,
               StartScan(n, r, f, h)
        PROVE  RepeatInv'
    BY <2>1, <2>2, RepeatsAtStart
  <2>4. CASE MigrationCut
    <3>1. catalogue' = catalogue /\ buffer' = {} /\ run'.command # "scan"
      BY <2>4 DEF MigrationCut, Control, files
    <3>2. Settled'
      BY <1>4, <2>1, <2>4, <3>1, CountStep, SettledAfterCut DEF MigrationCut
    <3> QED
      BY <3>1, <3>2 DEF RepeatInv
  <2>3. CASE ~MigrationCut /\ ~ \E n, r, f, h \in BOOLEAN : StartScan(n, r, f, h)
    <3>1. /\ pending = <<>> /\ ~saving
          /\ run.command # "idle" => ~run.named
          /\ run.command = "idle" => buffer = {}
      BY <1>1, <1>5 DEF Control, DriveTypes, RunTypes, Commands
    <3>3. /\ UNCHANGED <<catalogue, log, legacy, tail>> /\ (~run'.named \/ buffer' = {})
          /\ ~(run'.command = "scan" /\ run'.named)
          /\ stops' = stops \/ \E m \in {"io", "kill", "interrupt"} : Mishap(m)
      <4>1. ASSUME NEW h \in BOOLEAN, NEW x \in BOOLEAN, StartSurvey(h, x)
            PROVE  /\ UNCHANGED <<catalogue, log, legacy, tail, stops>> /\ ~run'.named
        BY <4>1 DEF StartSurvey, disk, files, history
      <4>2. ASSUME Busy, NEW e \in Top.left, Visit(e)
            PROVE  /\ UNCHANGED <<catalogue, log, legacy, tail>> /\ ~run'.named
                   /\ (stops' = stops \/ Mishap("io"))
        <5>1. run' = run /\ ~run.named /\ run.command # "idle"
          BY <3>1, <4>2, VisitKeeps DEF Busy
        <5>2. Flushed(e) => catalogue' = catalogue
          BY <5>1 DEF Flushed, WriteOut
        <5> QED
          BY <4>2, <5>1, <5>2 DEF Visit, SkipScanned, SkipEntry, RecordSymlink, EnterDirectory,
             PassOver, AccessFails, ProcessFile, ProcessFileFails, disk, files, history
      <4>3. CASE LeaveDirectory
        BY <3>1, <4>3 DEF LeaveDirectory, Busy, disk, files, history
      <4>4. CASE Finish
        <5>1. run'.command = "idle" /\ ~run.named
          BY <3>1, <4>4, RunEnds DEF Finish
        <5> QED
          BY <4>4, <5>1 DEF Finish, WriteOut
      <4>5. CASE Interrupt \/ Kill
        <5>1. run'.command = "idle" /\ buffer' = {} /\ ~run.named
          BY <3>1, <4>5, EndIsTyped DEF Interrupt, Kill
        <5> QED
          BY <4>5, <5>1 DEF Interrupt, Kill, WriteOut, disk, files, history
      <4>6. ~Save /\ ~SaveFails /\ ~FinalSave /\ ~KillInAppend
        BY <3>1 DEF Save, SaveFails, FinalSave, KillInAppend
      <4>7. CASE UNCHANGED vars
        BY <1>5, <3>1, <4>7 DEF vars, memory, disk, files, history, DriveTypes, RunTypes, Commands
      <4> QED
        BY <2>3, <4>1, <4>2, <4>3, <4>4, <4>5, <4>6, <4>7 DEF Next
    <3>4. Allowed' >= Allowed
      BY <1>2, <1>3, <1>4, <3>3
    <3>5. \A x \in Entries : Count(x)' <= Count(x)
      BY <3>3, CountStep
    <3>6. Settled'
      BY <2>1, <3>3, <3>4, <3>5, SettledStays
    <3> QED
      BY <3>3, <3>6 DEF RepeatInv
  <2> QED
    BY <2>2, <2>3, <2>4
<1>6. CASE run.command = "scan" /\ run.named
  <2>1. PICK V \in SUBSET Entries, D \in SUBSET Entries, P \in SUBSET Entries, s \in {0, 1} :
          Frames(V, D) /\ Repeats(V, D, P, s)
    BY <1>1, <1>6 DEF RepeatInv
  <2>2. ASSUME \A x \in Entries : Count(x)' <= Count(x), Allowed' >= Allowed + 1,
               run'.command = "idle"
        PROVE  RepeatInv'
    <3>1. Settled'
      BY <2>1, <2>2, SettledAfterMishap
    <3> QED
      BY <2>2, <3>1 DEF RepeatInv
  <2>3. ASSUME run' = run, NEW t \in {0, 1}, Frames(V, D)', Repeats(V, D, P, t)'
        PROVE  RepeatInv'
    BY <1>6, <2>3 DEF RepeatInv
  <2>4. \A k, l \in Nat : \A u \in {0, 1} :
          /\ l = k => l - u >= k - u
          /\ l >= k + 1 => l - u >= k - u /\ l - 1 >= k - u
          /\ l = k + 1 => l - 1 >= k - u
          /\ l = k + 0 => l - u >= k - u
    OBVIOUS
  <2>5. ~MigrationCut /\ ~ \E n, r, f, h \in BOOLEAN : StartScan(n, r, f, h)
    BY <1>6 DEF StartScan, MigrationCut
  <2>6. ~ \E h, x \in BOOLEAN : StartSurvey(h, x)
    BY <1>6 DEF StartSurvey
  <2>7. CASE Busy /\ \E e \in Top.left : Visit(e)
    BY <1>6, <2>1, <2>7, RepeatsInVisit
  <2>8. CASE LeaveDirectory
    <3>1. /\ Frames(V, D)'
          /\ \A i \in 1 .. Len(walk') : i \in 1 .. Len(walk) /\ walk'[i] = walk[i]
          /\ \A d : Open(d) => d = Top.dir \/ Open(d)'
      BY <2>1, <2>8, StepOut
    <3>2. UNCHANGED <<run, catalogue, buffer, log, tail, stops>>
      BY <2>8 DEF LeaveDirectory, disk, files, history
    <3>3. /\ known \subseteq known' /\ known' \subseteq known \cup Elements(pending)'
          /\ Elements(pending) \subseteq Elements(pending)'
          /\ run.resume => \A d \in Entries : d = Top.dir /\ IsArchive(d) => d \in known'
      <4>1. CASE Top.dir # Root /\ IsArchive(Top.dir)
        <5>1. MarkScanned(Top.dir, stats.files)
          BY <1>6, <2>8, <4>1 DEF LeaveDirectory
        <5>2. Top.dir \in Entries
          BY <2>8, <4>1, TopIsFrame DEF LeaveDirectory, Busy, DriveTypes
        <5> QED
          BY <5>1, <5>2, MarkKeeps
      <4>2. CASE ~(Top.dir # Root /\ IsArchive(Top.dir))
        <5>1. UNCHANGED <<known, pending>>
          BY <2>8, <4>2 DEF LeaveDirectory
        <5> QED
          BY <4>2, <5>1, EntryAssumption DEF Elements
      <4> QED
        BY <4>1, <4>2
    <3>4. Allowed' - s >= Allowed - s
      BY <1>2, <1>4, <2>4, <3>2
    <3>5. \A x \in Entries : Count(x)' = Count(x)
      BY <3>2, CountStep
    <3>6. s = 0 /\ (s = 0 => known \subseteq log \cup Elements(pending))
            => known' \subseteq log' \cup Elements(pending)'
      BY <3>2, <3>3
    <3>7. Repeats(V, D, P, s)'
      BY <2>1, <3>1, <3>2, <3>3, <3>4, <3>5, <3>6, RepeatsRest
    <3> QED
      BY <2>3, <3>1, <3>2, <3>7
  <2>9. CASE Save
    <3>1. /\ UNCHANGED <<run, walk, inodes, outcome, known, catalogue, buffer, stops>>
          /\ log' = Appended(pending) /\ tail' = "none"
      BY <2>9 DEF Save, files
    <3>2. Frames(V, D)'
      BY <2>1, <3>1, StepAside
    <3>3. Allowed' = Allowed + (IF tail = "none" THEN 0 ELSE 1)
      BY <3>1, AllowedStep
    <3>4. \A x \in Entries : Count(x)' = Count(x)
      BY <3>1, CountStep
    <3>5. /\ \A i \in 1 .. Len(walk') : \E j \in 1 .. Len(walk) : walk'[i].dir = walk[j].dir
          /\ \A d : Open(d) => Open(d)'
      BY <3>1 DEF Open
    <3>6. CASE tail = "none"
      <4>1. log' = log \cup Elements(pending)
        BY <3>1, <3>6 DEF Appended
      <4>2. Allowed' - s >= Allowed - s
        BY <1>2, <2>4, <3>3, <3>6
      <4>3. s = 0 /\ (s = 0 => known \subseteq log \cup Elements(pending))
              => known' \subseteq log' \cup Elements(pending)'
        BY <3>1, <4>1
      <4>4. Repeats(V, D, P, s)'
        BY <2>1, <3>1, <3>4, <3>5, <4>2, <4>3, RepeatsRest
      <4> QED
        BY <2>3, <3>1, <3>2, <4>4
    <3>7. CASE tail # "none"
      <4>1. Allowed' - 1 >= Allowed - s
        BY <1>2, <2>4, <3>3, <3>7
      <4>2. 1 \in {0, 1} /\ ~(1 = 0)
        OBVIOUS
      <4>3. Repeats(V, D, P, 1)'
        BY <2>1, <3>1, <3>4, <3>5, <4>1, <4>2, RepeatsRest
      <4> QED
        BY <2>3, <3>1, <3>2, <4>2, <4>3
    <3> QED
      BY <3>6, <3>7
  <2>10. CASE SaveFails
    <3>1. Allowed' >= Allowed + 1 /\ UNCHANGED catalogue /\ walk' = walk
      BY <1>4, <2>10 DEF SaveFails, files
    <3>2. CASE walk # <<>>
      <4>1. UNCHANGED <<run, outcome, known, pending, inodes, buffer>>
        BY <2>10, <3>2 DEF SaveFails
      <4>2. Frames(V, D)'
        BY <2>1, <3>1, <4>1, StepAside
      <4>3. \A x \in Entries : Count(x)' = Count(x)
        BY <3>1, <4>1, CountStep
      <4>4. /\ \A i \in 1 .. Len(walk') : \E j \in 1 .. Len(walk) : walk'[i].dir = walk[j].dir
            /\ \A d : Open(d) => Open(d)'
        BY <3>1 DEF Open
      <4>5. Allowed' - 1 >= Allowed - s /\ 1 \in {0, 1} /\ ~(1 = 0)
        <5>1. PICK k \in Nat : k = Allowed
          BY <1>2
        <5>2. PICK l \in Nat : l = Allowed'
          BY <1>2
        <5>3. l >= k + 1
          BY <3>1, <5>1, <5>2
        <5>4. l - 1 >= k - s
          BY <2>4, <5>3
        <5>5. Allowed' - 1 >= Allowed - s
          BY <5>1, <5>2, <5>4
        <5>6. 1 \in {0, 1} /\ ~(1 = 0)
          OBVIOUS
        <5> QED
          BY <5>5, <5>6
      <4>7. Repeats(V, D, P, 1)'
        BY <2>1, <3>1, <4>1, <4>3, <4>4, <4>5, RepeatsRest
      <4> QED
        BY <2>3, <4>1, <4>2, <4>5, <4>7
    <3>3. CASE walk = <<>>
      <4>1. run'.command = "idle" /\ buffer' = {}
        BY <2>10, <3>3, EndIsTyped DEF SaveFails
      <4> QED
        BY <2>2, <3>1, <4>1, CountStep
    <3> QED
      BY <3>2, <3>3
  <2>11. CASE FinalSave
    <3>1. /\ UNCHANGED <<run, walk, inodes, outcome, known, pending, log, tail, stops>>
          /\ WriteOut(buffer) /\ buffer' = {}
      BY <2>11 DEF FinalSave
    <3>2. Frames(V, D)'
      BY <2>1, <3>1, StepAside
    <3>3. \A x \in Entries : Count(x)' = Count(x)
      BY <1>6, <3>1, CountStep
    <3>4. /\ \A i \in 1 .. Len(walk') : \E j \in 1 .. Len(walk) : walk'[i].dir = walk[j].dir
          /\ \A d : Open(d) => Open(d)'
      BY <3>1 DEF Open
    <3>5. Allowed' - s >= Allowed - s
      BY <1>2, <1>4, <2>4, <3>1
    <3>6. Elements(pending)' = Elements(pending)
      BY <3>1 DEF Elements
    <3>7. Repeats(V, D, P, s)'
      BY <2>1, <3>1, <3>3, <3>4, <3>5, <3>6, RepeatsRest
    <3> QED
      BY <2>3, <3>1, <3>2, <3>7
  <2>12. CASE Finish
    <3>1. Settled' /\ run'.command = "idle"
      BY <1>1, <1>6, <2>1, <2>12, SettledAfterScan, RunEnds
    <3> QED
      BY <3>1 DEF RepeatInv
  <2>13. CASE Interrupt \/ Kill \/ KillInAppend
    <3>1. run'.command = "idle" /\ buffer' = {}
      BY <2>13, EndIsTyped DEF Interrupt, Kill, KillInAppend
    <3>2. Allowed' >= Allowed + 1
      BY <1>4, <2>13 DEF Interrupt, Kill, KillInAppend, disk, files, history
    <3>3. WriteOut(buffer) \/ catalogue' = catalogue
      BY <2>13 DEF Interrupt, Kill, KillInAppend, disk, files, history
    <3>4. \A n \in Nat : n <= n
      OBVIOUS
    <3>5. \A x \in Entries : Count(x)' <= Count(x)
      BY <1>6, <3>1, <3>3, <3>4, CountStep, NumbersStep
    <3> QED
      BY <2>2, <3>1, <3>2, <3>5
  <2>14. CASE UNCHANGED vars
    <3>1. /\ UNCHANGED <<run, walk, inodes, outcome, known, pending, log, tail, stops, catalogue, buffer>>
      BY <2>14 DEF vars, memory, disk, files, history
    <3>2. Frames(V, D)'
      BY <2>1, <3>1, StepAside
    <3>3. \A x \in Entries : Count(x)' = Count(x)
      BY <3>1, CountStep
    <3>4. /\ \A i \in 1 .. Len(walk') : \E j \in 1 .. Len(walk) : walk'[i].dir = walk[j].dir
          /\ \A d : Open(d) => Open(d)'
      BY <3>1 DEF Open
    <3>5. Allowed' - s >= Allowed - s
      BY <1>2, <1>4, <2>4, <3>1
    <3>6. Elements(pending)' = Elements(pending)
      BY <3>1 DEF Elements
    <3>7. Repeats(V, D, P, s)'
      BY <2>1, <3>1, <3>3, <3>4, <3>5, <3>6, RepeatsRest
    <3> QED
      BY <2>3, <3>1, <3>2, <3>7
  <2> QED
    BY <2>5, <2>6, <2>7, <2>8, <2>9, <2>10, <2>11, <2>12, <2>13, <2>14 DEF Next
<1> QED
  BY <1>5, <1>6

\* Initially nothing is recorded.
LEMMA InitialRepeats == Init => RepeatInv
<1> SUFFICES ASSUME Init PROVE RepeatInv
  OBVIOUS
<1>1. DriveTypes /\ Control
  BY InitialTypes, InitialControl
<1>2. Allowed \in Nat
  BY <1>1, AllowedIs
<1>3. buffer = {} /\ log = {} /\ legacy \subseteq LegacyPaths /\ run.command = "idle"
      /\ catalogue = [e \in Entries |-> IF e \in legacy THEN 1 ELSE 0]
  BY DEF Init
<1>4. \A x \in Entries : Count(x) = IF x \in legacy THEN 1 ELSE 0
  BY <1>3 DEF Count
<1>5. \A x \in Entries : Entry[x].type = "dir" => Count(x) = 0
  BY <1>3, <1>4, LegacyAssumption
<1>6. Anchored(legacy, log \cup legacy) /\ legacy \in SUBSET Entries
  BY <1>3, LegacyAssumption DEF Anchored
<1>7. Within(legacy, Allowed)
  <2>1. \A n \in Nat : 1 <= n + 1 /\ 0 <= n + 0
    OBVIOUS
  <2> QED
    BY <1>2, <1>4, <2>1 DEF Within
<1> QED
  BY <1>3, <1>5, <1>6, <1>7 DEF RepeatInv, Settled

\* The budget is the bound that the run checks.
LEMMA RepeatsAreBounded == DriveTypes /\ Control /\ RepeatInv => DuplicatesNeedMishaps
<1> SUFFICES ASSUME DriveTypes, Control, RepeatInv, ~orphaned, ~strayed, NEW e \in Entries
             PROVE  catalogue[e] <= 1 + Total + stops["cut"]
  BY DEF DuplicatesNeedMishaps
<1>1. /\ Allowed \in Nat /\ Allowed <= Total + stops["cut"] /\ Total \in Nat /\ stops["cut"] \in Nat
      /\ Count(e) \in Nat /\ catalogue[e] <= Count(e) /\ catalogue[e] \in Nat
  BY AllowedIs, CountIs DEF DriveTypes
<1>2. \E s, v \in {0, 1} : Count(e) <= Allowed - s + v
  <2>1. CASE run.command = "scan" /\ run.named
    <3>1. PICK V \in SUBSET Entries, D \in SUBSET Entries, P \in SUBSET Entries, s \in {0, 1} :
            Repeats(V, D, P, s)
      BY <2>1 DEF RepeatInv
    <3>2. Count(e) <= Allowed - s + (IF e \in P \cup V THEN 1 ELSE 0)
      BY <3>1 DEF Repeats, Within
    <3> QED
      BY <3>2
  <2>2. CASE ~(run.command = "scan" /\ run.named)
    <3>1. PICK X : Within(X, Allowed)
      BY <2>2 DEF RepeatInv, Settled
    <3>2. Count(e) <= Allowed + (IF e \in X THEN 1 ELSE 0)
      BY <3>1 DEF Within
    <3>3. \A k \in Nat : k - 0 = k
      OBVIOUS
    <3>4. Count(e) <= Allowed - 0 + (IF e \in X THEN 1 ELSE 0)
      BY <1>1, <3>2, <3>3
    <3> QED
      BY <3>4
  <2> QED
    BY <2>1, <2>2
<1>3. \A a, t, c, k, n \in Nat : \A s, v \in {0, 1} :
        a <= t + c /\ n <= a - s + v /\ k <= n => k <= 1 + t + c
  OBVIOUS
<1> QED
  BY <1>1, <1>2, <1>3

\* The catalogue and the log: a file is recorded once in the -o file, and once more
\* for each interrupt, crash or error, and again for each append that stopped
\* half-way, as long as the runs that resume and the runs that name the file are
\* the same (checkpoint.py's promise that a crash loses at most one batch, from the
\* other side).
THEOREM DuplicatesAreBounded == Spec => []DuplicatesNeedMishaps
<1>1. Init => DriveInv /\ RepeatInv
  BY InitialInv, InitialRepeats
<1>2. DriveInv /\ RepeatInv /\ [Next]_vars => (DriveInv /\ RepeatInv)'
  <2>1. DriveInv => DriveTypes /\ Control
    BY DEF DriveInv
  <2> QED
    BY <2>1, InvStep, RepeatStep
<1>3. DriveInv /\ RepeatInv => DuplicatesNeedMishaps
  BY RepeatsAreBounded DEF DriveInv
<1> QED
  BY <1>1, <1>2, <1>3, PTL DEF Spec

\* What mishaps may cost in all: types, repeated records and paths at risk.
THEOREM RecordsAreSafe == Spec => []RecordInvariant
<1>1. TypeOK /\ DuplicatesNeedMishaps /\ BatchAtRisk => RecordInvariant
  BY DEF RecordInvariant
<1> QED
  BY <1>1, DriveTypesHold, DuplicatesAreBounded, CrashCostsLittle, PTL
=============================================================================
