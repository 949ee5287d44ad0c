----------------------------- MODULE BerneseProofs -----------------------------
(***************************************************************************)
(* What holds of one Bernese campaign directory for any set of sessions,   *)
(* configurations and data files and any number of calls and faults:       *)
(* results and a priori values are those of the session, the pre-flight    *)
(* check means something, and a preparation that returned left files that  *)
(* fit together.                                                           *)
(***************************************************************************)
EXTENDS BerneseCampaign, FiniteSetTheorems, WellFoundedInduction, TLAPS

Running == {"run", "pass1", "pass2"}
PrepareStep == Tables \cup {"SES", "ORB", "CLK", "verify", "ATX"}
RunSteps == {<<>>, <<"validate", "launch">>, <<"launch">>, <<"collect">>, <<"promote">>}
Step == PrepareStep \cup {"validate", "launch", "collect", "promote"}

AnyConfig == Configs \cup {NoConfig}
AllModels == UNION {c.models : c \in Configs}
AllRows == UNION {c.stations : c \in Configs}

Table == [from : AnyConfig, seed : Sessions \cup {0}, whole : BOOLEAN]
Bpe == [session : Sessions, child : BOOLEAN, id : Nat, pass : Running,
        wrote : SUBSET Outputs, seed : Sessions \cup {0}]
Call == [op : {"none", "prepare"} \cup Running, todo : Seq(Step),
         session : Sessions \cup {0}, config : AnyConfig, seen : SUBSET RinexFiles,
         sta : SUBSET AllRows, models : SUBSET AllModels,
         checked : BOOLEAN, finished : BOOLEAN]
Result == [op : {"none", "prepare"} \cup Running, outcome : {"none", "returned", "raised"},
           session : Sessions \cup {0}, config : AnyConfig, success : BOOLEAN,
           sinex : Sessions \cup {0}]

\* The types of the variables, of the files and of the call in progress.
DiskType ==
    /\ tables \in [Tables -> Table]
    /\ ses \in {"none", "cut", "whole"}
    /\ \A a \in DOMAIN atm : atm[a] \subseteq AllModels
    /\ products \in [Sessions -> [Contents -> {"none", "cut", "whole"}]]
    /\ pool \subseteq RinexFiles /\ outdir \in [Outputs -> SUBSET Sessions]
CallType ==
    /\ bpe \subseteq Bpe /\ call \in Call /\ result \in Result
    /\ calls \in 0 .. MaxCalls /\ faults \in 0 .. MaxFaults

\* Where a call is: a result is there only after it, and the steps that are left
\* are those of its kind.
CallShape ==
    /\ call.op = "none" => call = Idle
    /\ call.op # "none" => call.session \in Sessions /\ result = NoResult
    /\ call.op = "prepare" => call.todo \in Seq(PrepareStep) \ {<<>>}
    /\ call.op \in Running => call.todo \in RunSteps
    /\ call.todo = <<"promote">> => call.op = "pass1" /\ call.finished

\* The child is the one the call waits for, and its outputs are in OUT/ as long as
\* it waits.
ChildShape ==
    /\ \A b \in Child : /\ call.op \in Running /\ call.todo = <<>>
                        /\ b.session = call.session
                        /\ \A k \in b.wrote : b.session \in outdir[k]
    /\ \A b, c \in Child : b = c

\* As long as no BPE has finished without its outputs: a run that finished has its
\* outputs in OUT/, the promoted coordinates are not older than the session, and
\* every second pass uses such.
OutputsOfSession ==
    ~bare =>
    /\ call.finished => \A k \in Outputs : call.session \in outdir[k]
    /\ call.op = "pass2" => tables["CRD"].seed >= call.session
    /\ SessionInvariant

\* Of the files of the configuration each is written or still to be written.
In(s, e) == \E i \in 1 .. Len(s) : s[i] = e
Left(step) == In(call.todo, step)
PreparedSoFar ==
    call.op = "prepare" /\ call.config # NoConfig =>
    /\ \A t \in Tables : \/ tables[t] = Generated(call.config) \/ Left(t)
                         \/ t = "BLQ" /\ ~call.config.blq
    /\ call.config.atx \in DOMAIN atm \cup {""} \/ Left("ATX")

CampaignInv ==
    /\ DiskType /\ CallType /\ CallShape /\ ChildShape
    /\ OutputsOfSession /\ PreparedSoFar
    /\ PreparedIsConsistent /\ ProductsWhole /\ CheckInvariant

-----------------------------------------------------------------------------
(* Facts about data.                                                       *)

\* Of a nonempty set of sessions there is a latest one: the smallest of the sets
\* {y \in S : y >= x} belongs to it.
LEMMA LatestIsLast ==
  ASSUME NEW S \in SUBSET Sessions, S # {}
  PROVE  Latest(S) \in S /\ \A y \in S : y <= Latest(S)
<1> DEFINE From(x) == {y \in S : y >= x}
           T == {From(x) : x \in S}
<1>1. S \subseteq Nat /\ IsFiniteSet(S)
  BY SessionAssumption, FS_Subset
<1>2. T \subseteq FiniteSubsetsOf(S) /\ T # {}
  <2>1. FiniteSubsetsOf(S) = SUBSET S
    BY <1>1, FS_FiniteSubsetsOfFinite
  <2>2. T \subseteq SUBSET S /\ T # {}
    OBVIOUS
  <2> QED
    BY <2>1, <2>2
<1>3. IsWellFoundedOn(StrictSubsetOrdering(S), FiniteSubsetsOf(S))
  BY FS_StrictSubsetOrderingWellFounded
<1> HIDE DEF T
<1>4. PICK m \in T : \A y \in T : <<y, m>> \notin StrictSubsetOrdering(S)
  BY <1>2, <1>3, WFMin
<1> USE DEF T
<1>5. PICK x \in S : m = From(x)
  OBVIOUS
<1>6. ASSUME NEW y \in S, ~(y <= x)
      PROVE  FALSE
  <2>1. x \in Nat /\ y \in Nat /\ y > x /\ \A z \in S : z \in Nat
    BY <1>1, <1>6
  <2>2. ASSUME NEW z \in From(y)
        PROVE  z \in From(x)
    <3>1. z \in S /\ z >= y /\ z \in Nat
      BY <2>1
    <3>2. z >= x
      BY <2>1, <3>1
    <3> QED
      BY <3>1, <3>2
  <2>3. x \notin From(y) /\ x \in From(x)
    BY <2>1
  <2>4. <<From(y), From(x)>> \in StrictSubsetOrdering(S)
    BY <2>2, <2>3 DEF StrictSubsetOrdering
  <2> QED
    BY <1>4, <1>5, <2>4
<1> QED
  BY <1>6 DEF Latest

\* A nonempty set of sessions with one element at most is that of any of its elements.
LEMMA OneSession ==
  ASSUME NEW S \in SUBSET Sessions, ~(Cardinality(S) > 1), NEW x \in S, NEW y \in S
  PROVE  x = y
<1>1. IsFiniteSet(S)
  BY SessionAssumption, FS_Subset
<1>2. IsFiniteSet({x}) /\ Cardinality({x}) = 1
  BY FS_Singleton
<1>3. Cardinality({x}) <= Cardinality(S) /\ (Cardinality(S) = Cardinality({x}) => S = {x})
  BY <1>1, FS_Subset
<1>4. Cardinality(S) \in Nat
  BY <1>1, FS_CardinalityType
<1>5. S = {x}
  BY <1>2, <1>3, <1>4
<1> QED
  BY <1>5

\* What is in two lists is in the one list made of them.
LEMMA InBoth ==
  ASSUME NEW s \in Seq(Step), NEW t \in Seq(Step), NEW e, In(s, e) \/ In(t, e)
  PROVE  In(s \o t, e)
<1>1. CASE In(s, e)
  BY <1>1 DEF In
<1>2. CASE In(t, e)
  <2>1. PICK i \in 1 .. Len(t) : t[i] = e
    BY <1>2 DEF In
  <2>2. Len(s) + i \in 1 .. Len(s \o t) /\ (s \o t)[Len(s) + i] = e
    BY <2>1
  <2> QED
    BY <2>2 DEF In
<1> QED
  BY <1>1, <1>2

\* What is in a list is its first element or in the rest.
LEMMA InRest ==
  ASSUME NEW s \in Seq(Step), s # <<>>, NEW e, In(s, e), e # Head(s)
  PROVE  In(Tail(s), e) /\ Len(s) > 1
<1>1. PICK i \in 1 .. Len(s) : s[i] = e
  BY DEF In
<1>2. i # 1 /\ Len(s) > 1
  BY <1>1
<1>3. i - 1 \in 1 .. Len(Tail(s)) /\ Tail(s)[i - 1] = e
  BY <1>1, <1>2
<1> QED
  BY <1>2, <1>3 DEF In

-----------------------------------------------------------------------------
(* What the parts of a call do to it.                                      *)

\* The lists of steps of a run, and what a call does next with them.
LEMMA ShortLists ==
  /\ <<"validate", "launch">> \in Seq(Step) /\ <<"launch">> \in Seq(Step)
  /\ <<"collect">> \in Seq(Step) /\ <<"promote">> \in Seq(Step) /\ <<>> \in Seq(Step)
  /\ Tail(<<"validate", "launch">>) = <<"launch">> /\ Tail(<<"launch">>) = <<>>
  /\ Head(<<"validate", "launch">>) = "validate" /\ Head(<<"launch">>) = "launch"
  /\ Head(<<"collect">>) = "collect" /\ Head(<<"promote">>) = "promote"
BY DEF Step

\* An idle call has nothing left to do, and what a call ends with is a result.
LEMMA Returns ==
  ASSUME CallType
  PROVE  /\ Idle \in Call /\ NoResult \in Result /\ Idle.todo = <<>>
         /\ \A how \in {"returned", "raised"} : Ended(how) \in Result
<1>1. <<>> \in Seq(Step)
  OBVIOUS
<1> QED
  BY <1>1 DEF Idle, NoResult, Ended, Call, Result, CallType, AnyConfig

\* A list without its first element.
LEMMA RestOfList ==
  ASSUME NEW T, NEW s \in Seq(T), s # <<>>
  PROVE  /\ Tail(s) \in Seq(T) /\ Head(s) \in T /\ Len(s) \in Nat /\ Len(s) >= 1
         /\ Len(s) > 1 => Tail(s) # <<>>
         /\ ~(Len(s) > 1) => Tail(s) = <<>>
<1>1. Len(s) \in Nat /\ Len(s) >= 1 /\ Head(s) \in T
  OBVIOUS
<1>2. Tail(s) \in Seq(T) /\ Len(Tail(s)) = Len(s) - 1
  OBVIOUS
<1> DEFINE t == Tail(s)
<1>3. t \in Seq(T) /\ Len(t) = Len(s) - 1
  BY <1>2
<1> HIDE DEF t
<1>4. Len(s) > 1 => t # <<>>
  BY <1>1, <1>3
<1>5. ~(Len(s) > 1) => t = <<>>
  BY <1>1, <1>3
<1> QED
  BY <1>1, <1>3, <1>4, <1>5 DEF t

\* A sequence over a set is one over any larger set.
LEMMA WiderList ==
  ASSUME NEW T, NEW U, T \subseteq U, NEW s \in Seq(T)
  PROVE  s \in Seq(U)
OBVIOUS

\* A step that is done is taken from the list, or the call returns.
LEMMA ProceedEffect ==
  ASSUME CallType, call.todo # <<>>, Proceed
  PROVE  \/ /\ call' = Continue(call) /\ result' = result /\ Len(call.todo) > 1
            /\ Tail(call.todo) \in Seq(Step) /\ Tail(call.todo) # <<>>
         \/ call' = Idle /\ result' = Ended("returned") /\ ~(Len(call.todo) > 1)
<1>1. call.todo \in Seq(Step)
  BY DEF CallType, Call
<1> QED
  BY <1>1, RestOfList DEF Proceed

\* A call that goes on drops its first step and keeps the rest of its state.
LEMMA ContinueType ==
  ASSUME CallType, call.todo # <<>>
  PROVE  /\ Continue(call) \in Call /\ Continue(call).todo = Tail(call.todo)
         /\ Continue(call).op = call.op /\ Continue(call).session = call.session
         /\ Continue(call).config = call.config /\ Continue(call).seen = call.seen
         /\ Continue(call).sta = call.sta /\ Continue(call).models = call.models
         /\ Continue(call).checked = call.checked /\ Continue(call).finished = call.finished
<1>1. call \in Call /\ call.todo \in Seq(Step)
  BY DEF CallType, Call
<1>2. Tail(call.todo) \in Seq(Step)
  BY <1>1, RestOfList
<1> QED
  BY <1>1, <1>2 DEF Continue, Call

\* The list of a preparation holds its steps, and each of its configuration's files.
LEMMA PrepareList ==
  ASSUME NEW prefetch \in BOOLEAN, NEW config \in AnyConfig
  PROVE  /\ PrepareSteps(prefetch, config) \in Seq(PrepareStep) \ {<<>>}
         /\ config # NoConfig =>
              /\ \A t \in Tables : \/ In(PrepareSteps(prefetch, config), t)
                                   \/ t = "BLQ" /\ ~config.blq
              /\ config.atx = "" \/ In(PrepareSteps(prefetch, config), "ATX")
<1> DEFINE A == IF prefetch THEN <<"ORB", "CLK", "verify">> ELSE <<>>
           B == <<"STA", "CRD", "ABB">>
           C == IF config.atx = "" THEN <<>> ELSE <<"ATX">>
           D == <<"VEL", "CLU">>
           E == IF config.blq THEN <<"BLQ">> ELSE <<>>
           F == IF config = NoConfig THEN <<>> ELSE B \o C \o D \o E
           S == <<"SES">>
<1>1. PrepareSteps(prefetch, config) = S \o A \o F
  BY DEF PrepareSteps
<1>2. /\ A \in Seq(PrepareStep) /\ B \in Seq(PrepareStep) /\ C \in Seq(PrepareStep)
      /\ D \in Seq(PrepareStep) /\ E \in Seq(PrepareStep) /\ S \in Seq(PrepareStep)
  <2>1. /\ <<"ORB", "CLK", "verify">> \in Seq(PrepareStep)
        /\ <<"STA", "CRD", "ABB">> \in Seq(PrepareStep)
    BY DEF PrepareStep, Tables
  <2>2. /\ <<"ATX">> \in Seq(PrepareStep) /\ <<"BLQ">> \in Seq(PrepareStep)
        /\ <<"SES">> \in Seq(PrepareStep) /\ <<>> \in Seq(PrepareStep)
    BY DEF PrepareStep, Tables
  <2>3. <<"VEL", "CLU">> \in Seq(PrepareStep)
    BY DEF PrepareStep, Tables
  <2> QED
    BY <2>1, <2>2, <2>3
<1>3. PrepareStep \subseteq Step
  BY DEF Step
<1>4. /\ A \in Seq(Step) /\ B \in Seq(Step) /\ C \in Seq(Step)
      /\ D \in Seq(Step) /\ E \in Seq(Step) /\ S \in Seq(Step)
  <2> HIDE DEF A, B, C, D, E, S
  <2> QED
    BY <1>2, <1>3, WiderList
<1>5. Len(S) = 1
  OBVIOUS
<1>6. In(B, "STA") /\ In(B, "CRD") /\ In(B, "ABB") /\ In(D, "VEL") /\ In(D, "CLU")
  <2>1. 1 \in 1 .. Len(B) /\ 2 \in 1 .. Len(B) /\ 3 \in 1 .. Len(B)
    OBVIOUS
  <2>2. 1 \in 1 .. Len(D) /\ 2 \in 1 .. Len(D)
    OBVIOUS
  <2>3. B[1] = "STA" /\ B[2] = "CRD" /\ B[3] = "ABB" /\ D[1] = "VEL" /\ D[2] = "CLU"
    OBVIOUS
  <2> QED
    BY <2>1, <2>2, <2>3 DEF In
<1>7. (config.blq => In(E, "BLQ")) /\ (config.atx # "" => In(C, "ATX"))
  <2>1. In(<<"BLQ">>, "BLQ") /\ In(<<"ATX">>, "ATX")
    <3>1. /\ 1 \in 1 .. Len(<<"BLQ">>) /\ <<"BLQ">>[1] = "BLQ"
          /\ 1 \in 1 .. Len(<<"ATX">>) /\ <<"ATX">>[1] = "ATX"
      OBVIOUS
    <3> QED
      BY <3>1 DEF In
  <2> QED
    BY <2>1
<1> HIDE DEF A, B, C, D, E, S
<1>8. F \in Seq(PrepareStep) /\ F \in Seq(Step)
  BY <1>2, <1>4
<1>9. S \o A \o F \in Seq(PrepareStep) /\ S \o A \o F # <<>>
  <2> HIDE DEF F
  <2>1. S \o A \o F \in Seq(PrepareStep) /\ Len(S \o A \o F) = Len(S) + Len(A) + Len(F)
    BY <1>2, <1>8
  <2>2. Len(A) \in Nat /\ Len(F) \in Nat
    BY <1>2, <1>8
  <2>3. Len(S \o A \o F) # 0
    BY <2>1, <2>2, <1>5
  <2> QED
    BY <2>1, <2>3
<1>10. ASSUME NEW e, config # NoConfig, In(B, e) \/ In(C, e) \/ In(D, e) \/ In(E, e)
       PROVE  In(S \o A \o F, e)
  <2>1. B \o C \in Seq(Step) /\ B \o C \o D \in Seq(Step) /\ S \o A \in Seq(Step)
    BY <1>4
  <2>2. In(B, e) \/ In(C, e) => In(B \o C, e)
    BY <1>4, InBoth
  <2>3. In(B \o C, e) \/ In(D, e) => In(B \o C \o D, e)
    BY <1>4, <2>1, InBoth
  <2>4. In(B \o C \o D, e) \/ In(E, e) => In(B \o C \o D \o E, e)
    BY <1>4, <2>1, InBoth
  <2>5. In(F, e)
    BY <1>10, <2>2, <2>3, <2>4
  <2> QED
    BY <2>1, <2>5, <1>8, InBoth
<1> QED
  BY <1>1, <1>6, <1>7, <1>9, <1>10 DEF Tables

\* The step that is done says what kind of call is under way.
LEMMA DoingWhat ==
  ASSUME CallType, CallShape, NEW step, Doing(step)
  PROVE  /\ call.op # "none" /\ call.session \in Sessions /\ result = NoResult
         /\ call.todo # <<>>
         /\ step \in PrepareStep => call.op = "prepare" /\ call.todo \in Seq(PrepareStep)
         /\ step \notin PrepareStep =>
              /\ call.op \in Running
              /\ step = "validate" => call.todo = <<"validate", "launch">>
              /\ step = "launch" => call.todo = <<"launch">>
              /\ step = "collect" => call.todo = <<"collect">>
              /\ step = "promote" => call.todo = <<"promote">>
<1>1. call.todo # <<>> /\ Head(call.todo) = step /\ call \in Call
  BY DEF Doing, CallType
<1>2. call.op # "none"
  BY <1>1 DEF CallShape, Idle
<1>3. call.op \in {"prepare"} \cup Running
  BY <1>1, <1>2 DEF Call
<1>4. CASE call.op = "prepare"
  <2>1. call.todo \in Seq(PrepareStep)
    BY <1>4 DEF CallShape
  <2>2. step \in PrepareStep
    BY <2>1, <1>1, RestOfList
  <2> QED
    BY <1>1, <1>2, <1>4, <2>1, <2>2 DEF CallShape
<1>5. CASE call.op \in Running
  <2>1. call.todo \in RunSteps
    BY <1>5 DEF CallShape
  <2>2. step \notin PrepareStep
    BY <1>1, <2>1, ShortLists DEF RunSteps, PrepareStep, Tables
  <2> QED
    BY <1>1, <1>2, <1>5, <2>1, <2>2, ShortLists DEF CallShape, RunSteps
<1> QED
  BY <1>3, <1>4, <1>5

\* What a preparation writes has the types of the disk.
LEMMA WrittenTypes ==
  ASSUME CallType
  PROVE  /\ Generated(call.config) \in Table
         /\ [Generated(call.config) EXCEPT !.whole = FALSE] \in Table
         /\ call.config.models \subseteq AllModels
<1>1. call.config \in AnyConfig
  BY DEF CallType, Call
<1>2. call.config.models \subseteq AllModels
  <2>1. CASE call.config \in Configs
    BY <2>1 DEF AllModels
  <2>2. CASE call.config = NoConfig
    <3>1. NoConfig.models = {}
      BY DEF NoConfig
    <3> QED
      BY <2>2, <3>1
  <2> QED
    BY <1>1, <2>1, <2>2 DEF AnyConfig
<1>3. Generated(call.config) = [from |-> call.config, seed |-> 0, whole |-> TRUE]
  BY DEF Generated
<1>4. [from |-> call.config, seed |-> 0, whole |-> TRUE] \in Table
  BY <1>1 DEF Table
<1>5. [Generated(call.config) EXCEPT !.whole = FALSE] \in Table
  BY <1>3, <1>4 DEF Table
<1> QED
  BY <1>2, <1>3, <1>4, <1>5

\* No step breaks the types of what is on the disk.
LEMMA DiskStep ==
  ASSUME DiskType, CallType, CallShape, Next
  PROVE  DiskType'
<1> USE DEF DiskType
<1>1. ASSUME NEW s \in Sessions, NEW prefetch \in BOOLEAN, NEW c \in Configs \cup {NoConfig},
             PrepareCampaign(s, prefetch, c)
      PROVE  DiskType'
  BY <1>1 DEF PrepareCampaign, disk
<1>2. CASE StageSessions
  BY <1>2 DEF StageSessions
<1>3. ASSUME NEW c \in Contents, DownloadProduct(c)
      PROVE  DiskType'
  <2>1. call.session \in Sessions
    BY <1>3, DoingWhat DEF DownloadProduct
  <2>2. products' = products \/ \E state \in {"whole", "cut"} : SetProduct(c, state)
    BY <1>3 DEF DownloadProduct
  <2>3. products' \in [Sessions -> [Contents -> {"none", "cut", "whole"}]]
    BY <2>1, <2>2 DEF SetProduct
  <2> QED
    BY <1>3, <2>3 DEF DownloadProduct
<1>4. CASE VerifyProducts
  BY <1>4 DEF VerifyProducts, disk
<1>5. ASSUME NEW t \in Tables, WriteTable(t)
      PROVE  DiskType'
  BY <1>5, WrittenTypes DEF WriteTable
<1>6. CASE StageAtx
  <2>1. \A a \in DOMAIN atm' : atm'[a] \subseteq AllModels
    BY <1>6, WrittenTypes DEF StageAtx
  <2> QED
    BY <1>6, <2>1 DEF StageAtx
<1>7. CASE DownloadBlq
  <2>1. tables' = tables \/ tables' = [tables EXCEPT !["BLQ"] = Generated(call.config)]
    BY <1>7 DEF DownloadBlq
  <2> QED
    BY <1>7, <2>1, WrittenTypes DEF DownloadBlq
<1>8. CASE PrepareCut
  <2> DEFINE step == Head(call.todo)
  <2>1. CASE /\ step \in Tables /\ UNCHANGED <<ses, atm, products>>
             /\ tables' = [tables EXCEPT ![step] = [Generated(call.config) EXCEPT !.whole = FALSE]]
    BY <1>8, <2>1, WrittenTypes DEF PrepareCut
  <2>2. CASE ses' = "cut" /\ UNCHANGED <<tables, atm, products>>
    BY <1>8, <2>2 DEF PrepareCut
  <2>3. ASSUME NEW part \in SUBSET call.config.models, UNCHANGED <<tables, ses, products>>,
               atm' = [a \in DOMAIN atm \cup {call.config.atx} |->
                         IF a = call.config.atx THEN part ELSE atm[a]]
        PROVE  DiskType'
    BY <1>8, <2>3, WrittenTypes DEF PrepareCut
  <2> QED
    BY <1>8, <2>1, <2>2, <2>3 DEF PrepareCut
<1>9. ASSUME NEW s \in Sessions, Run(s) \/ RunContinuous(s)
      PROVE  DiskType'
  BY <1>9 DEF Run, RunContinuous, disk
<1>10. CASE Validate
  BY <1>10 DEF Validate, disk
<1>11. CASE Launch
  BY <1>11 DEF Launch, disk
<1>12. ASSUME NEW b \in bpe, BpeEnds(b)
       PROVE  DiskType'
  BY <1>12 DEF BpeEnds, disk
<1>13. ASSUME NEW b \in bpe, NEW k \in Outputs, BpeWrites(b, k)
       PROVE  DiskType'
  <2>1. b.session \in Sessions
    BY DEF CallType, Bpe
  <2> QED
    BY <1>13, <2>1 DEF BpeWrites, disk
<1>14. CASE TimedOut
  BY <1>14 DEF TimedOut, disk
<1>15. CASE Collect
  BY <1>15 DEF Collect, disk
<1>16. CASE Promote
  <2>1. outdir["fin"] # {} => Seed \in Sessions
    BY LatestIsLast DEF Seed, Outputs
  <2>2. tables["CRD"] \in Table
    BY DEF Tables
  <2>3. outdir["fin"] # {} => [from |-> tables["CRD"].from, seed |-> Seed, whole |-> TRUE] \in Table
    BY <2>1, <2>2 DEF Table
  <2>4. tables' \in [Tables -> Table]
    BY <1>16, <2>3 DEF Promote
  <2> QED
    BY <1>16, <2>4 DEF Promote
<1>17. CASE RinexArrives
  BY <1>17 DEF RinexArrives, disk
<1>18. CASE CleanOut
  BY <1>18 DEF CleanOut, disk
<1> QED
  BY <1>1, <1>2, <1>3, <1>4, <1>5, <1>6, <1>7, <1>8, <1>9, <1>10, <1>11, <1>12, <1>13,
     <1>14, <1>15, <1>16, <1>17, <1>18 DEF Next, Prepare

\* A call that begins has nothing behind it.
LEMMA BeginEffect ==
  ASSUME CallType, NEW op \in {"prepare"} \cup Running, NEW todo \in Seq(Step),
         NEW session \in Sessions, NEW config \in AnyConfig,
         Begin(op, todo, session, config)
  PROVE  /\ call = Idle /\ call' \in Call /\ result' = NoResult /\ calls' \in 0 .. MaxCalls
         /\ call'.op = op /\ call'.todo = todo /\ call'.session = session
         /\ call'.config = config /\ ~call'.checked /\ ~call'.finished
<1>1. /\ call = Idle /\ result' = NoResult
      /\ call' = [Idle EXCEPT !.op = op, !.todo = todo, !.session = session, !.config = config]
  BY DEF Begin
<1>2. calls' \in 0 .. MaxCalls
  BY BoundAssumption DEF Begin, CallType
<1>3. Idle \in Call
  BY Returns
<1>4. call' \in Call
  BY <1>1, <1>3 DEF Call
<1> QED
  BY <1>1, <1>2, <1>4 DEF Idle

\* A call that is over: nothing of it is left.
LEMMA OverShape ==
  ASSUME call' = Idle
  PROVE  CallShape'
BY DEF CallShape, Idle, Running

\* A step of a preparation that is done leaves a preparation, or its result.
LEMMA PrepareGoesOn ==
  ASSUME CallType, CallShape, NEW step \in PrepareStep, Doing(step), Proceed
  PROVE  /\ call' \in Call /\ result' \in Result /\ CallShape'
         /\ \/ call' = Continue(call) /\ result' = result /\ Tail(call.todo) # <<>>
            \/ call' = Idle /\ result' = Ended("returned") /\ ~(Len(call.todo) > 1)
<1>1. /\ call.op = "prepare" /\ call.todo \in Seq(PrepareStep) /\ call.todo # <<>>
      /\ call.session \in Sessions /\ result = NoResult
  BY DoingWhat
<1>2. CASE /\ call' = Continue(call) /\ result' = result /\ Tail(call.todo) # <<>>
  <2>1. /\ call' \in Call /\ call'.todo = Tail(call.todo) /\ call'.op = call.op
        /\ call'.session = call.session
    BY <1>1, <1>2, ContinueType
  <2>2. Tail(call.todo) \in Seq(PrepareStep)
    BY <1>1, RestOfList
  <2>3. Tail(call.todo) # <<"promote">>
    <3>1. Tail(call.todo) # <<>> => Head(Tail(call.todo)) \in PrepareStep
      BY <2>2, RestOfList
    <3>2. "promote" \notin PrepareStep
      BY DEF PrepareStep, Tables
    <3> QED
      BY <1>2, <3>1, <3>2, ShortLists
  <2>4. CallShape'
    BY <1>1, <1>2, <2>1, <2>2, <2>3 DEF CallShape, Running
  <2> QED
    BY <1>2, <2>1, <2>4 DEF CallType
<1>3. CASE call' = Idle /\ result' = Ended("returned") /\ ~(Len(call.todo) > 1)
  BY <1>3, Returns, OverShape
<1> QED
  BY <1>1, <1>2, <1>3, ProceedEffect

\* A call that raises is over, with the result that says so.
LEMMA RaiseEffect ==
  ASSUME CallType, Raise
  PROVE  call' = Idle /\ result' = Ended("raised") /\ call' \in Call /\ result' \in Result
         /\ CallShape'
<1>1. call' = Idle /\ result' = Ended("raised")
  BY DEF Raise
<1> QED
  BY <1>1, Returns, OverShape

\* A fault is counted.
LEMMA FaultEffect ==
  ASSUME CallType, Fault
  PROVE  faults' \in 0 .. MaxFaults /\ faults' # 0
BY BoundAssumption DEF Fault, CallType

\* The rows of the station file and the models of the antenna file are those of some
\* configuration.
LEMMA CheckedAgainst ==
  ASSUME DiskType, NEW sta \in StaRows
  PROVE  sta \in SUBSET AllRows /\ Models \in SUBSET AllModels
<1>1. tables["STA"].from \in AnyConfig
  BY DEF DiskType, Tables, Table
<1>2. tables["STA"].from.stations \subseteq AllRows
  <2>1. CASE tables["STA"].from \in Configs
    BY <2>1 DEF AllRows
  <2>2. CASE tables["STA"].from = NoConfig
    <3>1. NoConfig.stations = {}
      BY DEF NoConfig
    <3> QED
      BY <2>2, <3>1
  <2> QED
    BY <1>1, <2>1, <2>2 DEF AnyConfig
<1>3. sta \subseteq tables["STA"].from.stations
  BY DEF StaRows
<1>4. Models \subseteq AllModels
  BY DEF Models, DiskType
<1> QED
  BY <1>2, <1>3, <1>4

\* An output is written by a process of the same kind.
LEMMA BpeWritesType ==
  ASSUME CallType, NEW b \in bpe, NEW k \in Outputs, BpeWrites(b, k)
  PROVE  /\ bpe' = (bpe \ {b}) \cup {[b EXCEPT !.wrote = @ \cup {k}]}
         /\ [b EXCEPT !.wrote = @ \cup {k}] \in Bpe /\ b \in Bpe
<1>1. b \in Bpe
  BY DEF CallType
<1> QED
  BY <1>1 DEF BpeWrites, Bpe

\* A call keeps its types, and at each stage it has the steps that are left there.
LEMMA CallStep ==
  ASSUME DiskType, CallType, CallShape, ChildShape, Next
  PROVE  CallType' /\ CallShape'
<1>1. ASSUME NEW s \in Sessions, NEW prefetch \in BOOLEAN, NEW c \in Configs \cup {NoConfig},
             PrepareCampaign(s, prefetch, c)
      PROVE  CallType' /\ CallShape'
  <2> DEFINE todo == PrepareSteps(prefetch, c)
  <2>1. c \in AnyConfig
    BY DEF AnyConfig
  <2>2. todo \in Seq(PrepareStep) \ {<<>>}
    BY <2>1, PrepareList
  <2>3. PrepareStep \subseteq Step /\ "promote" \notin PrepareStep
    BY DEF Step, PrepareStep, Tables
  <2>4. todo \in Seq(Step)
    BY <2>2, <2>3, WiderList
  <2>5. Begin("prepare", todo, s, c)
    BY <1>1 DEF PrepareCampaign
  <2> HIDE DEF todo
  <2>6. /\ call' \in Call /\ result' = NoResult /\ calls' \in 0 .. MaxCalls
        /\ call'.op = "prepare" /\ call'.todo = todo /\ call'.session = s
    BY <2>1, <2>4, <2>5, BeginEffect
  <2>7. todo # <<"promote">>
    BY <2>2, <2>3, RestOfList, ShortLists
  <2>8. CallShape'
    BY <2>2, <2>6, <2>7 DEF CallShape, Running
  <2>9. CallType'
    BY <1>1, <2>6, Returns DEF PrepareCampaign, CallType
  <2> QED
    BY <2>8, <2>9
<1>2. CASE StageSessions
  BY <1>2, PrepareGoesOn DEF StageSessions, CallType, PrepareStep
<1>3. ASSUME NEW c \in Contents, DownloadProduct(c)
      PROVE  CallType' /\ CallShape'
  <2>1. c \in PrepareStep /\ Doing(c) /\ bpe' = bpe /\ calls' = calls
    BY <1>3 DEF DownloadProduct, PrepareStep, Contents
  <2>2. (Proceed \/ Raise) /\ (faults' = faults \/ Fault)
    BY <1>3 DEF DownloadProduct
  <2>3. call' \in Call /\ result' \in Result /\ CallShape'
    BY <2>1, <2>2, PrepareGoesOn, RaiseEffect
  <2> QED
    BY <2>1, <2>2, <2>3, FaultEffect DEF CallType
<1>4. CASE VerifyProducts
  BY <1>4, PrepareGoesOn, RaiseEffect DEF VerifyProducts, CallType, PrepareStep
<1>5. ASSUME NEW t \in Tables, WriteTable(t)
      PROVE  CallType' /\ CallShape'
  BY <1>5, PrepareGoesOn DEF WriteTable, CallType, PrepareStep
<1>6. CASE StageAtx
  BY <1>6, PrepareGoesOn DEF StageAtx, CallType, PrepareStep
<1>7. CASE DownloadBlq
  BY <1>7, PrepareGoesOn, RaiseEffect DEF DownloadBlq, CallType, PrepareStep, Tables
<1>8. CASE PrepareCut
  BY <1>8, RaiseEffect, FaultEffect DEF PrepareCut, CallType
<1>9. ASSUME NEW s \in Sessions, Run(s) \/ RunContinuous(s)
      PROVE  CallType' /\ CallShape'
  <2> DEFINE todo == <<"validate", "launch">>
  <2>1. NoConfig \in AnyConfig /\ todo \in Seq(Step) /\ todo \in RunSteps
        /\ todo # <<"promote">>
    BY ShortLists DEF AnyConfig, RunSteps
  <2>2. PICK op \in {"run", "pass1"} : Begin(op, todo, s, NoConfig)
    BY <1>9 DEF Run, RunContinuous
  <2>3. op \in Running
    BY DEF Running
  <2> HIDE DEF todo
  <2>4. /\ call' \in Call /\ result' = NoResult /\ calls' \in 0 .. MaxCalls
        /\ call'.op = op /\ call'.todo = todo /\ call'.session = s
    BY <2>1, <2>2, <2>3, BeginEffect
  <2>5. CallShape'
    BY <2>1, <2>3, <2>4 DEF CallShape, Running
  <2>6. bpe' = bpe /\ faults' = faults
    BY <1>9 DEF Run, RunContinuous
  <2> QED
    BY <2>4, <2>5, <2>6, Returns DEF CallType
<1>10. CASE Validate
  <2>1. /\ call.op \in Running /\ call.op # "none" /\ call.session \in Sessions
        /\ result = NoResult /\ call.todo = <<"validate", "launch">>
    <3>1. Doing("validate") /\ "validate" \notin PrepareStep
      BY <1>10 DEF Validate, PrepareStep, Tables
    <3> QED
      BY <3>1, DoingWhat
  <2>2. call.todo # <<>>
    BY <2>1
  <2>3. /\ Continue(call) \in Call /\ Continue(call).todo = <<"launch">>
        /\ Continue(call).op = call.op /\ Continue(call).session = call.session
    BY <2>1, <2>2, ContinueType, ShortLists
  <2>7. bpe' = bpe /\ calls' = calls /\ faults' = faults
    BY <1>10 DEF Validate
  <2>8. <<"launch">> # <<"promote">>
    BY ShortLists
  <2>4. CASE call' = Continue(call) /\ result' = result
    <3>1. /\ call' \in Call /\ call'.todo = <<"launch">>
          /\ call'.op = call.op /\ call'.session = call.session
      BY <2>3, <2>4
    <3> QED
      BY <2>1, <2>4, <2>7, <2>8, <3>1 DEF CallType, CallShape, Running, RunSteps
  <2>5. ASSUME NEW sta \in StaRows, result' = result,
               call' = [Continue(call) EXCEPT !.checked = TRUE, !.seen = pool,
                                              !.sta = sta, !.models = Models]
        PROVE  CallType' /\ CallShape'
    <3>1. sta \in SUBSET AllRows /\ Models \in SUBSET AllModels /\ pool \in SUBSET RinexFiles
      BY CheckedAgainst DEF DiskType
    <3>2. /\ call' \in Call /\ call'.todo = <<"launch">>
          /\ call'.op = call.op /\ call'.session = call.session
      BY <2>3, <2>5, <3>1 DEF Call
    <3> QED
      BY <2>1, <2>5, <2>7, <2>8, <3>2 DEF CallType, CallShape, Running, RunSteps
  <2>6. CASE Raise
    BY <1>10, <2>6, RaiseEffect DEF Validate, CallType
  <2> QED
    BY <1>10, <2>4, <2>5, <2>6 DEF Validate
<1>11. CASE Launch
  <2>1. /\ call.op \in Running /\ call.op # "none" /\ call.session \in Sessions
        /\ result = NoResult /\ call.todo = <<"launch">>
    BY <1>11, DoingWhat DEF Launch, PrepareStep, Tables
  <2>2. call.todo # <<>>
    BY <2>1
  <2>3. /\ Continue(call) \in Call /\ Continue(call).todo = <<>>
        /\ Continue(call).op = call.op /\ Continue(call).session = call.session
    BY <2>1, <2>2, ContinueType, ShortLists
  <2>4. CallShape'
    BY <1>11, <2>1, <2>3 DEF Launch, CallShape, Running, RunSteps
  <2>5. tables["CRD"].seed \in Sessions \cup {0} /\ calls \in Nat
    BY BoundAssumption DEF DiskType, Tables, Table, CallType
  <2>6. [session |-> call.session, child |-> TRUE, id |-> calls,
         pass |-> call.op, wrote |-> {}, seed |-> tables["CRD"].seed] \in Bpe
    BY <2>1, <2>5 DEF Bpe
  <2> QED
    BY <1>11, <2>3, <2>4, <2>6 DEF Launch, CallType
<1>12. ASSUME NEW b \in bpe, BpeEnds(b)
       PROVE  CallType' /\ CallShape'
  <2>1. bpe' \subseteq Bpe /\ result' = result /\ calls' = calls /\ faults' = faults
    BY <1>12 DEF BpeEnds, CallType
  <2>2. CASE call' = call
    BY <2>1, <2>2 DEF CallType, CallShape
  <2>3. ASSUME NEW finished \in BOOLEAN, b.child,
               call' = [call EXCEPT !.todo = <<"collect">>, !.finished = finished]
        PROVE  CallType' /\ CallShape'
    <3>1. call.op \in Running
      BY <2>3 DEF ChildShape, Child
    <3>2. /\ call' \in Call /\ call'.op = call.op /\ call'.todo = <<"collect">>
          /\ call'.session = call.session
      BY <2>3, ShortLists DEF CallType, Call
    <3>3. call.session \in Sessions /\ result = NoResult
      BY <3>1 DEF CallShape, Running
    <3>4. CallShape'
      BY <2>1, <3>1, <3>2, <3>3, ShortLists DEF CallShape, Running, RunSteps
    <3> QED
      BY <2>1, <3>2, <3>4 DEF CallType
  <2> QED
    BY <1>12, <2>2, <2>3 DEF BpeEnds
<1>13. ASSUME NEW b \in bpe, NEW k \in Outputs, BpeWrites(b, k)
       PROVE  CallType' /\ CallShape'
  BY <1>13, BpeWritesType DEF BpeWrites, CallType, CallShape
<1>14. CASE TimedOut
  <2>1. \A b \in bpe : [b EXCEPT !.child = FALSE] \in Bpe
    BY DEF CallType, Bpe
  <2> QED
    BY <1>14, <2>1, RaiseEffect, FaultEffect DEF TimedOut, CallType
<1>15. CASE Collect
  <2>1. /\ call.op \in Running /\ call.op # "none" /\ call.session \in Sessions
        /\ result = NoResult /\ call.todo = <<"collect">>
    BY <1>15, DoingWhat DEF Collect, PrepareStep, Tables
  <2>2. CASE Raise
    BY <1>15, <2>2, RaiseEffect DEF Collect, CallType
  <2>3. CASE /\ call.op = "pass1" /\ call.finished /\ result' = result
             /\ call' = [call EXCEPT !.todo = <<"promote">>]
    <3>1. /\ call' \in Call /\ call'.op = "pass1" /\ call'.todo = <<"promote">>
          /\ call'.finished /\ call'.session = call.session
      BY <2>3, ShortLists DEF CallType, Call
    <3> QED
      BY <1>15, <2>1, <2>3, <3>1 DEF Collect, CallType, CallShape, Running, RunSteps
  <2>4. ASSUME NEW s \in CollectOutputs, call' = Idle, result' = Returned(s)
        PROVE  CallType' /\ CallShape'
    <3>1. s \in Sessions \cup {0} /\ call.finished \in BOOLEAN
      BY DEF CollectOutputs, DiskType, Outputs, CallType, Call
    <3>2. Returned(s) \in Result
      BY <3>1, Returns DEF Returned, Result
    <3> QED
      BY <1>15, <2>4, <3>2, Returns, OverShape DEF Collect, CallType
  <2> QED
    BY <1>15, <2>2, <2>3, <2>4 DEF Collect
<1>16. CASE Promote
  <2>1. /\ call.op \in Running /\ call.op # "none" /\ call.session \in Sessions
        /\ result = NoResult
    BY <1>16, DoingWhat DEF Promote, PrepareStep, Tables
  <2>2. /\ call' \in Call /\ call'.op = "pass2" /\ call'.todo = <<"validate", "launch">>
        /\ call'.session = call.session
    BY <1>16, ShortLists DEF Promote, CallType, Call, Running
  <2>3. <<"validate", "launch">> # <<"promote">>
    BY ShortLists
  <2> QED
    BY <1>16, <2>1, <2>2, <2>3 DEF Promote, CallType, CallShape, Running, RunSteps
<1>17. CASE RinexArrives
  BY <1>17 DEF RinexArrives, CallType, CallShape
<1>18. CASE CleanOut
  BY <1>18 DEF CleanOut, CallType, CallShape
<1> QED
  BY <1>1, <1>2, <1>3, <1>4, <1>5, <1>6, <1>7, <1>8, <1>9, <1>10, <1>11, <1>12, <1>13,
     <1>14, <1>15, <1>16, <1>17, <1>18 DEF Next, Prepare

-----------------------------------------------------------------------------
(* The child of the call.                                                  *)

\* Only a call that waits has a child.
LEMMA NoChild ==
  ASSUME ChildShape, call.op \notin Running \/ call.todo # <<>>
  PROVE  Child = {}
BY DEF ChildShape

\* The BPE that a call waits for stays that of the call's session.
LEMMA ChildStep ==
  ASSUME DiskType, CallType, CallShape, ChildShape, Next
  PROVE  ChildShape'
<1>1. CASE bpe' = bpe /\ (call = Idle \/ call.todo # <<>>)
  <2>1. Child = {}
    BY <1>1, NoChild DEF Idle, Running
  <2> QED
    BY <1>1, <2>1 DEF ChildShape, Child
<1>2. CASE bpe' = bpe /\ UNCHANGED <<call, outdir>>
  BY <1>2 DEF ChildShape, Child
<1>3. CASE Launch
  <2>1. /\ call.op \in Running /\ call.todo = <<"launch">> /\ call.todo # <<>>
    BY <1>3, DoingWhat DEF Launch, PrepareStep, Tables
  <2>2. Child = {}
    BY <2>1, NoChild
  <2>3. /\ call'.todo = <<>> /\ call'.op = call.op /\ call'.session = call.session
    BY <1>3, <2>1, ContinueType, ShortLists DEF Launch
  <2> DEFINE new == [session |-> call.session, child |-> TRUE, id |-> calls,
                     pass |-> call.op, wrote |-> {}, seed |-> tables["CRD"].seed]
  <2>4. bpe' = bpe \cup {new}
    BY <1>3 DEF Launch
  <2>5. new.session = call.session /\ new.wrote = {}
    OBVIOUS
  <2> HIDE DEF new
  <2>6. \A b \in Child' : b = new
    BY <2>2, <2>4 DEF Child
  <2> QED
    BY <2>1, <2>3, <2>5, <2>6 DEF ChildShape
<1>4. ASSUME NEW b \in bpe, BpeEnds(b)
      PROVE  ChildShape'
  <2>1. CASE b.child
    <3>1. Child' = {}
      BY <1>4, <2>1 DEF BpeEnds, Child, ChildShape
    <3> QED
      BY <3>1 DEF ChildShape
  <2>2. CASE ~b.child
    <3>1. Child' = Child /\ call' = call /\ outdir' = outdir
      BY <1>4, <2>2 DEF BpeEnds, Child
    <3> QED
      BY <3>1 DEF ChildShape
  <2> QED
    BY <2>1, <2>2
<1>5. ASSUME NEW b \in bpe, NEW k \in Outputs, BpeWrites(b, k)
      PROVE  ChildShape'
  <2> DEFINE w == [b EXCEPT !.wrote = @ \cup {k}]
  <2>1. /\ b \in Bpe /\ bpe' = (bpe \ {b}) \cup {w} /\ call' = call
        /\ outdir' = [outdir EXCEPT ![k] = @ \cup {b.session}]
    BY <1>5, BpeWritesType DEF BpeWrites
  <2>2. w.child = b.child /\ w.session = b.session /\ w.wrote = b.wrote \cup {k}
    BY <2>1 DEF Bpe
  <2> HIDE DEF w
  <2>3. ASSUME NEW c \in Child'
        PROVE  \/ c \in Child /\ c # b
               \/ c = w /\ b \in Child
    BY <2>1, <2>2 DEF Child
  <2>4. \A c, d \in Child' : c = d
    BY <2>3 DEF ChildShape
  <2>5. ASSUME NEW c \in Child'
        PROVE  /\ call.op \in Running /\ call.todo = <<>> /\ c.session = call.session
               /\ \A l \in c.wrote : c.session \in outdir'[l]
    <3>1. CASE c \in Child /\ c # b
      <4>1. c.wrote \subseteq Outputs
        BY <3>1 DEF Child, CallType, Bpe
      <4>2. \A l \in Outputs : outdir[l] \subseteq outdir'[l]
        BY <2>1 DEF DiskType
      <4> QED
        BY <3>1, <4>1, <4>2 DEF ChildShape
    <3>2. CASE c = w /\ b \in Child
      <4>1. /\ \A l \in b.wrote : b.session \in outdir[l]
            /\ call.op \in Running /\ call.todo = <<>> /\ b.session = call.session
        BY <3>2 DEF ChildShape
      <4>2. \A l \in b.wrote \cup {k} : b.session \in outdir'[l]
        BY <2>1, <4>1 DEF DiskType, Bpe
      <4> QED
        BY <2>2, <3>2, <4>1, <4>2
    <3> QED
      BY <2>3, <3>1, <3>2
  <2> QED
    BY <2>1, <2>4, <2>5 DEF ChildShape
<1>6. CASE TimedOut
  <2>1. \A b \in bpe' : ~b.child
    BY <1>6 DEF TimedOut, CallType, Bpe
  <2> QED
    BY <2>1 DEF ChildShape, Child
<1>7. CASE Prepare
  <2>1. bpe' = bpe
    BY <1>7 DEF Prepare, PrepareCampaign, StageSessions, DownloadProduct, VerifyProducts,
                WriteTable, StageAtx, DownloadBlq, PrepareCut
  <2>2. call = Idle \/ call.todo # <<>> \/ PrepareCut
    BY <1>7 DEF Prepare, PrepareCampaign, Begin, StageSessions, DownloadProduct,
                VerifyProducts, WriteTable, StageAtx, DownloadBlq, Doing
  <2>3. PrepareCut => call.todo # <<>>
    BY DEF PrepareCut, CallShape
  <2> QED
    BY <1>1, <2>1, <2>2, <2>3
<1>8. ASSUME NEW s \in Sessions, Run(s) \/ RunContinuous(s)
      PROVE  ChildShape'
  BY <1>1, <1>8 DEF Run, RunContinuous, Begin
<1>9. CASE Validate \/ Collect \/ Promote
  BY <1>1, <1>9 DEF Validate, Collect, Promote, Doing
<1>10. CASE RinexArrives
  BY <1>2, <1>10 DEF RinexArrives
<1>11. CASE CleanOut
  BY <1>1, <1>11 DEF CleanOut
<1> QED
  BY <1>3, <1>4, <1>5, <1>6, <1>7, <1>8, <1>9, <1>10, <1>11 DEF Next

-----------------------------------------------------------------------------
(* The outputs of the session.                                             *)

\* A call that has not begun has checked and finished nothing, a failed one is no success.
LEMMA NotYet ==
  /\ ~Idle.finished /\ Idle.op = "none" /\ ~Idle.checked /\ ~NoResult.success
  /\ NoResult.op = "none"
  /\ \A how : ~Ended(how).success /\ Ended(how).op = call.op /\ Ended(how).outcome = how
              /\ Ended(how).config = call.config /\ Ended(how).session = call.session
BY DEF Idle, NoResult, Ended

\* A step that changes neither the processes nor OUT/ and keeps, or drops, the session
\* of the call.
LEMMA OutputsKept ==
  ASSUME OutputsOfSession, bare => bare', bpe' = bpe, outdir' = outdir,
         \/ /\ call'.finished = call.finished /\ call'.session = call.session
            /\ call'.op = call.op /\ (call.op = "pass2" => tables' = tables)
         \/ ~call'.finished /\ call'.op # "pass2",
         result' = result \/ ~result'.success
  PROVE  OutputsOfSession'
BY DEF OutputsOfSession, SessionInvariant, SuccessIsOwn, SeedNotOlder

\* In every step a run that has finished has its outputs in OUT/, and a second pass starts
\* from coordinates that are not older than its session.
LEMMA OutputsStep ==
  ASSUME DiskType, CallType, CallShape, ChildShape, OutputsOfSession, Next
  PROVE  OutputsOfSession'
<1>a. SUFFICES ASSUME ~bare'
               PROVE  OutputsOfSession'
  BY DEF OutputsOfSession
<1>b. ~bare /\ (bare' = bare \/ \E b \in bpe : BpeEnds(b))
  <2>1. bare' = bare \/ \E b \in bpe : BpeEnds(b)
    BY DEF Next, Prepare, PrepareCampaign, StageSessions, DownloadProduct, VerifyProducts,
           WriteTable, StageAtx, DownloadBlq, PrepareCut, Run, RunContinuous, Validate, Launch,
           BpeWrites, TimedOut, Collect, Promote, RinexArrives, CleanOut
  <2>2. ASSUME NEW b \in bpe, BpeEnds(b)
        PROVE  ~bare
    BY <1>a, <2>2 DEF BpeEnds
  <2> QED
    BY <1>a, <2>1, <2>2
<1> USE <1>a, <1>b
<1>1. CASE Prepare
  <2>1. bpe' = bpe /\ outdir' = outdir
    BY <1>1 DEF Prepare, PrepareCampaign, StageSessions, DownloadProduct, VerifyProducts,
                WriteTable, StageAtx, DownloadBlq, PrepareCut
  <2>2. CASE \E s \in Sessions, prefetch \in BOOLEAN, c \in Configs \cup {NoConfig} :
               PrepareCampaign(s, prefetch, c)
    <3>1. ~call'.finished /\ call'.op = "prepare" /\ ~result'.success
      BY <2>2, NotYet DEF PrepareCampaign, Begin, Idle
    <3> QED
      BY <2>1, <3>1, OutputsKept
  <2>3. CASE Raise
    <3>1. ~call'.finished /\ call'.op = "none" /\ ~result'.success
      BY <2>3, NotYet DEF Raise
    <3> QED
      BY <2>1, <3>1, OutputsKept
  <2>4. ASSUME NEW step \in PrepareStep, Doing(step), Proceed
        PROVE  OutputsOfSession'
    <3>1. call.op = "prepare" /\ call.todo # <<>>
      BY <2>4, DoingWhat
    <3>2. CASE call' = Continue(call) /\ result' = result
      <4>1. /\ call'.op = call.op /\ call'.finished = call.finished
            /\ call'.session = call.session
        BY <3>1, <3>2, ContinueType
      <4> QED
        BY <2>1, <3>1, <3>2, <4>1, OutputsKept
    <3>3. CASE call' = Idle /\ result' = Ended("returned")
      <4>1. ~call'.finished /\ call'.op = "none" /\ ~result'.success
        BY <3>3, NotYet
      <4> QED
        BY <2>1, <4>1, OutputsKept
    <3> QED
      BY <2>4, <3>1, <3>2, <3>3, ProceedEffect
  <2>5. \/ \E s \in Sessions, prefetch \in BOOLEAN, c \in Configs \cup {NoConfig} :
               PrepareCampaign(s, prefetch, c)
        \/ Raise
        \/ \E step \in PrepareStep : Doing(step) /\ Proceed
    BY <1>1 DEF Prepare, StageSessions, DownloadProduct, VerifyProducts, WriteTable,
                StageAtx, DownloadBlq, PrepareCut, PrepareStep, Tables, Contents
  <2> QED
    BY <2>2, <2>3, <2>4, <2>5
<1>2. ASSUME NEW s \in Sessions, Run(s) \/ RunContinuous(s)
      PROVE  OutputsOfSession'
  <2>1. ~call'.finished /\ call'.op # "pass2" /\ ~result'.success
    BY <1>2, NotYet DEF Run, RunContinuous, Begin, Idle
  <2> QED
    BY <1>2, <2>1, OutputsKept DEF Run, RunContinuous
<1>3. CASE Validate
  <2>0. Doing("validate") /\ bpe' = bpe /\ outdir' = outdir /\ tables' = tables
    BY <1>3 DEF Validate, disk
  <2>1. call.todo # <<>>
    BY <2>0, DoingWhat
  <2>2. CASE Raise
    <3>1. ~call'.finished /\ call'.op = "none" /\ ~result'.success
      BY <2>2, NotYet DEF Raise
    <3> QED
      BY <2>0, <3>1, OutputsKept
  <2>3. CASE ~Raise
    <3>1. /\ Continue(call) \in Call /\ Continue(call).op = call.op
          /\ Continue(call).finished = call.finished /\ Continue(call).session = call.session
      BY <2>1, ContinueType
    <3>2. /\ result' = result
          /\ \/ call' = Continue(call)
             \/ \E sta \in StaRows : call' = [Continue(call) EXCEPT !.checked = TRUE,
                    !.seen = pool, !.sta = sta, !.models = Models]
      BY <1>3, <2>3 DEF Validate
    <3>3. /\ call'.op = call.op /\ call'.finished = call.finished
          /\ call'.session = call.session
      BY <3>1, <3>2 DEF Call
    <3> QED
      BY <2>0, <3>2, <3>3, OutputsKept
  <2> QED
    BY <2>2, <2>3
<1>4. CASE Launch
  <2> DEFINE new == [session |-> call.session, child |-> TRUE, id |-> calls,
                     pass |-> call.op, wrote |-> {}, seed |-> tables["CRD"].seed]
  <2>1. Doing("launch") /\ bpe' = bpe \cup {new} /\ call' = Continue(call)
    BY <1>4 DEF Launch
  <2>2. call.todo # <<>>
    BY <2>1, DoingWhat
  <2>3. /\ call'.op = call.op /\ call'.finished = call.finished
        /\ call'.session = call.session
    BY <2>1, <2>2, ContinueType
  <2>4. new.pass = call.op /\ new.seed = tables["CRD"].seed /\ new.session = call.session
    OBVIOUS
  <2>5. outdir' = outdir /\ result' = result /\ tables' = tables
    BY <1>4 DEF Launch, disk
  <2> HIDE DEF new
  <2>6. SeedNotOlder'
    BY <2>1, <2>4 DEF OutputsOfSession, SessionInvariant, SeedNotOlder
  <2> QED
    BY <2>3, <2>5, <2>6 DEF OutputsOfSession, SessionInvariant, SuccessIsOwn
<1>5. ASSUME NEW b \in bpe, BpeEnds(b)
      PROVE  OutputsOfSession'
  <2>1. /\ bpe' \subseteq bpe /\ outdir' = outdir /\ result' = result /\ tables' = tables
    BY <1>5 DEF BpeEnds, disk
  <2>2. /\ call'.op = call.op /\ call'.session = call.session
        /\ call'.finished => call.finished \/ (b.child /\ b.wrote = Outputs)
    BY <1>5 DEF BpeEnds, CallType, Call
  <2>3. b.child => b.session = call.session /\ \A k \in b.wrote : b.session \in outdir[k]
    BY DEF ChildShape, Child
  <2>4. SeedNotOlder'
    BY <2>1 DEF OutputsOfSession, SessionInvariant, SeedNotOlder
  <2>5. call'.finished => \A k \in Outputs : call'.session \in outdir'[k]
    BY <2>1, <2>2, <2>3 DEF OutputsOfSession
  <2> QED
    BY <2>1, <2>2, <2>4, <2>5 DEF OutputsOfSession, SessionInvariant, SuccessIsOwn
<1>6. ASSUME NEW b \in bpe, NEW k \in Outputs, BpeWrites(b, k)
      PROVE  OutputsOfSession'
  <2> DEFINE w == [b EXCEPT !.wrote = @ \cup {k}]
  <2>1. /\ b \in Bpe /\ bpe' = (bpe \ {b}) \cup {w} /\ call' = call /\ result' = result
        /\ outdir' = [outdir EXCEPT ![k] = @ \cup {b.session}] /\ tables' = tables
    BY <1>6, BpeWritesType DEF BpeWrites, disk
  <2>2. w.pass = b.pass /\ w.session = b.session /\ w.seed = b.seed
    BY <2>1 DEF Bpe
  <2> HIDE DEF w
  <2>3. SeedNotOlder'
    BY <2>1, <2>2 DEF OutputsOfSession, SessionInvariant, SeedNotOlder
  <2>4. \A l \in Outputs : outdir[l] \subseteq outdir'[l]
    BY <2>1 DEF DiskType
  <2>5. call'.finished => \A l \in Outputs : call'.session \in outdir'[l]
    BY <2>1, <2>4 DEF OutputsOfSession
  <2> QED
    BY <2>1, <2>3, <2>5 DEF OutputsOfSession, SessionInvariant, SuccessIsOwn
<1>7. CASE TimedOut
  <2>1. bpe' = {[b EXCEPT !.child = FALSE] : b \in bpe} /\ outdir' = outdir
    BY <1>7 DEF TimedOut
  <2>2. ~call'.finished /\ call'.op = "none" /\ ~result'.success
    <3>1. Raise
      BY <1>7 DEF TimedOut
    <3> QED
      BY <3>1, NotYet DEF Raise
  <2>3. ASSUME NEW b \in bpe
        PROVE  /\ [b EXCEPT !.child = FALSE].pass = b.pass
               /\ [b EXCEPT !.child = FALSE].session = b.session
               /\ [b EXCEPT !.child = FALSE].seed = b.seed
    <3>1. b \in Bpe
      BY DEF CallType
    <3> QED
      BY <3>1 DEF Bpe
  <2>4. ASSUME NEW c \in bpe', c.pass = "pass2"
        PROVE  c.seed >= c.session
    <3>1. PICK b \in bpe : c = [b EXCEPT !.child = FALSE]
      BY <2>1
    <3>2. b.pass = "pass2" /\ c.seed = b.seed /\ c.session = b.session
      BY <2>3, <2>4, <3>1
    <3> QED
      BY <3>2 DEF OutputsOfSession, SessionInvariant, SeedNotOlder
  <2>5. SeedNotOlder'
    BY <2>4 DEF SeedNotOlder
  <2> QED
    BY <2>2, <2>5 DEF OutputsOfSession, SessionInvariant, SuccessIsOwn
<1>8. CASE Collect
  <2>1. Doing("collect") /\ bpe' = bpe /\ outdir' = outdir /\ tables' = tables
    BY <1>8 DEF Collect, disk
  <2>2. CASE Raise
    <3>1. ~call'.finished /\ call'.op = "none" /\ ~result'.success
      BY <2>2, NotYet DEF Raise
    <3> QED
      BY <2>1, <3>1, OutputsKept
  <2>3. CASE call' = [call EXCEPT !.todo = <<"promote">>] /\ result' = result
    <3>1. /\ call'.op = call.op /\ call'.finished = call.finished
          /\ call'.session = call.session
      BY <2>3 DEF CallType, Call
    <3> QED
      BY <2>1, <2>3, <3>1, OutputsKept
  <2>4. ASSUME NEW s \in CollectOutputs, call' = Idle, result' = Returned(s), ~Ambiguous
        PROVE  OutputsOfSession'
    <3>1. /\ result'.success = call.finished /\ result'.sinex = s
          /\ result'.session = call.session
      BY <2>4 DEF Returned, Ended, NoResult
    <3>2. SuccessIsOwn'
      <4>1. ASSUME call.finished
            PROVE  s = call.session
        <5>1. call.session \in outdir["sinex"] /\ outdir["sinex"] \in SUBSET Sessions
          BY <4>1 DEF OutputsOfSession, DiskType, Outputs
        <5>2. CollectOutputs = outdir["sinex"]
          BY <5>1 DEF CollectOutputs
        <5>3. ~(Cardinality(outdir["sinex"]) > 1) /\ s \in outdir["sinex"]
          BY <2>4, <5>2 DEF Ambiguous
        <5> QED
          BY <5>1, <5>3, OneSession
      <4> QED
        BY <3>1, <4>1 DEF SuccessIsOwn
    <3>3. SeedNotOlder'
      BY <2>1 DEF OutputsOfSession, SessionInvariant, SeedNotOlder
    <3> QED
      BY <2>4, <3>2, <3>3, NotYet DEF OutputsOfSession, SessionInvariant
  <2> QED
    BY <1>8, <2>2, <2>3, <2>4 DEF Collect
<1>9. CASE Promote
  <2>1. /\ Doing("promote") /\ bpe' = bpe /\ outdir' = outdir /\ result' = result
    BY <1>9 DEF Promote
  <2>2. call.todo = <<"promote">>
    BY <2>1, DoingWhat DEF PrepareStep, Tables
  <2>3. call.session \in outdir["fin"] /\ outdir["fin"] \in SUBSET Sessions
    <3>1. call.finished
      BY <2>2 DEF CallShape
    <3> QED
      BY <3>1 DEF OutputsOfSession, Outputs, DiskType
  <2>4. call.session <= Seed /\ Seed \in Nat /\ call.session \in Nat
    <3>1. Seed \in outdir["fin"] /\ call.session <= Seed
      BY <2>3, LatestIsLast DEF Seed
    <3> QED
      BY <2>3, <3>1, SessionAssumption
  <2>5. tables'["CRD"].seed = Seed
    <3>1. tables' = [tables EXCEPT !["CRD"] = [from |-> @.from, seed |-> Seed, whole |-> TRUE]]
      BY <1>9, <2>3 DEF Promote
    <3> QED
      BY <3>1 DEF DiskType, Tables
  <2>6. call'.session = call.session /\ ~call'.finished
    BY <1>9 DEF Promote, CallType, Call
  <2>7. SessionInvariant'
    BY <2>1 DEF OutputsOfSession, SessionInvariant, SuccessIsOwn, SeedNotOlder
  <2> QED
    BY <2>4, <2>5, <2>6, <2>7 DEF OutputsOfSession
<1>10. CASE RinexArrives
  <2>1. bpe' = bpe /\ outdir' = outdir /\ call' = call /\ result' = result /\ tables' = tables
    BY <1>10 DEF RinexArrives, disk
  <2> QED
    BY <2>1, OutputsKept
<1>11. CASE CleanOut
  <2>1. call = Idle /\ bpe' = bpe /\ call' = call /\ result' = result
    BY <1>11 DEF CleanOut
  <2> QED
    BY <2>1, NotYet DEF OutputsOfSession, SessionInvariant, SuccessIsOwn, SeedNotOlder
<1> QED
  BY <1>1, <1>2, <1>3, <1>4, <1>5, <1>6, <1>7, <1>8, <1>9, <1>10, <1>11 DEF Next

-----------------------------------------------------------------------------
(* What a preparation leaves.                                              *)

\* No preparation is under way after the step, and none has just returned.
LEMMA NotPreparing ==
  ASSUME call'.op # "prepare", result'.op # "prepare" \/ result'.outcome # "returned"
  PROVE  PreparedSoFar' /\ PreparedIsConsistent'
BY DEF PreparedSoFar, PreparedIsConsistent

\* A step that is done has written its file and leaves the others alone.
LEMMA PreparedProceeds ==
  ASSUME CallType, CallShape, PreparedSoFar, NEW step \in PrepareStep, Doing(step), Proceed,
         \A t \in Tables : tables'[t] = IF t = step THEN Generated(call.config) ELSE tables[t],
         DOMAIN atm \subseteq DOMAIN atm',
         step = "ATX" => call.config.atx \in DOMAIN atm'
  PROVE  PreparedSoFar' /\ PreparedIsConsistent'
<1>1. /\ call.op = "prepare" /\ call.todo # <<>> /\ result = NoResult
      /\ Head(call.todo) = step /\ call.todo \in Seq(Step)
  BY DoingWhat DEF Doing, CallType, Call
<1> DEFINE config == call.config
           Done(t) == tables'[t] = Generated(config) \/ (t = "BLQ" /\ ~config.blq)
<1>2. ASSUME config # NoConfig, NEW t \in Tables, ~Done(t)
      PROVE  In(Tail(call.todo), t) /\ Len(call.todo) > 1
  <2>1. t # step /\ In(call.todo, t)
    BY <1>1, <1>2 DEF PreparedSoFar, Left
  <2> QED
    BY <1>1, <2>1, InRest
<1>3. ASSUME config # NoConfig, config.atx \notin DOMAIN atm' \cup {""}
      PROVE  In(Tail(call.todo), "ATX") /\ Len(call.todo) > 1
  <2>1. "ATX" # step /\ In(call.todo, "ATX")
    BY <1>1, <1>3 DEF PreparedSoFar, Left
  <2> QED
    BY <1>1, <2>1, InRest
<1>4. CASE call' = Continue(call) /\ result' = result
  <2>1. call'.config = config /\ call'.todo = Tail(call.todo)
    BY <1>1, <1>4, ContinueType
  <2>2. PreparedSoFar'
    BY <1>2, <1>3, <2>1 DEF PreparedSoFar, Left, Generated
  <2> QED
    BY <1>1, <1>4, <2>2, NotYet DEF PreparedIsConsistent
<1>5. CASE call' = Idle /\ result' = Ended("returned") /\ ~(Len(call.todo) > 1)
  <2>1. result'.config = config
    BY <1>5, NotYet
  <2>2. PreparedIsConsistent'
    BY <1>2, <1>3, <1>5, <2>1 DEF PreparedIsConsistent, Generated
  <2> QED
    BY <1>5, <2>2, NotYet DEF PreparedSoFar
<1> QED
  BY <1>1, <1>4, <1>5, ProceedEffect

\* Each table is written or still to be written, and fits its configuration once a
\* preparation returns (prepare_campaign).
LEMMA PreparedStep ==
  ASSUME DiskType, CallType, CallShape, ChildShape, PreparedSoFar, PreparedIsConsistent, Next
  PROVE  PreparedSoFar' /\ PreparedIsConsistent'
<1>0. CASE Raise
  BY <1>0, NotYet, NotPreparing DEF Raise
<1>1. ASSUME NEW s \in Sessions, NEW prefetch \in BOOLEAN, NEW c \in Configs \cup {NoConfig},
             PrepareCampaign(s, prefetch, c)
      PROVE  PreparedSoFar' /\ PreparedIsConsistent'
  <2> DEFINE todo == PrepareSteps(prefetch, c)
  <2>1. c \in AnyConfig /\ call' = [Idle EXCEPT !.op = "prepare", !.todo = todo,
                                                !.session = s, !.config = c]
    BY <1>1 DEF PrepareCampaign, Begin, AnyConfig
  <2>2. call'.todo = todo /\ call'.config = c /\ result' = NoResult
    BY <1>1, <2>1 DEF Idle, PrepareCampaign, Begin
  <2>3. c # NoConfig => /\ \A t \in Tables : In(todo, t) \/ (t = "BLQ" /\ ~c.blq)
                        /\ c.atx = "" \/ In(todo, "ATX")
    BY <2>1, PrepareList
  <2> HIDE DEF todo
  <2>4. PreparedSoFar'
    BY <2>2, <2>3 DEF PreparedSoFar, Left
  <2> QED
    BY <2>2, <2>4, NotYet DEF PreparedIsConsistent
<1>2. CASE StageSessions
  BY <1>2, PreparedProceeds DEF StageSessions, PrepareStep, Tables
<1>3. ASSUME NEW c \in Contents, DownloadProduct(c)
      PROVE  PreparedSoFar' /\ PreparedIsConsistent'
  <2>1. /\ c \in PrepareStep /\ c \notin Tables /\ c # "ATX" /\ Doing(c)
        /\ tables' = tables /\ atm' = atm
    BY <1>3 DEF DownloadProduct, PrepareStep, Contents, Tables
  <2>2. Proceed \/ Raise
    BY <1>3 DEF DownloadProduct
  <2> QED
    BY <1>0, <2>1, <2>2, PreparedProceeds
<1>4. CASE VerifyProducts
  BY <1>0, <1>4, PreparedProceeds DEF VerifyProducts, disk, PrepareStep, Tables
<1>5. ASSUME NEW t \in Tables, WriteTable(t)
      PROVE  PreparedSoFar' /\ PreparedIsConsistent'
  <2>1. /\ t \in PrepareStep /\ t # "ATX" /\ Doing(t) /\ Proceed /\ atm' = atm
        /\ tables' = [tables EXCEPT ![t] = Generated(call.config)]
    BY <1>5 DEF WriteTable, PrepareStep, Tables
  <2>2. \A u \in Tables : tables'[u] = IF u = t THEN Generated(call.config) ELSE tables[u]
    BY <2>1 DEF DiskType
  <2> QED
    BY <2>1, <2>2, PreparedProceeds
<1>6. CASE StageAtx
  <2>1. /\ Doing("ATX") /\ Proceed /\ tables' = tables
        /\ DOMAIN atm \subseteq DOMAIN atm' /\ call.config.atx \in DOMAIN atm'
    BY <1>6 DEF StageAtx
  <2>2. "ATX" \in PrepareStep /\ "ATX" \notin Tables
    BY DEF PrepareStep, Tables
  <2> QED
    BY <2>1, <2>2, PreparedProceeds
<1>7. CASE DownloadBlq
  <2>1. CASE /\ Doing("BLQ") /\ Proceed /\ atm' = atm
             /\ tables' = [tables EXCEPT !["BLQ"] = Generated(call.config)]
    <3>1. \A u \in Tables : tables'[u] = IF u = "BLQ" THEN Generated(call.config) ELSE tables[u]
      BY <2>1 DEF DiskType
    <3>2. "BLQ" \in PrepareStep
      BY DEF PrepareStep, Tables
    <3> QED
      BY <2>1, <3>1, <3>2, PreparedProceeds
  <2> QED
    BY <1>0, <1>7, <2>1 DEF DownloadBlq
<1>8. CASE PrepareCut
  BY <1>0, <1>8 DEF PrepareCut
<1>9. ASSUME NEW s \in Sessions, Run(s) \/ RunContinuous(s)
      PROVE  PreparedSoFar' /\ PreparedIsConsistent'
  <2>1. PICK op \in {"run", "pass1"} : Begin(op, <<"validate", "launch">>, s, NoConfig)
    BY <1>9 DEF Run, RunContinuous
  <2>2. result' = NoResult /\ call'.op = op
    BY <2>1 DEF Begin, Idle
  <2> QED
    BY <2>2, NotYet, NotPreparing
<1>10. CASE Validate
  <2>1. /\ call.op \in Running /\ call.op # "prepare" /\ result = NoResult /\ call.todo # <<>>
    <3>1. Doing("validate")
      BY <1>10 DEF Validate
    <3> QED
      BY <3>1, DoingWhat DEF PrepareStep, Tables, Running
  <2>2. CASE ~Raise
    <3>1. /\ result' = result
          /\ \/ call' = Continue(call)
             \/ \E sta \in StaRows : call' = [Continue(call) EXCEPT !.checked = TRUE,
                    !.seen = pool, !.sta = sta, !.models = Models]
      BY <1>10, <2>2 DEF Validate
    <3>2. Continue(call) \in Call /\ Continue(call).op = call.op
      BY <2>1, ContinueType
    <3>3. call'.op = call.op
      BY <3>1, <3>2 DEF Call
    <3> QED
      BY <2>1, <3>1, <3>3, NotYet, NotPreparing
  <2> QED
    BY <1>0, <2>2
<1>11. CASE Launch
  <2>1. /\ call.op \in Running /\ call.op # "prepare" /\ result = NoResult /\ call.todo # <<>>
    BY <1>11, DoingWhat DEF Launch, PrepareStep, Tables, Running
  <2>2. call'.op = call.op /\ result' = result
    BY <1>11, <2>1, ContinueType DEF Launch
  <2> QED
    BY <2>1, <2>2, NotYet, NotPreparing
<1>12. ASSUME NEW b \in bpe, BpeEnds(b)
       PROVE  PreparedSoFar' /\ PreparedIsConsistent'
  <2>1. CASE b.child
    <3>1. call.op \in Running /\ call.op # "prepare" /\ result = NoResult
      BY <2>1 DEF ChildShape, Child, CallShape, Running
    <3>2. call'.op = call.op /\ result' = result
      BY <1>12, <2>1 DEF BpeEnds, CallType, Call
    <3> QED
      BY <3>1, <3>2, NotYet, NotPreparing
  <2>2. CASE ~b.child
    BY <1>12, <2>2 DEF BpeEnds, disk, PreparedSoFar, PreparedIsConsistent, Left, Generated
  <2> QED
    BY <2>1, <2>2
<1>13. ASSUME NEW b \in bpe, NEW k \in Outputs, BpeWrites(b, k)
       PROVE  PreparedSoFar' /\ PreparedIsConsistent'
  BY <1>13 DEF BpeWrites, disk, PreparedSoFar, PreparedIsConsistent, Left, Generated
<1>14. CASE TimedOut
  BY <1>0, <1>14 DEF TimedOut
<1>15. CASE Collect
  <2>1. /\ call.op \in Running /\ call.op # "prepare" /\ result = NoResult
    BY <1>15, DoingWhat DEF Collect, PrepareStep, Tables, Running
  <2>2. CASE call' = [call EXCEPT !.todo = <<"promote">>] /\ result' = result
    <3>1. call'.op = call.op
      BY <2>2 DEF CallType, Call
    <3> QED
      BY <2>1, <2>2, <3>1, NotYet, NotPreparing
  <2>3. ASSUME NEW s \in CollectOutputs, call' = Idle, result' = Returned(s)
        PROVE  PreparedSoFar' /\ PreparedIsConsistent'
    <3>1. result'.op = call.op
      BY <2>3 DEF Returned, Ended, NoResult
    <3> QED
      BY <2>1, <2>3, <3>1, NotYet, NotPreparing
  <2> QED
    BY <1>0, <1>15, <2>2, <2>3 DEF Collect
<1>16. CASE Promote
  <2>1. result = NoResult /\ result' = result
    BY <1>16, DoingWhat DEF Promote
  <2>2. call'.op = "pass2"
    BY <1>16 DEF Promote, CallType, Call
  <2> QED
    BY <2>1, <2>2, NotYet, NotPreparing
<1>17. CASE RinexArrives
  BY <1>17 DEF RinexArrives, disk, PreparedSoFar, PreparedIsConsistent, Left, Generated
<1>18. CASE CleanOut
  BY <1>18 DEF CleanOut, disk, PreparedSoFar, PreparedIsConsistent, Left, Generated
<1> QED
  BY <1>1, <1>2, <1>3, <1>4, <1>5, <1>6, <1>7, <1>8, <1>9, <1>10, <1>11, <1>12, <1>13,
     <1>14, <1>15, <1>16, <1>17, <1>18 DEF Next, Prepare

-----------------------------------------------------------------------------
(* What the check sees.                                                    *)

\* The station file sta and the antenna models have what the BPE needs of file g.
Fits(g, sta, checked, models) ==
    /\ \E row \in sta : /\ row.code = Station(g) /\ row.receiver = g.receiver
                        /\ row.antenna = g.antenna
    /\ checked /\ g.antenna # "" => g.antenna \in models

\* Some data file of the session's day is there, and of each station of the session one
\* that fits.
Passed(s, sta, checked, models) ==
    /\ \E f \in pool : Doy(f.day) = Doy(s)
    /\ \A f \in pool : f.day = s /\ Headed(f) =>
         \E g \in pool : /\ Station(g) = Station(f) /\ Headed(g)
                         /\ FileMatchesSession(g, s) /\ Fits(g, sta, checked, models)

\* That is what a check without problems has found.
LEMMA PassedCheck ==
  ASSUME SourceDir, NEW s, NEW h \in Headers(Candidates(s)), NEW sta, NEW checked \in BOOLEAN,
         NEW models, Problems(h, sta, checked, models) = {}, DOMAIN h # {}
  PROVE  Passed(s, sta, checked, models)
<1> DEFINE files == Candidates(s)
<1>1. /\ h \in [{Station(f) : f \in files} -> files]
      /\ \A c \in DOMAIN h : Station(h[c]) = c
  BY DEF Headers
<1>2. \A f : f \in files <=> f \in pool /\ Headed(f) /\ FileMatchesSession(f, s)
  BY DEF Candidates
<1> HIDE DEF files
<1>3. \E f \in pool : Doy(f.day) = Doy(s)
  <2>1. PICK c \in DOMAIN h : TRUE
    OBVIOUS
  <2>2. h[c] \in files
    BY <1>1
  <2> QED
    BY <1>2, <2>2 DEF FileMatchesSession
<1>4. ASSUME NEW f \in pool, f.day = s, Headed(f)
      PROVE  \E g \in pool : /\ Station(g) = Station(f) /\ Headed(g)
                             /\ FileMatchesSession(g, s) /\ Fits(g, sta, checked, models)
  <2> DEFINE c == Station(f)
  <2>1. FileMatchesSession(f, s)
    BY <1>4 DEF FileMatchesSession
  <2>2. f \in files
    BY <1>2, <1>4, <2>1
  <2>3. c \in DOMAIN h /\ h[c] \in files /\ Station(h[c]) = c
    BY <1>1, <2>2
  <2> HIDE DEF c
  <2>4. c \notin Problems(h, sta, checked, models)
    OBVIOUS
  <2>5. \E row \in sta : /\ row.code = c /\ h[c].receiver = row.receiver
                         /\ h[c].antenna = row.antenna
                         /\ (checked /\ h[c].antenna # "" => h[c].antenna \in models)
    BY <2>3, <2>4 DEF Problems
  <2>6. h[c] \in pool /\ Headed(h[c]) /\ FileMatchesSession(h[c], s)
    BY <1>2, <2>3
  <2>7. Fits(h[c], sta, checked, models)
    BY <2>3, <2>5 DEF Fits
  <2> QED
    BY <2>3, <2>6, <2>7 DEF c
<1> QED
  BY <1>3, <1>4 DEF Passed

\* What the call remembers of the check is what the check passed on.
LEMMA CheckKept ==
  ASSUME CheckInvariant,
         \/ ~call'.checked
         \/ /\ call'.checked = call.checked /\ call'.session = call.session
            /\ call'.seen = call.seen /\ call'.sta = call.sta /\ call'.models = call.models
  PROVE  CheckInvariant'
<1>1. CASE ~call'.checked
  BY <1>1 DEF CheckInvariant, CheckedStationsSurvive, NeverVacuous
<1>2. CASE call'.checked
  <2>1. /\ call.checked /\ call'.session = call.session
        /\ call'.seen = call.seen /\ call'.sta = call.sta /\ call'.models = call.models
    BY <1>2
  <2>2. \A g : Agrees(g) => Agrees(g)'
    BY <2>1 DEF Agrees
  <2>3. CheckedStationsSurvive'
    BY <2>1, <2>2 DEF CheckInvariant, CheckedStationsSurvive
  <2>4. NeverVacuous'
    BY <2>1 DEF CheckInvariant, NeverVacuous
  <2> QED
    BY <2>3, <2>4 DEF CheckInvariant
<1> QED
  BY <1>1, <1>2

\* No step breaks what a check that passed has seen (validate_rinex_headers).
LEMMA CheckStep ==
  ASSUME CallType, CallShape, CheckInvariant, Next
  PROVE  CheckInvariant'
<1>1. CASE Raise
  BY <1>1, NotYet, CheckKept DEF Raise
<1>2. ASSUME NEW op, NEW todo, NEW session, NEW config, Begin(op, todo, session, config)
      PROVE  CheckInvariant'
  BY <1>2, CheckKept DEF Begin, Idle
<1>3. ASSUME NEW step, Doing(step), Proceed
      PROVE  CheckInvariant'
  <2>1. call.todo # <<>>
    BY <1>3 DEF Doing
  <2>2. CASE call' = Continue(call)
    <3>1. /\ call'.checked = call.checked /\ call'.session = call.session
          /\ call'.seen = call.seen /\ call'.sta = call.sta /\ call'.models = call.models
      BY <2>1, <2>2, ContinueType
    <3> QED
      BY <3>1, CheckKept
  <2>3. CASE call' = Idle
    BY <2>3, NotYet, CheckKept
  <2> QED
    BY <1>3, <2>1, <2>2, <2>3, ProceedEffect
<1>4. CASE Prepare
  <2>1. \/ Raise
        \/ \E op, todo, session, config : Begin(op, todo, session, config)
        \/ \E step : Doing(step) /\ Proceed
    BY <1>4 DEF Prepare, PrepareCampaign, StageSessions, DownloadProduct, VerifyProducts,
                WriteTable, StageAtx, DownloadBlq, PrepareCut
  <2> QED
    BY <1>1, <1>2, <1>3, <2>1
<1>5. ASSUME NEW s \in Sessions, Run(s) \/ RunContinuous(s)
      PROVE  CheckInvariant'
  BY <1>2, <1>5 DEF Run, RunContinuous
<1>6. CASE Validate
  <2>0. call.todo # <<>>
    BY <1>6 DEF Validate, Doing
  <2>1. /\ Continue(call) \in Call /\ Continue(call).session = call.session
        /\ Continue(call).checked = call.checked /\ Continue(call).seen = call.seen
        /\ Continue(call).sta = call.sta /\ Continue(call).models = call.models
    BY <2>0, ContinueType
  <2>2. CASE call' = Continue(call)
    BY <2>1, <2>2, CheckKept
  <2>3. ASSUME NEW h \in Headers(Candidates(call.session)), NEW sta \in StaRows,
               ~(SourceDir /\ DOMAIN h = {}), Problems(h, sta, OneAtx, Models) = {},
               call' = [Continue(call) EXCEPT !.checked = TRUE, !.seen = pool,
                                              !.sta = sta, !.models = Models]
        PROVE  CheckInvariant'
    <3>1. /\ call'.session = call.session /\ call'.seen = pool /\ call'.sta = sta
          /\ call'.models = Models
      BY <2>1, <2>3 DEF Call
    <3>2. CASE ~SourceDir
      BY <3>2 DEF CheckInvariant, CheckedStationsSurvive, NeverVacuous
    <3>3. CASE SourceDir
      <4>1. OneAtx \in BOOLEAN /\ (Models # {} => OneAtx)
        <5>1. OneAtx \in BOOLEAN
          BY DEF OneAtx
        <5>2. Models # {} => OneAtx
          BY DEF Models
        <5> QED
          BY <5>1, <5>2
      <4>2. Passed(call.session, sta, OneAtx, Models)
        <5>1. DOMAIN h # {}
          BY <2>3, <3>3
        <5> QED
          BY <2>3, <3>3, <4>1, <5>1, PassedCheck
      <4>3. \A g : Fits(g, sta, OneAtx, Models) => Agrees(g)'
        BY <3>1, <4>1 DEF Agrees, Fits
      <4>4. CheckedStationsSurvive'
        BY <3>1, <4>2, <4>3 DEF CheckedStationsSurvive, Passed
      <4>5. NeverVacuous'
        BY <3>1, <4>2 DEF NeverVacuous, Passed
      <4> QED
        BY <4>4, <4>5 DEF CheckInvariant
    <3> QED
      BY <3>2, <3>3
  <2> QED
    BY <1>1, <1>6, <2>2, <2>3 DEF Validate
<1>7. CASE Launch
  BY <1>7, ContinueType, CheckKept DEF Launch, Doing
<1>8. ASSUME NEW b \in bpe, BpeEnds(b)
      PROVE  CheckInvariant'
  <2>1. /\ call'.checked = call.checked /\ call'.session = call.session
        /\ call'.seen = call.seen /\ call'.sta = call.sta /\ call'.models = call.models
    BY <1>8 DEF BpeEnds, CallType, Call
  <2> QED
    BY <2>1, CheckKept
<1>9. CASE TimedOut
  BY <1>1, <1>9 DEF TimedOut
<1>10. CASE Collect
  <2>1. CASE call' = [call EXCEPT !.todo = <<"promote">>]
    <3>1. /\ call'.checked = call.checked /\ call'.session = call.session
          /\ call'.seen = call.seen /\ call'.sta = call.sta /\ call'.models = call.models
      BY <2>1 DEF CallType, Call
    <3> QED
      BY <3>1, CheckKept
  <2>2. CASE call' = Idle
    BY <2>2, NotYet, CheckKept
  <2> QED
    BY <1>1, <1>10, <2>1, <2>2 DEF Collect
<1>11. CASE Promote
  <2>1. ~call'.checked
    BY <1>11 DEF Promote, CallType, Call
  <2> QED
    BY <2>1, CheckKept
<1>12. CASE UNCHANGED call
  BY <1>12, CheckKept
<1> QED
  BY <1>4, <1>5, <1>6, <1>7, <1>8, <1>9, <1>10, <1>11, <1>12
  DEF Next, BpeWrites, RinexArrives, CleanOut

-----------------------------------------------------------------------------
(* The invariant and what follows from it.                                 *)

\* As long as nothing has failed no step leaves a product cut short.
LEMMA ProductsStep ==
  ASSUME DiskType, CallType, CallShape, ProductsWhole, Next
  PROVE  ProductsWhole'
<1>1. CASE products' = products /\ (faults' = faults \/ Fault)
  BY <1>1, FaultEffect DEF ProductsWhole
<1>2. ASSUME NEW c \in Contents, DownloadProduct(c)
      PROVE  ProductsWhole'
  <2>1. CASE Fault
    BY <2>1, FaultEffect DEF ProductsWhole
  <2>2. CASE faults' = faults /\ products' = products
    BY <1>1, <2>2
  <2>3. CASE faults' = faults /\ SetProduct(c, "whole")
    BY <2>3 DEF ProductsWhole, SetProduct, DiskType
  <2> QED
    BY <1>2, <2>1, <2>2, <2>3 DEF DownloadProduct
<1>3. \/ products' = products /\ (faults' = faults \/ Fault)
      \/ \E c \in Contents : DownloadProduct(c)
  BY DEF Next, Prepare, PrepareCampaign, StageSessions, VerifyProducts, WriteTable, StageAtx,
         DownloadBlq, PrepareCut, Run, RunContinuous, Validate, Launch, BpeEnds, BpeWrites,
         TimedOut, Collect, Promote, RinexArrives, CleanOut, disk
<1> QED
  BY <1>1, <1>2, <1>3

\* The inductive invariant holds of a new campaign.
LEMMA CampaignInit == Init => CampaignInv
<1> SUFFICES ASSUME Init
             PROVE  CampaignInv
  OBVIOUS
<1> USE DEF Init
<1>1. NoConfig \in AnyConfig /\ [from |-> NoConfig, seed |-> 0, whole |-> TRUE] \in Table
  BY DEF AnyConfig, Table
<1>2. DiskType
  BY <1>1 DEF DiskType, Tables
<1>3. CallType
  <2>1. Idle \in Call
    <3>1. <<>> \in Seq(Step)
      OBVIOUS
    <3> QED
      BY <1>1, <3>1 DEF Idle, Call
  <2>2. NoResult \in Result
    BY <1>1 DEF NoResult, Result
  <2> QED
    BY <2>1, <2>2, BoundAssumption DEF CallType
<1>4. CallShape /\ ChildShape
  BY DEF CallShape, ChildShape, Child, Idle, Running
<1>5. OutputsOfSession
  BY NotYet DEF OutputsOfSession, SessionInvariant, SuccessIsOwn, SeedNotOlder
<1>6. PreparedSoFar /\ PreparedIsConsistent
  BY NotYet DEF PreparedSoFar, PreparedIsConsistent
<1>7. ProductsWhole
  BY DEF ProductsWhole
<1>8. CheckInvariant
  BY NotYet DEF CheckInvariant, CheckedStationsSurvive, NeverVacuous
<1> QED
  BY <1>2, <1>3, <1>4, <1>5, <1>6, <1>7, <1>8 DEF CampaignInv

\* The inductive invariant is kept by every step.
LEMMA CampaignStep == CampaignInv /\ [Next]_vars => CampaignInv'
<1> SUFFICES ASSUME CampaignInv, [Next]_vars
             PROVE  CampaignInv'
  OBVIOUS
<1>1. CASE Next
  BY <1>1, DiskStep, CallStep, ChildStep, OutputsStep, PreparedStep, ProductsStep, CheckStep
  DEF CampaignInv
<1>2. CASE UNCHANGED vars
  <2> USE <1>2 DEF vars, disk, CampaignInv
  <2>1. DiskType' /\ CallType' /\ CallShape'
    BY DEF DiskType, CallType, CallShape
  <2>2. ChildShape'
    BY DEF ChildShape, Child
  <2>3. OutputsOfSession'
    BY OutputsKept
  <2>4. PreparedSoFar' /\ PreparedIsConsistent'
    BY DEF PreparedSoFar, PreparedIsConsistent, Left, Generated
  <2>5. ProductsWhole'
    BY DEF ProductsWhole
  <2>6. CheckInvariant'
    BY CheckKept
  <2> QED
    BY <2>1, <2>2, <2>3, <2>4, <2>5, <2>6
<1> QED
  BY <1>1, <1>2

\* The inductive invariant always holds.
LEMMA CampaignInvariant == Spec => []CampaignInv
BY CampaignInit, CampaignStep, PTL DEF Spec

\* It implies the types.
LEMMA Types == CampaignInv => TypeOK
<1> SUFFICES ASSUME CampaignInv
             PROVE  TypeOK
  OBVIOUS
<1> USE DEF CampaignInv
<1>1. \A t \in Tables : /\ tables[t].from \in Configs \cup {NoConfig}
                        /\ tables[t].seed \in Sessions \cup {0} /\ tables[t].whole \in BOOLEAN
  BY DEF DiskType, Table, AnyConfig
<1>2. Cardinality(Child) <= 1
  <2>1. CASE Child = {}
    BY <2>1, FS_EmptySet
  <2>2. CASE Child # {}
    <3>1. PICK b \in Child : TRUE
      BY <2>2
    <3>2. Child = {b}
      BY <3>1 DEF ChildShape
    <3> QED
      BY <3>2, FS_Singleton
  <2> QED
    BY <2>1, <2>2
<1>3. Child # {} => call.todo = <<>> /\ call # Idle
  BY DEF ChildShape, Idle, Running
<1> QED
  BY <1>1, <1>2, <1>3 DEF TypeOK, DiskType, CallType, AllModels

\* Nothing of another session gets into a run: a run that succeeds hands out the outputs
\* of its own session, and a second pass starts from coordinates that are not older,
\* although OUT/ is shared and a timeout leaves a BPE behind that still writes to it,
\* as long as no BPE has finished without its outputs (backends.py, run,
\* run_continuous, collect_outputs).
THEOREM SessionsStayApart == Spec => []SessionInvariant
<1>1. CampaignInv => SessionInvariant
  BY DEF CampaignInv, OutputsOfSession, SessionInvariant, SuccessIsOwn, SeedNotOlder
<1> QED
  BY <1>1, CampaignInvariant, PTL

\* When the pre-flight check has passed there were data of the session's day, and each
\* station of the session has a file that agrees with the station file and with the
\* antenna file, whatever else is in the data pool (rinex_header_validator.py).
THEOREM CheckMeansSomething == Spec => []CheckInvariant
BY CampaignInvariant, PTL DEF CampaignInv

\* A preparation that returned left files that fit together: every table whole and of the
\* configuration asked for, whatever earlier calls, cut writes and failed downloads left,
\* and no product is stored from an answer that was cut (backends.py, prepare_campaign).
THEOREM PreparationFits == Spec => []PreparationInvariant
<1>1. CampaignInv => PreparationInvariant
  BY Types DEF CampaignInv, PreparationInvariant
<1> QED
  BY <1>1, CampaignInvariant, PTL

\* Stations with one file for each day of the year, as a data pool of daily files of one
\* year has them.
OneFileEach ==
    \A s \in Sessions, f, g \in RinexFiles :
        /\ Headed(f) /\ FileMatchesSession(f, s)
        /\ Headed(g) /\ FileMatchesSession(g, s) /\ Station(f) = Station(g)
        => f = g
EveryFileAgrees ==
    call.checked /\ SourceDir =>
    \A f \in call.seen : f.day = call.session /\ Headed(f) => Agrees(f)

\* With such a data pool the check leaves no file of the session out.
THEOREM NoFileLeftOut ==
  ASSUME OneFileEach
  PROVE  Spec => []EveryFileAgrees
<1>1. CampaignInv => EveryFileAgrees
  <2> SUFFICES ASSUME CampaignInv, call.checked, SourceDir,
                      NEW f \in call.seen, f.day = call.session, Headed(f)
               PROVE  Agrees(f)
    BY DEF EveryFileAgrees
  <2>1. PICK g \in call.seen : /\ Station(g) = Station(f) /\ Headed(g)
                               /\ FileMatchesSession(g, call.session) /\ Agrees(g)
    BY DEF CampaignInv, CheckInvariant, CheckedStationsSurvive
  <2>2. FileMatchesSession(f, call.session)
    BY DEF FileMatchesSession
  <2>3. f \in RinexFiles /\ g \in RinexFiles
    BY DEF CampaignInv, CallType, Call
  <2>4. call.session \in Sessions
    BY NotYet DEF CampaignInv, CallShape
  <2>5. f = g
    BY <2>1, <2>2, <2>3, <2>4 DEF OneFileEach
  <2> QED
    BY <2>1, <2>5
<1> QED
  BY <1>1, CampaignInvariant, PTL
=============================================================================
