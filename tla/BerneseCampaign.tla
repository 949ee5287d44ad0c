-------------------------- MODULE BerneseCampaign --------------------------
(***************************************************************************)
(* One Bernese campaign directory and the program that drives it           *)
(* (BerneseOrchestrator over LinuxBPEBackend): preparing the campaign      *)
(* files and the IGS products, the pre-flight check of the RINEX headers,  *)
(* the BPE as a child process with a time limit, the collection of its     *)
(* outputs and the two-pass run for continuous stations.                   *)
(*                                                                         *)
(* A session is the number YEAR * 1000 + DOY.  A generated file is known   *)
(* by the configuration it was generated from; a write that does not end   *)
(* leaves it cut.  The BPE itself is external: it writes the outputs of    *)
(* its session one by one and may stop at any point.                       *)
(***************************************************************************)
EXTENDS Integers, Sequences, FiniteSets

CONSTANTS
    Sessions,   \* the sessions that are processed
    Configs,    \* CampaignConfig: [stations, atx, blq]
    RinexFiles, \* what may be in the data pool
    SourceDir,  \* is rinex_source_dir given?
    MaxCalls,   \* bound on calls of the program
    MaxFaults   \* bound on failed writes, crashes and timeouts

NoConfig == [stations |-> {}, atx |-> "", models |-> {}, blq |-> FALSE]
Tables == {"STA", "CRD", "ABB", "VEL", "CLU", "BLQ"}
Contents == {"ORB", "CLK"}
Outputs == {"sinex", "fin"}   \* the normal equations (NQ0) are collected like the SINEX

ASSUME SessionAssumption ==
    Sessions \subseteq Nat \ {0} /\ Sessions # {} /\ IsFiniteSet(Sessions)
ASSUME ConfigAssumption == NoConfig \notin Configs
ASSUME BoundAssumption == MaxCalls \in Nat /\ MaxFaults \in Nat

VARIABLES
    tables,   \* STA/*.{STA,CRD,...}: [from, whole]
    ses,      \* GEN/SESSIONS.SES: "none", "cut", "whole"
    atm,      \* ATM/*.atx: the antenna models each file lists
    products, \* ORB/YYYY/DDD/*: "none", "cut", "whole"
    pool,     \* the RINEX files in the data pool
    outdir,   \* OUT/: the sessions whose output of each kind is there
    bpe,      \* the BPE processes
    call,     \* the call in progress: what is left to do, and for what
    result,   \* what the latest call returned
    calls, faults,
    bare      \* history: a BPE has said "BPE finished" without all its outputs

disk == <<tables, ses, atm, products>>
vars == <<disk, pool, outdir, bpe, call, result, calls, faults, bare>>

Doy(s) == s % 1000
Idle == [op |-> "none", todo |-> <<>>, session |-> 0, config |-> NoConfig,
         seen |-> {}, sta |-> {}, models |-> {}, checked |-> FALSE, finished |-> FALSE]
NoResult == [op |-> "none", outcome |-> "none", session |-> 0, config |-> NoConfig,
             success |-> FALSE, sinex |-> 0]

Init ==
    /\ tables = [t \in Tables |-> [from |-> NoConfig, seed |-> 0, whole |-> TRUE]]
    /\ ses = "none" /\ atm = [a \in {} |-> {}]
    /\ products = [s \in Sessions |-> [c \in Contents |-> "none"]]
    /\ pool = {} /\ outdir = [k \in Outputs |-> {}] /\ bpe = {}
    /\ call = Idle /\ result = NoResult
    /\ calls = 0 /\ faults = 0 /\ bare = FALSE

\* ---- the life of a call

Begin(op, todo, session, config) ==
    /\ call = Idle /\ calls < MaxCalls
    /\ call' = [Idle EXCEPT !.op = op, !.todo = todo, !.session = session, !.config = config]
    /\ calls' = calls + 1
    /\ result' = NoResult

Doing(step) == call.todo # <<>> /\ Head(call.todo) = step
Continue(c) == [c EXCEPT !.todo = Tail(c.todo)]
Ended(how) == [NoResult EXCEPT !.op = call.op, !.outcome = how,
                               !.session = call.session, !.config = call.config]

\* The step is done; the call returns when nothing is left to do.
Proceed ==
    IF Len(call.todo) > 1 THEN call' = Continue(call) /\ UNCHANGED result
    ELSE call' = Idle /\ result' = Ended("returned")
Raise == call' = Idle /\ result' = Ended("raised")
Fault == faults < MaxFaults /\ faults' = faults + 1

\* ---- prepare_campaign

PrepareSteps(prefetch, config) ==
    <<"SES">> \o (IF prefetch THEN <<"ORB", "CLK", "verify">> ELSE <<>>)
    \o (IF config = NoConfig THEN <<>>
        ELSE <<"STA", "CRD", "ABB">> \o (IF config.atx = "" THEN <<>> ELSE <<"ATX">>)
             \o <<"VEL", "CLU">> \o (IF config.blq THEN <<"BLQ">> ELSE <<>>))

PrepareCampaign(session, prefetch, config) ==
    /\ Begin("prepare", PrepareSteps(prefetch, config), session, config)
    /\ UNCHANGED <<disk, pool, outdir, bpe, faults, bare>>

\* An existing session table is kept, whatever is in it.
StageSessions ==
    /\ Doing("SES") /\ Proceed
    /\ ses' = IF ses = "none" THEN "whole" ELSE ses
    /\ UNCHANGED <<tables, atm, products, pool, outdir, bpe, calls, faults, bare>>

SetProduct(c, state) == products' = [products EXCEPT ![call.session][c] = state]

\* Mutation: a table that is there is not written again.
WriteTableOnce(t) ==
    /\ t # "BLQ" /\ Doing(t) /\ Proceed
    /\ tables' = IF tables[t].from # NoConfig THEN tables
                 ELSE [tables EXCEPT ![t] = [from |-> call.config, seed |-> 0, whole |-> TRUE]]
    /\ UNCHANGED <<ses, atm, products, pool, outdir, bpe, calls, faults, bare>>

\* A file that is there is taken as it is.  Otherwise the mirrors are tried in
\* turn: one answers, or none does; a failed write is an error of its mirror and
\* leaves the file behind.
DownloadProduct(c) ==
    /\ Doing(c)
    /\ \/ products[call.session][c] # "none" /\ Proceed /\ UNCHANGED <<products, faults>>
       \/ products[call.session][c] = "none" /\ SetProduct(c, "whole") /\ Proceed /\ UNCHANGED faults
       \/ products[call.session][c] = "none" /\ Raise /\ UNCHANGED <<products, faults>>
       \/ products[call.session][c] = "none" /\ Fault /\ SetProduct(c, "cut") /\ Raise
    /\ UNCHANGED <<tables, ses, atm, pool, outdir, bpe, calls, bare>>

MissingProducts == {c \in Contents : products[call.session][c] = "none"}

VerifyProducts ==
    /\ Doing("verify")
    /\ IF MissingProducts = {} THEN Proceed ELSE Raise
    /\ UNCHANGED <<disk, pool, outdir, bpe, calls, faults, bare>>

Generated(config) == [from |-> config, seed |-> 0, whole |-> TRUE]

\* STA, CRD, ABB, VEL and CLU are rendered from the stations of the configuration.
WriteTable(t) ==
    /\ t # "BLQ" /\ Doing(t) /\ Proceed
    /\ tables' = [tables EXCEPT ![t] = Generated(call.config)]
    /\ UNCHANGED <<ses, atm, products, pool, outdir, bpe, calls, faults, bare>>

\* An antenna file of this name is not copied again.
StageAtx ==
    /\ Doing("ATX") /\ Proceed
    /\ atm' = IF call.config.atx \in DOMAIN atm THEN atm
              ELSE [a \in DOMAIN atm \cup {call.config.atx} |->
                      IF a = call.config.atx THEN call.config.models ELSE atm[a]]
    /\ UNCHANGED <<tables, ses, products, pool, outdir, bpe, calls, faults, bare>>

\* The loading service answers or the request raises.
DownloadBlq ==
    /\ Doing("BLQ")
    /\ \/ Proceed /\ tables' = [tables EXCEPT !["BLQ"] = Generated(call.config)]
       \/ Raise /\ UNCHANGED tables
    /\ UNCHANGED <<ses, atm, products, pool, outdir, bpe, calls, faults, bare>>

\* A write is cut short, by an error that is raised or by the end of the program.
PrepareCut ==
    /\ call.op = "prepare" /\ Fault /\ Raise
    /\ LET step == Head(call.todo) IN
       \/ /\ step \in Tables
          /\ tables' = [tables EXCEPT ![step] = [Generated(call.config) EXCEPT !.whole = FALSE]]
          /\ UNCHANGED <<ses, atm, products>>
       \/ /\ step = "SES" /\ ses = "none" /\ ses' = "cut"
          /\ UNCHANGED <<tables, atm, products>>
       \/ /\ step = "ATX" /\ call.config.atx \notin DOMAIN atm
          /\ \E part \in SUBSET call.config.models :
               atm' = [a \in DOMAIN atm \cup {call.config.atx} |->
                         IF a = call.config.atx THEN part ELSE atm[a]]
          /\ UNCHANGED <<tables, ses, products>>
    /\ UNCHANGED <<pool, outdir, bpe, calls, bare>>

\* ---- validate_rinex_headers

\* A short RINEX 2 name carries the day of year only; the others the year as well.
FileMatchesSession(f, s) ==
    IF f.naming = "short" THEN Doy(f.day) = Doy(s) ELSE f.day = s

Headed(f) == f.receiver # "" \/ f.antenna # ""
Station(f) == IF f.marker # "" THEN f.marker ELSE f.code

\* The files whose headers are looked at; RAW/ of the campaign is empty before
\* the BPE has copied something into it.
Candidates(s) ==
    {f \in IF SourceDir THEN pool ELSE {} :
        Headed(f) /\ FileMatchesSession(f, s)}

\* One dictionary entry per station: of several files the one visited last.
Headers(files) ==
    {h \in [{Station(f) : f \in files} -> files] : \A s \in DOMAIN h : Station(h[s]) = s}

\* The TYPE 002 rows of the station file; of a cut file some of them.
StaRows == IF tables["STA"].whole THEN {tables["STA"].from.stations}
           ELSE SUBSET tables["STA"].from.stations

\* Mutation: a station that the station file lacks is passed over.
ProblemsOfListed(h, sta, checked, models) ==
    {s \in DOMAIN h :
        \E row \in sta : /\ row.code = s
                         /\ \/ h[s].receiver # row.receiver \/ h[s].antenna # row.antenna
                            \/ checked /\ h[s].antenna # "" /\ h[s].antenna \notin models}

\* The stations that the report holds against the run: not in the station file,
\* another receiver or antenna, or an antenna without calibration.
Problems(h, sta, checked, models) ==
    {s \in DOMAIN h :
        ~ \E row \in sta : row.code = s /\ h[s].receiver = row.receiver
                           /\ h[s].antenna = row.antenna
                           /\ (checked /\ h[s].antenna # "" => h[s].antenna \in models)}

\* Calibration is checked against the one antenna file of the campaign.
OneAtx == Cardinality(DOMAIN atm) = 1
Models == IF OneAtx THEN UNION {atm[a] : a \in DOMAIN atm} ELSE {}

Run(session) ==
    /\ Begin("run", <<"validate", "launch">>, session, NoConfig)
    /\ UNCHANGED <<disk, pool, outdir, bpe, faults, bare>>

RunContinuous(session) ==
    /\ Begin("pass1", <<"validate", "launch">>, session, NoConfig)
    /\ UNCHANGED <<disk, pool, outdir, bpe, faults, bare>>

\* Without a station file the check is skipped with a warning; with it any problem
\* raises, and so does a data pool without a file of the session.
Validate ==
    /\ Doing("validate")
    /\ \/ /\ tables["STA"].from = NoConfig
          /\ call' = Continue(call) /\ UNCHANGED result
       \/ /\ tables["STA"].from # NoConfig
          /\ \E h \in Headers(Candidates(call.session)), sta \in StaRows :
               IF (SourceDir /\ DOMAIN h = {}) \/ Problems(h, sta, OneAtx, Models) # {}
               THEN Raise
               ELSE /\ call' = [Continue(call) EXCEPT !.checked = TRUE, !.seen = pool,
                                  !.sta = sta, !.models = Models]
                    /\ UNCHANGED result
    /\ UNCHANGED <<disk, pool, outdir, bpe, calls, faults, bare>>

\* ---- the BPE (external) and how the call waits for it

Child == {b \in bpe : b.child}

Launch ==
    /\ Doing("launch")
    /\ call' = Continue(call)
    /\ bpe' = bpe \cup {[session |-> call.session, child |-> TRUE, id |-> calls,
                         pass |-> call.op, wrote |-> {}, seed |-> tables["CRD"].seed]}
    /\ UNCHANGED <<disk, pool, outdir, result, calls, faults, bare>>

BpeWrites(b, kind) ==
    /\ kind \notin b.wrote
    /\ outdir' = [outdir EXCEPT ![kind] = @ \cup {b.session}]
    /\ bpe' = (bpe \ {b}) \cup {[b EXCEPT !.wrote = @ \cup {kind}]}
    /\ UNCHANGED <<disk, pool, call, result, calls, faults, bare>>

\* What it prints at its end, "BPE finished" or not, is not tied to the files: it may
\* have finished without an output of a kind.
BpeEnds(b) ==
    /\ bpe' = bpe \ {b}
    /\ IF b.child THEN \E finished \in BOOLEAN :
                          /\ call' = [call EXCEPT !.todo = <<"collect">>, !.finished = finished]
                          /\ bare' = (bare \/ (finished /\ b.wrote # Outputs))
       ELSE UNCHANGED <<call, bare>>
    /\ UNCHANGED <<disk, pool, outdir, result, calls, faults>>

\* subprocess.run kills the perl driver only; what the driver started goes on.
\* So it does when the program itself is killed.
TimedOut ==
    /\ Child # {} /\ Fault /\ Raise
    /\ bpe' = {[b EXCEPT !.child = FALSE] : b \in bpe}
    /\ UNCHANGED <<disk, pool, outdir, calls, bare>>

Latest(S) == CHOOSE x \in S : \A y \in S : y <= x

\* Mutation: of several outputs the one whose name sorts last.
CollectOutputsLast == IF outdir["sinex"] = {} THEN {0} ELSE {Latest(outdir["sinex"])}

\* The outputs found in OUT/: none, one, or several, which raises.
CollectOutputs == IF outdir["sinex"] = {} THEN {0} ELSE outdir["sinex"]
Ambiguous == Cardinality(CollectOutputs) > 1

Returned(s) == [Ended("returned") EXCEPT !.success = call.finished, !.sinex = s]

Collect ==
    /\ Doing("collect")
    /\ IF Ambiguous \/ (call.op = "pass1" /\ (~call.finished \/ CollectOutputs = {0}))
         THEN Raise
         ELSE IF call.op = "pass1"
              THEN call' = [call EXCEPT !.todo = <<"promote">>] /\ UNCHANGED result
              ELSE call' = Idle /\ \E s \in CollectOutputs : result' = Returned(s)
    /\ UNCHANGED <<disk, pool, outdir, bpe, calls, faults, bare>>

\* Of the final coordinate files in OUT/ the one whose name sorts last.
Seed == Latest(outdir["fin"])

\* The coordinates of the first pass become the a priori file of the second.
Promote ==
    /\ Doing("promote")
    /\ call' = [call EXCEPT !.op = "pass2", !.todo = <<"validate", "launch">>,
                            !.checked = FALSE, !.finished = FALSE]
    /\ tables' = IF outdir["fin"] = {} THEN tables
                 ELSE [tables EXCEPT !["CRD"] = [from |-> @.from, seed |-> Seed, whole |-> TRUE]]
    /\ UNCHANGED <<ses, atm, products, pool, outdir, bpe, result, calls, faults, bare>>

\* ---- what happens around the program

RinexArrives ==
    /\ \E f \in RinexFiles \ pool : pool' = pool \cup {f}
    /\ UNCHANGED <<disk, outdir, bpe, call, result, calls, faults, bare>>

\* "Clean the OUT/ directory before collecting outputs."
CleanOut ==
    /\ call = Idle /\ outdir # [k \in Outputs |-> {}]
    /\ outdir' = [k \in Outputs |-> {}]
    /\ UNCHANGED <<disk, pool, bpe, call, result, calls, faults, bare>>

Prepare ==
    \/ \E s \in Sessions, prefetch \in BOOLEAN, c \in Configs \cup {NoConfig} :
         PrepareCampaign(s, prefetch, c)
    \/ StageSessions
    \/ \E c \in Contents : DownloadProduct(c)
    \/ VerifyProducts
    \/ \E t \in Tables : WriteTable(t)
    \/ StageAtx
    \/ DownloadBlq
    \/ PrepareCut

Next ==
    \/ Prepare
    \/ \E s \in Sessions : Run(s)
    \/ \E s \in Sessions : RunContinuous(s)
    \/ Validate
    \/ Launch
    \/ \E b \in bpe : BpeEnds(b)
    \/ \E b \in bpe, k \in Outputs : BpeWrites(b, k)
    \/ TimedOut
    \/ Collect
    \/ Promote
    \/ RinexArrives
    \/ CleanOut

Spec == Init /\ [][Next]_vars

-----------------------------------------------------------------------------
\* ---- properties

\* Every file is in a state the program or a failure can leave it in.
TypeOK ==
    /\ \A t \in Tables : /\ tables[t].from \in Configs \cup {NoConfig}
                         /\ tables[t].seed \in Sessions \cup {0} /\ tables[t].whole \in BOOLEAN
    /\ ses \in {"none", "cut", "whole"}
    /\ \A a \in DOMAIN atm : atm[a] \subseteq UNION {c.models : c \in Configs}
    /\ products \in [Sessions -> [Contents -> {"none", "cut", "whole"}]]
    /\ pool \subseteq RinexFiles /\ outdir \in [Outputs -> SUBSET Sessions]
    /\ Cardinality(Child) <= 1 /\ (Child # {} => call.todo = <<>> /\ call # Idle)
    /\ calls \in 0 .. MaxCalls /\ faults \in 0 .. MaxFaults

\* A run that succeeds hands out the outputs of its own session, although OUT/
\* is shared by all sessions and a driver that timed out leaves a BPE behind
\* that still writes to it, as long as no BPE has finished without its outputs.
SuccessIsOwn ==
    result.success /\ ~bare => result.sinex = result.session

\* The same whatever the BPE has done (collect_outputs takes campaign, year and
\* session and looks for any *.SNX): what a finished BPE did not write is made up
\* for by a file that another session left behind.
SuccessIsOwnAlways ==
    result.success => result.sinex = result.session

\* What the BPE needs of a data file in order not to drop its station.
Agrees(f) ==
    /\ \E row \in call.sta : /\ row.code = Station(f) /\ row.receiver = f.receiver
                             /\ row.antenna = f.antenna
    /\ call.models # {} /\ f.antenna # "" => f.antenna \in call.models

\* Once the pre-flight check has let a run start, no station of the session is in
\* for being dropped: of each station with equipment headers in the data pool, a file
\* of the session agrees with the station file and with the one antenna file there is
\* (rinex_header_validator.py: "Raises ValidationError - never silently passes").
\* Where the station has one file of that day of the year, this is that file; of
\* several the dictionary of the headers keeps one, and the check sees no other.
CheckedStationsSurvive ==
    call.checked /\ SourceDir =>
    \A f \in call.seen : f.day = call.session /\ Headed(f) =>
        \E g \in call.seen : /\ Station(g) = Station(f) /\ Headed(g)
                             /\ FileMatchesSession(g, call.session) /\ Agrees(g)

\* The check never passes on an empty source directory.
NeverVacuous ==
    call.checked /\ SourceDir => \E f \in call.seen : Doy(f.day) = Doy(call.session)

\* The coordinates promoted for the second pass are those of the first pass or
\* of a later session: never older than the run, and never the original ones, as
\* long as no BPE has finished without its outputs (then "pass 2 will reuse the
\* original CRD", or takes the final coordinates of another session).
SeedNotOlder ==
    ~bare => \A b \in bpe : b.pass = "pass2" => b.seed >= b.session

\* The same as the comment has it (backends.py, run_continuous: "BPE run using
\* the output CRD from pass 1 as the a priori coordinate file").
SeedIsPassOne ==
    \A b \in bpe : b.pass = "pass2" => b.seed = b.session

\* A prepared campaign agrees with itself: when prepare_campaign returns, every
\* table is whole and comes from its configuration, the loading table excepted
\* when it is not asked for, and the products it fetched are whole unless an
\* earlier download was cut.
PreparedIsConsistent ==
    result.op = "prepare" /\ result.outcome = "returned" /\ result.config # NoConfig =>
    /\ \A t \in Tables : tables[t] = Generated(result.config) \/ (t = "BLQ" /\ ~result.config.blq)
    /\ result.config.atx \in DOMAIN atm \cup {""}

\* The products of a session are used by the BPE only if they are whole: none is
\* stored from an answer that was not one.
ProductsWhole ==
    faults = 0 => \A s \in Sessions, c \in Contents : products[s][c] # "cut"

\* Nothing of another session gets into a run: neither its results nor, as an
\* older coordinate file, its a priori values.
SessionInvariant == SuccessIsOwn /\ SeedNotOlder

\* The pre-flight check means something when it passes.
CheckInvariant == CheckedStationsSurvive /\ NeverVacuous

\* What a preparation that returned leaves on disk fits together.
PreparationInvariant == TypeOK /\ PreparedIsConsistent /\ ProductsWhole
=============================================================================
