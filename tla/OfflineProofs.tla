----------------------------- MODULE OfflineProofs -----------------------------
(***************************************************************************)
(* Proofs about the log sheets of the field-ops queue: an accepted sheet   *)
(* is in the queue or on the server, a sheet has one row however often it  *)
(* is sent, what is marked synced is stored, and the server stores a list  *)
(* as a whole, for any sheets, any number of flushes and faults anywhere.  *)
(***************************************************************************)
EXTENDS OfflineQueue, TLAPS

USE OfflineAssumption

\* What a request on the wire looks like.
Requests == [from : {"form", "nobody"} \cup Slots, batch : SUBSET Ids, list : BOOLEAN,
             token : {"valid", "invalid"},
             reply : {"none", "created", "unauthorized", "refused"}]

\* A sheet that is on the server for good: its one row, and the server's checks passed.
OnServer(i) == db[i] = 1 /\ Valid(sheets[i])

\* Ids are handed out before anything refers to them.
IdsAreGiven ==
    /\ form.at # "idle" => form.id \in 1..Len(sheets)
    /\ \A i \in Ids : idb[i] # "none" => i \in 1..Len(sheets)
    /\ \A f \in Slots : flush[f].batch \subseteq 1..Len(sheets)
    /\ \A r \in wire : r.batch \subseteq 1..Len(sheets)

\* Who sent a request that is still wanted waits for it, and for no other.
SendersWait ==
    \A r \in wire :
        /\ r.from = "form" => form.at = "posting"
        /\ r.from \in Slots => flush[r.from].at = "posting" /\ flush[r.from].batch = r.batch
        /\ r.from = "nobody" => r.reply = "none"
        /\ r.from # "nobody" => \A q \in wire : q.from = r.from => q = r

\* What the server answered "created", and what a flush is about to mark, is on the
\* server.
CreatedIsStored ==
    /\ \A r \in wire : r.reply = "created" => \A i \in r.batch : OnServer(i)
    /\ \A f \in Slots : flush[f].at = "marking" => \A i \in flush[f].batch : OnServer(i)

\* The inductive invariant.
OfflineInv == SheetInvariant /\ IdsAreGiven /\ SendersWait /\ CreatedIsStored

\* The app starts with an empty queue and nothing under way.
LEMMA InitOffline ==
    ASSUME Init
    PROVE  OfflineInv
<1>1. /\ sheets = <<>> /\ idb = [i \in Ids |-> "none"] /\ form = IdleForm
      /\ flush = [f \in Slots |-> IdleFlush] /\ wire = {} /\ db = [i \in Ids |-> 0]
      /\ token = "valid" /\ app = [mounted |-> TRUE, online |-> TRUE]
      /\ accepted = {} /\ faults = 0
  BY DEF Init
<1>2. TypeOK
  BY <1>1 DEF TypeOK, IdleForm, IdleFlush
<1>3. NothingLost /\ StoredOnce /\ SyncedIsStored
  BY <1>1 DEF NothingLost, StoredOnce, SyncedIsStored
<1>4. IdsAreGiven /\ SendersWait /\ CreatedIsStored
  BY <1>1 DEF IdsAreGiven, SendersWait, CreatedIsStored, IdleForm, IdleFlush
<1> QED
  BY <1>2, <1>3, <1>4 DEF OfflineInv, SheetInvariant

\* A sheet once submitted stays what it is.
LEMMA SheetsStay ==
    ASSUME TypeOK, [Next]_vars
    PROVE  /\ sheets' \in Seq(Kinds) /\ Len(sheets') <= MaxSheets
           /\ Len(sheets) \in Nat /\ Len(sheets') \in Nat /\ Len(sheets) <= Len(sheets')
           /\ \A i \in 1..Len(sheets) : sheets'[i] = sheets[i]
<1>1. sheets \in Seq(Kinds) /\ Len(sheets) \in Nat
  BY DEF TypeOK
<1>2. CASE UNCHANGED sheets
  BY <1>1, <1>2 DEF TypeOK
<1>3. ASSUME NEW s \in Kinds, Submit(s)
      PROVE  /\ sheets' \in Seq(Kinds) /\ Len(sheets') <= MaxSheets
             /\ Len(sheets) <= Len(sheets')
             /\ \A i \in 1..Len(sheets) : sheets'[i] = sheets[i]
  <2>1. sheets' = Append(sheets, s) /\ Len(sheets) < MaxSheets
    BY <1>3 DEF Submit
  <2> QED
    BY <1>1, <2>1
<1>4. UNCHANGED sheets \/ \E s \in Kinds : Submit(s)
  BY DEF Next, AddToQueue, OnlineEvent, Mount, GoOffline, Unmount, MarkSynced, Serve,
         ServeFails, Answered, Lost, Close, Expire, Login, vars
<1> QED
  BY <1>1, <1>2, <1>3, <1>4

\* The database changes only where the server stores the whole list of a request,
\* once it has found every sheet of it valid.
LEMMA OnlyServeStores ==
    ASSUME TypeOK, [Next]_vars
    PROVE  \/ UNCHANGED db
           \/ \E r \in wire : /\ Serve(r)
                              /\ r.reply = "none" /\ r.token = "valid" /\ r.list
                              /\ \A i \in r.batch : Valid(sheets[i])
                              /\ db' = Inserted(r.batch)
<1>1. UNCHANGED db \/ \E r \in wire : Serve(r)
  BY DEF Next, Submit, AddToQueue, OnlineEvent, Mount, GoOffline, Unmount, MarkSynced,
         ServeFails, Answered, Lost, Close, Expire, Login, vars
<1>2. ASSUME NEW r \in wire, Serve(r)
      PROVE  \/ UNCHANGED db
             \/ /\ r.reply = "none" /\ r.token = "valid" /\ r.list
                /\ \A i \in r.batch : Valid(sheets[i])
                /\ db' = Inserted(r.batch)
  BY <1>2 DEF Serve, SubmitLogsheets
<1> QED
  BY <1>1, <1>2

\* A row stays, and a sheet has at most one.
LEMMA RowsStay ==
    ASSUME TypeOK, StoredOnce, [Next]_vars
    PROVE  /\ db' \in [Ids -> 0..3]
           /\ \A i \in Ids : /\ db'[i] <= 1
                             /\ db[i] > 0 => db'[i] > 0
                             /\ db[i] = 1 => db'[i] = 1
<1>1. \A i \in Ids : db[i] \in {0, 1}
  BY DEF TypeOK, StoredOnce
<1>2. CASE UNCHANGED db
  BY <1>1, <1>2 DEF TypeOK
<1>3. ASSUME NEW r \in wire, db' = Inserted(r.batch)
      PROVE  /\ db' \in [Ids -> 0..3]
             /\ \A i \in Ids : db'[i] \in {0, 1} /\ (db[i] = 1 => db'[i] = 1)
  BY <1>1, <1>3 DEF Inserted
<1> QED
  BY <1>1, <1>2, <1>3, OnlyServeStores

\* What is on the server for good stays there.
LEMMA OnServerStays ==
    ASSUME TypeOK, StoredOnce, [Next]_vars, NEW i \in Ids, i \in 1..Len(sheets), OnServer(i)
    PROVE  OnServer(i)'
<1>1. db'[i] = 1 /\ sheets'[i] = sheets[i]
  BY RowsStay, SheetsStay DEF OnServer
<1> QED
  BY <1>1 DEF OnServer, Valid

-----------------------------------------------------------------------------

\* A flush that starts waits for a request with the pending sheets, or there are none.
LEMMA FlushingTypes ==
    ASSUME TypeOK, NEW f \in Slots, Flushing(f)
    PROVE  /\ flush' \in [Slots -> [at : {"idle", "posting", "marking"}, batch : SUBSET Ids]]
           /\ \A g \in Slots : flush'[g].at = "idle" <=> flush'[g].batch = {}
           /\ wire' \subseteq Requests
<1>1. wire \subseteq Requests /\ Pending \subseteq Ids
  BY DEF TypeOK, Requests, Pending
<1>2. CASE Pending = {}
  BY <1>1, <1>2 DEF Flushing, TypeOK
<1>3. CASE Pending # {}
  <2>1. /\ flush' = [flush EXCEPT ![f] = [at |-> "posting", batch |-> Pending]]
        /\ wire' = wire \cup {Request(f, Pending, TRUE)}
    BY <1>3 DEF Flushing
  <2>2. Request(f, Pending, TRUE) \in Requests
    BY <1>1 DEF Request, Requests, TypeOK
  <2> QED
    BY <1>1, <1>3, <2>1, <2>2 DEF TypeOK
<1> QED
  BY <1>2, <1>3

\* Whatever comes of a request, the form and the flushes keep their types.
LEMMA OutcomeTypes ==
    ASSUME TypeOK, SendersWait, NEW r \in wire, r.from # "nobody", NEW ok \in BOOLEAN,
           Outcome(r.from, ok)
    PROVE  /\ form' \in [at : {"idle", "posting", "queueing"}, id : 0..MaxSheets]
           /\ flush' \in [Slots -> [at : {"idle", "posting", "marking"}, batch : SUBSET Ids]]
           /\ \A g \in Slots : flush'[g].at = "idle" <=> flush'[g].batch = {}
<1>1. CASE r.from = "form"
  BY <1>1 DEF Outcome, TypeOK
<1>2. CASE r.from # "form"
  <2>1. r.from \in Slots
    BY <1>2 DEF TypeOK
  <2>2. flush[r.from].at = "posting" /\ flush[r.from].batch # {}
        /\ flush[r.from].batch \in SUBSET Ids
    BY <2>1 DEF SendersWait, TypeOK
  <2>3. flush' = [flush EXCEPT ![r.from] =
                    IF ok THEN [at |-> "marking", batch |-> flush[r.from].batch] ELSE IdleFlush]
        /\ UNCHANGED form
    BY <1>2, <2>1 DEF Outcome, FlushOutcome, TypeOK
  <2> QED
    BY <2>1, <2>2, <2>3 DEF TypeOK, IdleFlush
<1> QED
  BY <1>1, <1>2

\* A request is never answered for nobody.
LEMMA AnswerIsAwaited ==
    ASSUME SendersWait, NEW r \in wire, r.reply # "none"
    PROVE  r.from # "nobody"
  BY DEF SendersWait

\* Every step keeps the types.
LEMMA TypeStep ==
    ASSUME OfflineInv, [Next]_vars
    PROVE  TypeOK'
<1>a. TypeOK /\ SendersWait /\ IdsAreGiven /\ wire \subseteq Requests
  BY DEF OfflineInv, SheetInvariant, TypeOK, Requests
<1>b. sheets' \in Seq(Kinds) /\ Len(sheets') <= MaxSheets /\ db' \in [Ids -> 0..3]
  BY <1>a, SheetsStay, RowsStay DEF OfflineInv, SheetInvariant
<1>c. /\ idb \in [Ids -> {"none", "pending", "synced"}]
      /\ form \in [at : {"idle", "posting", "queueing"}, id : 0..MaxSheets]
      /\ flush \in [Slots -> [at : {"idle", "posting", "marking"}, batch : SUBSET Ids]]
      /\ \A f \in Slots : flush[f].at = "idle" <=> flush[f].batch = {}
      /\ token \in {"valid", "invalid"}
      /\ app \in [mounted : BOOLEAN, online : BOOLEAN]
      /\ accepted \subseteq Ids /\ faults \in 0..MaxFaults
      /\ sheets \in Seq(Kinds) /\ Len(sheets) \in Nat /\ Len(sheets) <= MaxSheets
  BY <1>a DEF TypeOK
<1>e. Fault => faults' \in 0..MaxFaults
  BY <1>c DEF Fault
<1> HIDE DEF Requests
<1> SUFFICES /\ idb' \in [Ids -> {"none", "pending", "synced"}]
             /\ form' \in [at : {"idle", "posting", "queueing"}, id : 0..MaxSheets]
             /\ flush' \in [Slots -> [at : {"idle", "posting", "marking"}, batch : SUBSET Ids]]
             /\ \A f \in Slots : flush'[f].at = "idle" <=> flush'[f].batch = {}
             /\ wire' \subseteq Requests
             /\ token' \in {"valid", "invalid"}
             /\ app' \in [mounted : BOOLEAN, online : BOOLEAN]
             /\ accepted' \subseteq Ids /\ faults' \in 0..MaxFaults
  BY <1>b DEF TypeOK, Requests
<1>1. ASSUME NEW s \in Kinds, Submit(s)
      PROVE  /\ form' \in [at : {"idle", "posting", "queueing"}, id : 0..MaxSheets]
             /\ wire' \subseteq Requests
             /\ UNCHANGED <<idb, flush, token, app, accepted, faults>>
  <2>1. Len(sheets) + 1 \in Ids /\ Len(sheets) + 1 \in 0..MaxSheets
    BY <1>1, <1>c DEF Submit, Ids
  <2>2. Request("form", {Len(sheets) + 1}, FALSE) \in Requests
    BY <1>c, <2>1 DEF Request, Requests
  <2>3. /\ form' = [at |-> "posting", id |-> Len(sheets) + 1]
           \/ form' = [at |-> "queueing", id |-> Len(sheets) + 1]
        /\ wire' = wire \/ wire' = wire \cup {Request("form", {Len(sheets) + 1}, FALSE)}
        /\ UNCHANGED <<idb, flush, token, app, accepted, faults>>
    BY <1>1 DEF Submit
  <2>4. form' \in [at : {"idle", "posting", "queueing"}, id : 0..MaxSheets]
    BY <2>1, <2>3
  <2>5. wire' \subseteq Requests
    BY <1>a, <2>2, <2>3
  <2> QED
    BY <2>3, <2>4, <2>5
<1>2. CASE AddToQueue
  <2>1. form.id \in Ids
    BY <1>2, <1>a, <1>c DEF AddToQueue, IdsAreGiven, Ids
  <2> QED
    BY <1>2, <1>a, <1>c, <2>1 DEF AddToQueue, IdleForm
<1>3. ASSUME NEW f \in Slots, OnlineEvent(f) \/ Mount(f)
      PROVE  /\ flush' \in [Slots -> [at : {"idle", "posting", "marking"}, batch : SUBSET Ids]]
             /\ \A g \in Slots : flush'[g].at = "idle" <=> flush'[g].batch = {}
             /\ wire' \subseteq Requests
             /\ app' \in [mounted : BOOLEAN, online : BOOLEAN]
             /\ UNCHANGED <<idb, form, token, accepted, faults>>
  <2>1. Flushing(f) \/ UNCHANGED <<flush, wire>>
    BY <1>3 DEF OnlineEvent, Mount
  <2>2. app' \in [mounted : BOOLEAN, online : BOOLEAN]
        /\ UNCHANGED <<idb, form, token, accepted, faults>>
    BY <1>3, <1>c DEF OnlineEvent, Mount
  <2> QED
    BY <1>a, <1>c, <2>1, <2>2, FlushingTypes
<1>4. CASE GoOffline \/ Unmount \/ Expire \/ Login \/ UNCHANGED vars
  <2>1. UNCHANGED <<idb, form, flush, wire, accepted>>
    BY <1>4 DEF GoOffline, Unmount, Expire, Login, vars
  <2>2. app' \in [mounted : BOOLEAN, online : BOOLEAN]
    BY <1>4, <1>c DEF GoOffline, Unmount, Expire, Login, vars
  <2>3. token' \in {"valid", "invalid"}
    BY <1>4, <1>c DEF GoOffline, Unmount, Expire, Login, vars
  <2>4. faults' = faults \/ Fault
    BY <1>4 DEF GoOffline, Unmount, Expire, Login, vars
  <2> QED
    BY <1>a, <1>c, <1>e, <2>1, <2>2, <2>3, <2>4
<1>5. ASSUME NEW f \in Slots, MarkSynced(f)
      PROVE  /\ idb' \in [Ids -> {"none", "pending", "synced"}]
             /\ flush' \in [Slots -> [at : {"idle", "posting", "marking"}, batch : SUBSET Ids]]
             /\ \A g \in Slots : flush'[g].at = "idle" <=> flush'[g].batch = {}
             /\ UNCHANGED <<form, wire, token, app, accepted, faults>>
  BY <1>5, <1>c DEF MarkSynced, Marked, IdleFlush
<1>6. ASSUME NEW r \in wire, Serve(r) \/ ServeFails(r)
      PROVE  /\ wire' \subseteq Requests
             /\ faults' \in 0..MaxFaults
             /\ UNCHANGED <<idb, form, flush, token, app, accepted>>
  <2>1. \A reply \in {"created", "unauthorized", "refused"} :
          [r EXCEPT !.reply = reply] \in Requests
    BY <1>a DEF Requests
  <2>2. SubmitLogsheets(r).reply \in {"created", "unauthorized", "refused"}
    BY DEF SubmitLogsheets
  <2>3. \E reply \in {"created", "unauthorized", "refused"} :
          wire' \subseteq wire \cup {[r EXCEPT !.reply = reply]}
    BY <1>6, <2>2 DEF Serve, ServeFails
  <2> QED
    BY <1>6, <1>a, <1>c, <2>1, <2>3 DEF Serve, ServeFails, Fault
<1>7. ASSUME NEW r \in wire, Answered(r) \/ Lost(r)
      PROVE  /\ form' \in [at : {"idle", "posting", "queueing"}, id : 0..MaxSheets]
             /\ flush' \in [Slots -> [at : {"idle", "posting", "marking"}, batch : SUBSET Ids]]
             /\ \A g \in Slots : flush'[g].at = "idle" <=> flush'[g].batch = {}
             /\ wire' \subseteq Requests
             /\ token' \in {"valid", "invalid"} /\ faults' \in 0..MaxFaults
             /\ UNCHANGED <<idb, app, accepted>>
  <2>1. r.from # "nobody" /\ \E ok \in BOOLEAN : Outcome(r.from, ok)
    BY <1>7, <1>a, AnswerIsAwaited DEF Answered, Lost
  <2>2. [r EXCEPT !.from = "nobody"] \in Requests
    BY <1>a DEF Requests
  <2>3. wire' \subseteq Requests
    BY <1>7, <1>a, <2>2 DEF Answered, Lost
  <2>4. token' \in {"valid", "invalid"} /\ faults' \in 0..MaxFaults
        /\ UNCHANGED <<idb, app, accepted>>
    <3>1. CASE Answered(r)
      BY <3>1, <1>c DEF Answered
    <3>2. CASE Lost(r)
      BY <3>2, <1>c, <1>e DEF Lost
    <3> QED
      BY <1>7, <3>1, <3>2
  <2> QED
    BY <1>a, <2>1, <2>3, <2>4, OutcomeTypes
<1>8. CASE Close
  <2>1. \A r \in wire : [r EXCEPT !.from = "nobody"] \in Requests
    BY <1>a DEF Requests
  <2>2. wire' \subseteq Requests
    BY <1>8, <2>1 DEF Close
  <2>3. /\ form' = IdleForm /\ flush' = [f \in Slots |-> IdleFlush]
        /\ app' = [app EXCEPT !.mounted = FALSE] /\ Fault
        /\ UNCHANGED <<sheets, idb, db, token, accepted>>
    BY <1>8 DEF Close
  <2>4. app' \in [mounted : BOOLEAN, online : BOOLEAN]
    BY <1>c, <2>3
  <2>5. /\ form' \in [at : {"idle", "posting", "queueing"}, id : 0..MaxSheets]
        /\ flush' \in [Slots -> [at : {"idle", "posting", "marking"}, batch : SUBSET Ids]]
        /\ \A f \in Slots : flush'[f].at = "idle" <=> flush'[f].batch = {}
    BY <2>3 DEF IdleForm, IdleFlush
  <2> QED
    BY <1>c, <1>e, <2>2, <2>3, <2>4, <2>5
<1>9. CASE \E s \in Kinds : Submit(s)
  BY <1>9, <1>1, <1>c
<1>10. CASE \E f \in Slots : OnlineEvent(f) \/ Mount(f)
  BY <1>10, <1>3, <1>c
<1>11. CASE \E f \in Slots : MarkSynced(f)
  BY <1>11, <1>5, <1>a, <1>c
<1>12. CASE \E r \in wire : Serve(r) \/ ServeFails(r)
  BY <1>12, <1>6, <1>c
<1>13. CASE \E r \in wire : Answered(r) \/ Lost(r)
  BY <1>13, <1>7, <1>c
<1> QED
  BY <1>2, <1>4, <1>8, <1>9, <1>10, <1>11, <1>12, <1>13 DEF Next

-----------------------------------------------------------------------------

\* What every step keeps of the sheets and of the rows, and what the lemmas on the
\* single steps use.
LEMMA StepFacts ==
    ASSUME OfflineInv, [Next]_vars
    PROVE  /\ TypeOK' /\ Len(sheets) \in Nat /\ Len(sheets') \in Nat
           /\ Len(sheets) <= MaxSheets /\ Len(sheets) <= Len(sheets')
           /\ 1..Len(sheets) \subseteq 1..Len(sheets') /\ 1..Len(sheets) \subseteq Ids
           /\ \A i \in 1..Len(sheets) : OnServer(i) => OnServer(i)'
           /\ \A i \in Ids : db[i] > 0 => db'[i] > 0
<1>1. TypeOK /\ StoredOnce
  BY DEF OfflineInv, SheetInvariant
<1>2. Len(sheets) \in Nat /\ Len(sheets') \in Nat /\ Len(sheets) <= MaxSheets
      /\ Len(sheets) <= Len(sheets')
  BY <1>1, SheetsStay DEF TypeOK
<1>3. 1..Len(sheets) \subseteq 1..Len(sheets') /\ 1..Len(sheets) \subseteq Ids
  BY <1>2 DEF Ids
<1>4. \A i \in 1..Len(sheets) : OnServer(i) => OnServer(i)'
  BY <1>1, <1>3, OnServerStays
<1> QED
  BY <1>1, <1>2, <1>3, <1>4, RowsStay, TypeStep

\* The part of the invariant that is not about types.
QueueInv == NothingLost /\ SyncedIsStored /\ IdsAreGiven /\ SendersWait /\ CreatedIsStored

\* A step that leaves the statuses alone, and of the form, the flushes and the wire
\* what they say of sheets, loses nothing and falsifies no status.
LEMMA StatusesStay ==
    ASSUME OfflineInv, [Next]_vars, UNCHANGED <<idb, accepted>>
    PROVE  /\ NothingLost' /\ SyncedIsStored'
           /\ \A i \in Ids : idb'[i] # "none" => i \in 1..Len(sheets')
<1>1. \A i \in Ids : idb[i] # "none" => i \in 1..Len(sheets)
  BY DEF OfflineInv, IdsAreGiven
<1>2. NothingLost'
  BY StepFacts DEF OfflineInv, SheetInvariant, NothingLost, TypeOK
<1>3. \A i \in Ids : idb[i] = "synced" => OnServer(i)
  BY DEF OfflineInv, SheetInvariant, SyncedIsStored, OnServer
<1>4. \A i \in Ids : idb'[i] = "synced" => OnServer(i)'
  BY <1>1, <1>3, StepFacts
<1> QED
  BY <1>1, <1>2, <1>4, StepFacts DEF SyncedIsStored, OnServer

\* The submit handler posts or queues a sheet under a new id.
LEMMA SubmitKeeps ==
    ASSUME OfflineInv, [Next]_vars, NEW s \in Kinds, Submit(s)
    PROVE  QueueInv'
<1>1. TypeOK /\ IdsAreGiven /\ SendersWait /\ CreatedIsStored
  BY DEF OfflineInv, SheetInvariant
<1> DEFINE new == Request("form", {Len(sheets) + 1}, FALSE)
<1>a. /\ form.at = "idle" /\ sheets' = Append(sheets, s)
      /\ \/ form' = [at |-> "posting", id |-> Len(sheets) + 1] /\ wire' = wire \cup {new}
         \/ form' = [at |-> "queueing", id |-> Len(sheets) + 1] /\ wire' = wire
      /\ UNCHANGED <<idb, flush, db, token, app, accepted, faults>>
  BY DEF Submit
<1>b. Len(sheets') = Len(sheets) + 1
  BY <1>1, <1>a DEF TypeOK
<1>2. /\ form.at = "idle" /\ form'.id = Len(sheets) + 1 /\ Len(sheets') = Len(sheets) + 1
      /\ \/ form'.at = "posting" /\ wire' = wire \cup {new}
         \/ form'.at = "queueing" /\ wire' = wire
      /\ UNCHANGED <<idb, flush, db, token, app, accepted, faults>>
  <2> HIDE DEF new
  <2>1. form'.id = Len(sheets) + 1
    BY <1>a
  <2>2. \/ form'.at = "posting" /\ wire' = wire \cup {new}
        \/ form'.at = "queueing" /\ wire' = wire
    BY <1>a
  <2> QED
    BY <1>a, <1>b, <2>1, <2>2
<1>3. new.from = "form" /\ new.batch = {Len(sheets) + 1} /\ new.reply = "none"
  BY DEF Request
<1>4. \A r \in wire : r.from # "form"
  BY <1>1, <1>2 DEF SendersWait
<1>5. IdsAreGiven'
  <2> HIDE DEF new
  <2>1. /\ \A f \in Slots : flush'[f].batch \subseteq 1..Len(sheets')
        /\ \A r \in wire : r.batch \subseteq 1..Len(sheets')
    BY <1>1, <1>2, StepFacts DEF IdsAreGiven
  <2>2. new.batch \subseteq 1..Len(sheets') /\ form'.id \in 1..Len(sheets')
    BY <1>2, <1>3, StepFacts
  <2>3. wire' \subseteq wire \cup {new}
    BY <1>2
  <2>4. \A r \in wire' : r.batch \subseteq 1..Len(sheets')
    BY <2>1, <2>2, <2>3
  <2>5. \A i \in Ids : idb'[i] # "none" => i \in 1..Len(sheets')
    BY <1>2, StepFacts, StatusesStay
  <2> QED
    BY <2>1, <2>2, <2>4, <2>5 DEF IdsAreGiven
<1>6. SendersWait'
  <2> HIDE DEF new
  <2>1. ASSUME NEW r \in wire
        PROVE  /\ r.from # "form"
               /\ r.from \in Slots => flush'[r.from].at = "posting"
                                      /\ flush'[r.from].batch = r.batch
               /\ r.from = "nobody" => r.reply = "none"
               /\ r.from # "nobody" => \A q \in wire : q.from = r.from => q = r
    BY <1>1, <1>2, <1>4 DEF SendersWait
  <2>2. \A r \in wire' : r \in wire \/ (r = new /\ form'.at = "posting")
    BY <1>2
  <2>3. new.from \notin Slots /\ new.from # "nobody"
    BY <1>3
  <2>4. \A r \in wire', q \in wire' : q.from = r.from /\ r.from # "nobody" => q = r
    BY <1>3, <2>1, <2>2
  <2> QED
    BY <1>3, <2>1, <2>2, <2>3, <2>4 DEF SendersWait
<1>7. CreatedIsStored'
  BY <1>1, <1>2, <1>3, StepFacts DEF CreatedIsStored, IdsAreGiven
<1> QED
  BY <1>2, <1>5, <1>6, <1>7, StatusesStay DEF QueueInv

\* The submit handler puts its sheet into the queue.
LEMMA AddToQueueKeeps ==
    ASSUME OfflineInv, [Next]_vars, AddToQueue
    PROVE  QueueInv'
<1>1. /\ TypeOK /\ IdsAreGiven /\ SendersWait /\ CreatedIsStored /\ NothingLost
      /\ SyncedIsStored
  BY DEF OfflineInv, SheetInvariant
<1>2. /\ form.at = "queueing" /\ form' = IdleForm
      /\ idb' = [idb EXCEPT ![form.id] = "pending"] /\ accepted' = accepted \cup {form.id}
      /\ UNCHANGED <<sheets, flush, wire, db, token, app, faults>>
  BY DEF AddToQueue
<1>3. form.id \in Ids /\ form.id \in 1..Len(sheets)
  BY <1>1, <1>2, StepFacts DEF IdsAreGiven
<1>4. \A i \in Ids : idb'[i] = IF i = form.id THEN "pending" ELSE idb[i]
  <2>1. idb \in [Ids -> {"none", "pending", "synced"}]
    BY <1>1 DEF TypeOK
  <2> QED
    BY <1>2, <2>1
<1>5. NothingLost' /\ SyncedIsStored'
  <2>1. NothingLost'
    BY <1>1, <1>2, <1>3, <1>4 DEF NothingLost
  <2>2. SyncedIsStored'
    BY <1>1, <1>2, <1>4 DEF SyncedIsStored, Valid
  <2> QED
    BY <2>1, <2>2
<1>6. IdsAreGiven' /\ SendersWait'
  BY <1>1, <1>2, <1>3, <1>4 DEF IdsAreGiven, SendersWait, IdleForm
<1>7. CreatedIsStored'
  BY <1>1, <1>2 DEF CreatedIsStored, OnServer, Valid
<1> QED
  BY <1>5, <1>6, <1>7 DEF QueueInv

\* A flush starts, when the browser comes online or the form is mounted.
LEMMA FlushStartKeeps ==
    ASSUME OfflineInv, [Next]_vars, NEW f \in Slots, OnlineEvent(f) \/ Mount(f)
    PROVE  QueueInv'
<1>1. TypeOK /\ IdsAreGiven /\ SendersWait /\ CreatedIsStored
  BY DEF OfflineInv, SheetInvariant
<1>2. /\ flush[f] = IdleFlush /\ (Flushing(f) \/ UNCHANGED <<flush, wire>>)
      /\ UNCHANGED <<sheets, idb, form, db, accepted>>
  BY DEF OnlineEvent, Mount
<1>3. NothingLost' /\ SyncedIsStored'
  BY <1>2, StatusesStay
<1>4. CASE UNCHANGED <<flush, wire>>
  BY <1>1, <1>2, <1>3, <1>4
     DEF QueueInv, IdsAreGiven, SendersWait, CreatedIsStored, OnServer, Valid
<1>5. CASE flush' = [flush EXCEPT ![f] = [at |-> "posting", batch |-> Pending]]
           /\ wire' = wire \cup {Request(f, Pending, TRUE)}
  <2> DEFINE new == Request(f, Pending, TRUE)
  <2>1. \A g \in Slots : flush'[g] = IF g = f THEN [at |-> "posting", batch |-> Pending]
                                              ELSE flush[g]
    BY <1>1, <1>5 DEF TypeOK
  <2>2. new.from = f /\ new.batch = Pending /\ new.reply = "none"
    BY DEF Request
  <2> HIDE DEF new
  <2>a. wire' = wire \cup {new}
    BY <1>5 DEF new
  <2>3. Pending \subseteq 1..Len(sheets)
    BY <1>1 DEF Pending, IdsAreGiven
  <2>4. \A r \in wire : r.from # f
    BY <1>1, <1>2 DEF SendersWait, IdleFlush
  <2>5. IdsAreGiven'
    <3>1. ASSUME NEW g \in Slots
          PROVE  flush'[g].batch \subseteq 1..Len(sheets')
      <4>1. flush[g].batch \subseteq 1..Len(sheets)
        BY <1>1 DEF IdsAreGiven
      <4>2. flush'[g].batch = IF g = f THEN Pending ELSE flush[g].batch
        BY <2>1
      <4> QED
        BY <1>2, <2>3, <4>1, <4>2
    <3>2. \A r \in wire' : r.batch \subseteq 1..Len(sheets')
      BY <1>1, <1>2, <2>a, <2>2, <2>3 DEF IdsAreGiven
    <3> QED
      BY <1>1, <1>2, <3>1, <3>2 DEF IdsAreGiven
  <2>6. SendersWait'
    <3>1. ASSUME NEW r \in wire
          PROVE  /\ r.from = "form" => form'.at = "posting"
                 /\ r.from \in Slots => flush'[r.from].at = "posting"
                                        /\ flush'[r.from].batch = r.batch
                 /\ r.from = "nobody" => r.reply = "none"
                 /\ r.from # "nobody" => \A q \in wire : q.from = r.from => q = r
      BY <1>1, <1>2, <2>1, <2>4 DEF SendersWait
    <3>2. \A r \in wire', q \in wire' : q.from = r.from /\ r.from # "nobody" => q = r
      BY <2>a, <2>2, <2>4, <3>1
    <3>3. flush'[new.from].at = "posting" /\ flush'[new.from].batch = new.batch
          /\ new.from # "form" /\ new.from # "nobody"
      BY <2>1, <2>2
    <3> QED
      BY <2>a, <3>1, <3>2, <3>3 DEF SendersWait
  <2>7. CreatedIsStored'
    BY <1>1, <1>2, <2>a, <2>1, <2>2 DEF CreatedIsStored, OnServer, Valid
  <2> QED
    BY <1>3, <2>5, <2>6, <2>7 DEF QueueInv
<1> QED
  BY <1>2, <1>4, <1>5 DEF Flushing

\* The browser, the user and the token change nothing of the queue.
LEMMA QuietKeeps ==
    ASSUME OfflineInv, [Next]_vars, GoOffline \/ Unmount \/ Expire \/ Login \/ UNCHANGED vars
    PROVE  QueueInv'
<1>1. TypeOK /\ IdsAreGiven /\ SendersWait /\ CreatedIsStored
  BY DEF OfflineInv, SheetInvariant
<1>2. UNCHANGED <<sheets, idb, form, flush, wire, db, accepted>>
  BY DEF GoOffline, Unmount, Expire, Login, vars
<1> QED
  BY <1>1, <1>2, StatusesStay
     DEF QueueInv, IdsAreGiven, SendersWait, CreatedIsStored, OnServer, Valid

\* A flush marks the sheets that it read, all of them stored by then.
LEMMA MarkSyncedKeeps ==
    ASSUME OfflineInv, [Next]_vars, NEW f \in Slots, MarkSynced(f)
    PROVE  QueueInv'
<1>1. /\ TypeOK /\ IdsAreGiven /\ SendersWait /\ CreatedIsStored /\ NothingLost
      /\ SyncedIsStored
  BY DEF OfflineInv, SheetInvariant
<1>2. /\ flush[f].at = "marking" /\ idb' = Marked(flush[f].batch)
      /\ flush' = [flush EXCEPT ![f] = IdleFlush]
      /\ UNCHANGED <<sheets, form, wire, db, token, app, accepted, faults>>
  BY DEF MarkSynced
<1>3. \A i \in flush[f].batch : OnServer(i) /\ i \in 1..Len(sheets)
  BY <1>1, <1>2 DEF CreatedIsStored, IdsAreGiven
<1>4. \A i \in Ids : idb'[i] = IF i \in flush[f].batch THEN "synced" ELSE idb[i]
  BY <1>2 DEF Marked
<1>5. \A g \in Slots : flush'[g] = IF g = f THEN IdleFlush ELSE flush[g]
  BY <1>1, <1>2 DEF TypeOK
<1>6. NothingLost' /\ SyncedIsStored'
  BY <1>1, <1>2, <1>3, <1>4 DEF NothingLost, SyncedIsStored, OnServer, TypeOK, Valid
<1>7. IdsAreGiven'
  BY <1>1, <1>2, <1>3, <1>4, <1>5 DEF IdsAreGiven, IdleFlush
<1>8. SendersWait'
  BY <1>1, <1>2, <1>5 DEF SendersWait
<1>9. CreatedIsStored'
  BY <1>1, <1>2, <1>5 DEF CreatedIsStored, OnServer, Valid, IdleFlush
<1> QED
  BY <1>6, <1>7, <1>8, <1>9 DEF QueueInv

\* Serving a request replaces it by its answer, "created" only if all its sheets are
\* on the server then; a request that nobody waits for leaves no answer.
LEMMA AnswerShape ==
    ASSUME OfflineInv, [Next]_vars, NEW r \in wire, Serve(r) \/ ServeFails(r)
    PROVE  \E a \in Requests :
             /\ a.from = r.from /\ a.batch = r.batch
             /\ a.reply = "created" => \A i \in r.batch : OnServer(i)'
             /\ \/ r.from = "nobody" /\ wire' = wire \ {r}
                \/ r.from # "nobody" /\ wire' = (wire \ {r}) \cup {a}
<1>1. TypeOK /\ StoredOnce /\ IdsAreGiven /\ wire \subseteq Requests
  BY DEF OfflineInv, SheetInvariant, TypeOK, Requests
<1>2. \A reply \in {"created", "unauthorized", "refused"} :
        /\ [r EXCEPT !.reply = reply] \in Requests
        /\ [r EXCEPT !.reply = reply].from = r.from
        /\ [r EXCEPT !.reply = reply].batch = r.batch
        /\ [r EXCEPT !.reply = reply].reply = reply
  BY <1>1 DEF Requests
<1>3. CASE ServeFails(r)
  <2> DEFINE a == [r EXCEPT !.reply = "refused"]
  <2>1. \/ r.from = "nobody" /\ wire' = wire \ {r}
        \/ r.from # "nobody" /\ wire' = (wire \ {r}) \cup {a}
    BY <1>3 DEF ServeFails
  <2>2. a \in Requests /\ a.from = r.from /\ a.batch = r.batch /\ a.reply = "refused"
    BY <1>2
  <2> HIDE DEF a
  <2> QED
    BY <2>1, <2>2
<1>4. CASE Serve(r)
  <2> DEFINE reply == SubmitLogsheets(r).reply
             a == [r EXCEPT !.reply = reply]
  <2>1. reply \in {"created", "unauthorized", "refused"}
    BY DEF SubmitLogsheets
  <2>2. \/ r.from = "nobody" /\ wire' = wire \ {r}
        \/ r.from # "nobody" /\ wire' = (wire \ {r}) \cup {a}
    BY <1>4 DEF Serve
  <2>3. ASSUME reply = "created", NEW i \in r.batch
        PROVE  OnServer(i)'
    <3>1. db' = Inserted(r.batch) /\ \A j \in r.batch : Valid(sheets[j])
      BY <1>4, <2>3 DEF Serve, SubmitLogsheets
    <3>2. i \in Ids /\ i \in 1..Len(sheets)
      BY <1>1, StepFacts DEF IdsAreGiven
    <3>3. db[i] \in {0, 1}
      BY <1>1, <3>2 DEF TypeOK, StoredOnce
    <3>4. db'[i] = 1
      BY <3>1, <3>2, <3>3 DEF Inserted
    <3>5. sheets' = sheets
      BY <1>4 DEF Serve
    <3> QED
      BY <3>1, <3>4, <3>5 DEF OnServer, Valid
  <2>4. a \in Requests /\ a.from = r.from /\ a.batch = r.batch /\ a.reply = reply
    BY <1>2, <2>1
  <2> HIDE DEF a
  <2> QED
    BY <2>2, <2>3, <2>4
<1> QED
  BY <1>3, <1>4

\* The server answers, or fails to.
LEMMA ServeKeeps ==
    ASSUME OfflineInv, [Next]_vars, NEW r \in wire, Serve(r) \/ ServeFails(r)
    PROVE  QueueInv'
<1>1. /\ TypeOK /\ IdsAreGiven /\ SendersWait /\ CreatedIsStored
  BY DEF OfflineInv, SheetInvariant
<1>2. UNCHANGED <<sheets, idb, form, flush, accepted>>
  BY DEF Serve, ServeFails
<1>3. NothingLost' /\ SyncedIsStored'
  BY <1>2, StatusesStay
<1>4. PICK a \in Requests :
         /\ a.from = r.from /\ a.batch = r.batch
         /\ a.reply = "created" => \A i \in r.batch : OnServer(i)'
         /\ \/ r.from = "nobody" /\ wire' = wire \ {r}
            \/ r.from # "nobody" /\ wire' = (wire \ {r}) \cup {a}
  BY AnswerShape
<1>5. \A q \in wire' : (q \in wire /\ q # r) \/ (q = a /\ r.from # "nobody")
  BY <1>4
<1>6. IdsAreGiven'
  BY <1>1, <1>2, <1>4, <1>5 DEF IdsAreGiven
<1>7. SendersWait'
  <2>1. \A q \in wire :
          /\ q.from = "form" => form.at = "posting"
          /\ q.from \in Slots => flush[q.from].at = "posting" /\ flush[q.from].batch = q.batch
          /\ q.from = "nobody" => q.reply = "none"
    BY <1>1 DEF SendersWait
  <2>2. \A q, p \in wire : q.from # "nobody" /\ p.from = q.from => p = q
    BY <1>1 DEF SendersWait
  <2>3. \A q, p \in wire' : q.from # "nobody" /\ p.from = q.from => p = q
    BY <1>4, <1>5, <2>2
  <2> QED
    BY <1>2, <1>4, <1>5, <2>1, <2>3 DEF SendersWait
<1>8. CreatedIsStored'
  <2>1. \A q \in wire : q.reply = "created" => \A i \in q.batch : OnServer(i)'
    BY <1>1, StepFacts DEF CreatedIsStored, IdsAreGiven
  <2>2. \A f \in Slots : flush[f].at = "marking" => \A i \in flush[f].batch : OnServer(i)'
    BY <1>1, StepFacts DEF CreatedIsStored, IdsAreGiven
  <2> QED
    BY <1>2, <1>4, <1>5, <2>1, <2>2 DEF CreatedIsStored
<1> QED
  BY <1>3, <1>6, <1>7, <1>8 DEF QueueInv

\* What becomes of the sender of a request: the form queues its sheet, a flush marks
\* what was stored or is over; the other senders wait on.
LEMMA SenderGoesOn ==
    ASSUME OfflineInv, NEW r \in wire, r.from # "nobody", NEW ok \in BOOLEAN,
           Outcome(r.from, ok)
    PROVE  /\ form'.at # "idle" => form.at # "idle" /\ form'.id = form.id
           /\ r.from # "form" => form' = form
           /\ \A f \in Slots :
                /\ flush'[f].batch \subseteq flush[f].batch
                /\ f # r.from => flush'[f] = flush[f]
                /\ flush'[f].at = "marking" =>
                     \/ flush[f].at = "marking"
                     \/ f = r.from /\ ok /\ flush'[f].batch = r.batch
<1>1. TypeOK /\ SendersWait
  BY DEF OfflineInv, SheetInvariant
<1>2. CASE r.from = "form"
  <2>1. form.at = "posting" /\ form' = [form EXCEPT !.at = "queueing"] /\ flush' = flush
    BY <1>1, <1>2 DEF SendersWait, Outcome
  <2>2. form'.id = form.id
    BY <1>1, <2>1 DEF TypeOK
  <2> QED
    BY <1>2, <2>1, <2>2
<1>3. CASE r.from # "form"
  <2>1. r.from \in Slots
    BY <1>1, <1>3 DEF TypeOK
  <2>2. flush[r.from].at = "posting" /\ flush[r.from].batch = r.batch
    BY <1>1, <2>1 DEF SendersWait
  <2>3. /\ form' = form
        /\ flush' = [flush EXCEPT ![r.from] = IF ok THEN [at |-> "marking", batch |-> r.batch]
                                                    ELSE IdleFlush]
    BY <1>1, <1>3, <2>1, <2>2 DEF Outcome, FlushOutcome, TypeOK
  <2>4. \A f \in Slots : flush'[f] = IF f # r.from THEN flush[f]
                                    ELSE IF ok THEN [at |-> "marking", batch |-> r.batch]
                                    ELSE IdleFlush
    BY <1>1, <2>3 DEF TypeOK
  <2> QED
    BY <1>3, <2>2, <2>3, <2>4 DEF IdleFlush
<1> QED
  BY <1>2, <1>3

\* The client gets an answer, or gives up on one that may still come.
LEMMA AnsweredKeeps ==
    ASSUME OfflineInv, [Next]_vars, NEW r \in wire, Answered(r) \/ Lost(r)
    PROVE  QueueInv'
<1>1. /\ TypeOK /\ IdsAreGiven /\ SendersWait /\ CreatedIsStored
  BY DEF OfflineInv, SheetInvariant
<1>2. UNCHANGED <<sheets, idb, db, accepted>>
  BY DEF Answered, Lost
<1>3. NothingLost' /\ SyncedIsStored'
  BY <1>2, StatusesStay
<1>4. PICK ok \in BOOLEAN : Outcome(r.from, ok) /\ (ok => r.reply = "created")
  BY DEF Answered, Lost
<1>5. r.from # "nobody"
  BY <1>1, AnswerIsAwaited DEF Answered, Lost
<1> DEFINE orphan == [r EXCEPT !.from = "nobody"]
<1>6. wire' = wire \ {r} \/ (r.reply = "none" /\ wire' = (wire \ {r}) \cup {orphan})
  BY DEF Answered, Lost
<1>7. orphan.from = "nobody" /\ orphan.batch = r.batch /\ orphan.reply = r.reply
  BY <1>1 DEF TypeOK
<1> HIDE DEF orphan
<1>8. \A q \in wire' : \/ q \in wire /\ q # r /\ q.from # r.from
                       \/ q = orphan /\ r.reply = "none"
  BY <1>1, <1>5, <1>6 DEF SendersWait
<1>9. /\ form'.at # "idle" => form.at # "idle" /\ form'.id = form.id
      /\ r.from # "form" => form' = form
      /\ \A f \in Slots :
           /\ flush'[f].batch \subseteq flush[f].batch
           /\ f # r.from => flush'[f] = flush[f]
           /\ flush'[f].at = "marking" =>
                \/ flush[f].at = "marking"
                \/ f = r.from /\ ok /\ flush'[f].batch = r.batch
  BY <1>4, <1>5, SenderGoesOn
<1>10. IdsAreGiven'
  BY <1>1, <1>2, <1>7, <1>8, <1>9 DEF IdsAreGiven
<1>11. SendersWait'
  <2>1. ASSUME NEW q \in wire', q # orphan
        PROVE  /\ q.from = "form" => form'.at = "posting"
               /\ q.from \in Slots => flush'[q.from].at = "posting"
                                      /\ flush'[q.from].batch = q.batch
               /\ q.from = "nobody" => q.reply = "none"
    BY <1>1, <1>8, <1>9, <2>1 DEF SendersWait
  <2>2. \A q, p \in wire : q.from # "nobody" /\ p.from = q.from => p = q
    BY <1>1 DEF SendersWait
  <2>3. \A q, p \in wire' : q.from # "nobody" /\ p.from = q.from => p = q
    BY <1>7, <1>8, <2>2
  <2>4. ASSUME NEW q \in wire', q = orphan
        PROVE  q.from = "nobody" /\ q.reply = "none" /\ q.from # "form" /\ q.from \notin Slots
    BY <1>1, <1>7, <1>8, <2>4 DEF SendersWait
  <2> QED
    BY <2>1, <2>3, <2>4 DEF SendersWait
<1>12. CreatedIsStored'
  <2>1. \A q \in wire : q.reply = "created" => \A i \in q.batch : OnServer(i)'
    BY <1>1, StepFacts DEF CreatedIsStored, IdsAreGiven
  <2>2. \A f \in Slots : flush[f].at = "marking" => \A i \in flush[f].batch : OnServer(i)'
    BY <1>1, StepFacts DEF CreatedIsStored, IdsAreGiven
  <2>3. \A q \in wire' : q.reply = "created" => q \in wire
    BY <1>7, <1>8
  <2>4. ASSUME NEW f \in Slots, flush'[f].at = "marking"
        PROVE  \A i \in flush'[f].batch : OnServer(i)'
    BY <1>4, <1>9, <2>1, <2>2, <2>4
  <2> QED
    BY <2>1, <2>3, <2>4 DEF CreatedIsStored
<1> QED
  BY <1>3, <1>10, <1>11, <1>12 DEF QueueInv

\* Closing the app ends the form and the flushes and orphans their requests.
LEMMA CloseKeeps ==
    ASSUME OfflineInv, [Next]_vars, Close
    PROVE  QueueInv'
<1>1. /\ TypeOK /\ IdsAreGiven /\ SendersWait /\ CreatedIsStored
  BY DEF OfflineInv, SheetInvariant
<1>2. /\ form' = IdleForm /\ flush' = [f \in Slots |-> IdleFlush]
      /\ wire' = {[r EXCEPT !.from = "nobody"] : r \in {q \in wire : q.reply = "none"}}
      /\ UNCHANGED <<sheets, idb, db, accepted>>
  BY DEF Close
<1>3. NothingLost' /\ SyncedIsStored'
  BY <1>2, StatusesStay
<1>4. \A r \in wire : /\ [r EXCEPT !.from = "nobody"].from = "nobody"
                      /\ [r EXCEPT !.from = "nobody"].batch = r.batch
                      /\ [r EXCEPT !.from = "nobody"].reply = r.reply
  BY <1>1 DEF TypeOK
<1>5. \A q \in wire' : /\ q.from = "nobody" /\ q.reply = "none"
                       /\ \E r \in wire : q.batch = r.batch
  BY <1>2, <1>4
<1>6. IdsAreGiven'
  BY <1>1, <1>2, <1>5 DEF IdsAreGiven, IdleForm, IdleFlush
<1>7. SendersWait'
  BY <1>5 DEF SendersWait
<1>8. CreatedIsStored'
  BY <1>2, <1>5 DEF CreatedIsStored, IdleFlush
<1> QED
  BY <1>3, <1>6, <1>7, <1>8 DEF QueueInv

\* The invariant is inductive.
LEMMA OfflineStep ==
    ASSUME OfflineInv, [Next]_vars
    PROVE  OfflineInv'
<1>1. TypeOK' /\ StoredOnce'
  BY TypeStep, RowsStay DEF OfflineInv, SheetInvariant, StoredOnce
<1>2. QueueInv'
  BY SubmitKeeps, AddToQueueKeeps, FlushStartKeeps, QuietKeeps, MarkSyncedKeeps, ServeKeeps,
     AnsweredKeeps, CloseKeeps DEF Next
<1> QED
  BY <1>1, <1>2 DEF OfflineInv, SheetInvariant, QueueInv

\* The inductive invariant holds of every behaviour of the queue and the server.
LEMMA OfflineInvariant == Spec => []OfflineInv
<1>1. Init => OfflineInv
  BY InitOffline
<1>2. OfflineInv /\ [Next]_vars => OfflineInv'
  BY OfflineStep
<1> QED
  BY <1>1, <1>2, PTL DEF Spec

\* An accepted sheet is in the queue or on the server, there once, and only then
\* called synced: whatever is lost, closed, served late or sent again.
THEOREM AcceptedSheetsSurvive == Spec => []SheetInvariant
<1>1. OfflineInv => SheetInvariant
  BY DEF OfflineInv
<1> QED
  BY <1>1, OfflineInvariant, PTL

\* The server stores a list as a whole or not at all.
THEOREM ListsStayAtomic == Spec => ListsAreAtomic
<1> DEFINE Atomic == db' # db => \E r \in wire : /\ r.reply = "none"
                                                 /\ \A i \in r.batch : db'[i] > 0
                                                 /\ \A i \in Ids \ r.batch : db'[i] = db[i]
<1>1. OfflineInv /\ [Next]_vars => [Atomic]_vars
  <2> SUFFICES ASSUME OfflineInv, Next, db' # db
               PROVE  \E r \in wire : /\ r.reply = "none"
                                      /\ \A i \in r.batch : db'[i] > 0
                                      /\ \A i \in Ids \ r.batch : db'[i] = db[i]
    OBVIOUS
  <2>1. TypeOK
    BY DEF OfflineInv, SheetInvariant
  <2>2. PICK r \in wire : r.reply = "none" /\ db' = Inserted(r.batch)
    <3>1. [Next]_vars /\ ~UNCHANGED db
      OBVIOUS
    <3> QED
      BY <2>1, <3>1, OnlyServeStores
  <2>3. r.batch \subseteq Ids /\ \A i \in Ids : db[i] \in 0..3
    BY <2>1 DEF TypeOK
  <2>4. \A i \in Ids : db'[i] = IF i \in r.batch /\ db[i] = 0 THEN 1 ELSE db[i]
    BY <2>2 DEF Inserted
  <2> QED
    BY <2>2, <2>3, <2>4
<1> QED
  BY <1>1, OfflineInvariant, PTL DEF Spec, ListsAreAtomic
================================================================================
