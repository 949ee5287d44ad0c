---------------------------- MODULE OfflineQueue ----------------------------
(***************************************************************************)
(* Field-ops log sheets on their way from the form to the server: the      *)
(* submit handler (LogSheetForm.tsx), the queue in IndexedDB and its       *)
(* flushes (useOfflineQueue.ts), the API client (api.ts) and the batch     *)
(* endpoint with its authentication (logsheets.py, auth.py).  A request    *)
(* may be answered after the client has given up on it, or never.          *)
(*                                                                         *)
(* Of a sheet the model keeps what the server's validation looks at, and   *)
(* whether observers were selected.                                        *)
(***************************************************************************)
EXTENDS Integers, Sequences, FiniteSets

CONSTANTS
    Kinds,      \* the sheets a user may fill in, a subset of Sheet
    Slots,      \* bound on flushes that run at the same time
    MaxSheets,  \* bound on submissions
    MaxFaults   \* bound on closed apps, lost replies, server errors, expired tokens

Sheet == [station : {"absent", "blank", "code"},   \* never picked, picked and unset, picked
          method : {"", "campaign", "continuous"},
          antenna : BOOLEAN, slants : BOOLEAN,     \* model selected, all four heights given
          times : BOOLEAN,                         \* arrival or departure time given (HH:MM)
          fits : BOOLEAN,                          \* no text is longer than its column
          observers : BOOLEAN, photo : BOOLEAN]
Ids == 1..MaxSheets

\* A request is from a flush, from the form, or from nobody who waits for it.
ASSUME OfflineAssumption ==
    /\ Kinds \subseteq Sheet
    /\ "form" \notin Slots /\ "nobody" \notin Slots
    /\ MaxSheets \in Nat /\ MaxFaults \in Nat

VARIABLES
    sheets,   \* the submitted sheets; the position is the client_uuid
    idb,      \* the status of each sheet in IndexedDB
    form,     \* the submit handler
    flush,    \* the running flushes
    wire,     \* requests the server has not answered, or whose answer is under way
    db,       \* rows of each sheet in field_ops.logsheets
    token,    \* what localStorage holds; an expired token and none are alike
    app,      \* is the form mounted, does the browser say it is online
    accepted, \* history: sheets the user was told are saved
    faults
vars == <<sheets, idb, form, flush, wire, db, token, app, accepted, faults>>

IdleForm == [at |-> "idle", id |-> 0]
IdleFlush == [at |-> "idle", batch |-> {}]
Pending == {i \in Ids : idb[i] = "pending"}
Fault == faults < MaxFaults /\ faults' = faults + 1

TypeOK ==
    /\ sheets \in Seq(Kinds) /\ Len(sheets) <= MaxSheets
    /\ idb \in [Ids -> {"none", "pending", "synced"}]
    /\ form \in [at : {"idle", "posting", "queueing"}, id : 0..MaxSheets]
    /\ flush \in [Slots -> [at : {"idle", "posting", "marking"}, batch : SUBSET Ids]]
    /\ wire \subseteq [from : {"form", "nobody"} \cup Slots, batch : SUBSET Ids, list : BOOLEAN,
                       token : {"valid", "invalid"},
                       reply : {"none", "created", "unauthorized", "refused"}]
    /\ \A f \in Slots : flush[f].at = "idle" <=> flush[f].batch = {}
    /\ db \in [Ids -> 0..3] /\ token \in {"valid", "invalid"}
    /\ app \in [mounted : BOOLEAN, online : BOOLEAN]
    /\ accepted \subseteq Ids /\ faults \in 0..MaxFaults

Init ==
    /\ sheets = <<>> /\ idb = [i \in Ids |-> "none"]
    /\ form = IdleForm /\ flush = [f \in Slots |-> IdleFlush] /\ wire = {}
    /\ db = [i \in Ids |-> 0] /\ token = "valid"
    /\ app = [mounted |-> TRUE, online |-> TRUE] /\ accepted = {} /\ faults = 0

\* ---- the form

\* What the rendered form lets through: the fields registered as required, and a
\* photo, without which the button is disabled.  The station is not registered.
MethodChosen(s) == s.method # ""
CampaignComplete(s) == s.method = "campaign" => s.antenna
PhotoAttached(s) == s.photo
FormAccepts(s) == MethodChosen(s) /\ CampaignComplete(s) /\ PhotoAttached(s)

Request(from, batch, list) ==
    [from |-> from, batch |-> batch, list |-> list, token |-> token, reply |-> "none"]

\* submitLogSheet posts one object, not a list.
Submit(s) ==
    /\ app.mounted /\ form.at = "idle" /\ Len(sheets) < MaxSheets /\ FormAccepts(s)
    /\ sheets' = Append(sheets, s)
    /\ LET id == Len(sheets) + 1 IN
       IF app.online
       THEN form' = [at |-> "posting", id |-> id] /\ wire' = wire \cup {Request("form", {id}, FALSE)}
       ELSE form' = [at |-> "queueing", id |-> id] /\ UNCHANGED wire
    /\ UNCHANGED <<idb, flush, db, token, app, accepted, faults>>

AddToQueue ==
    /\ form.at = "queueing"
    /\ idb' = [idb EXCEPT ![form.id] = "pending"]
    /\ accepted' = accepted \cup {form.id} /\ form' = IdleForm
    /\ UNCHANGED <<sheets, flush, wire, db, token, app, faults>>

\* ---- the queue

\* A flush reads the pending sheets and posts them in one list.
Flushing(f) ==
    IF Pending = {} THEN UNCHANGED <<flush, wire>>
    ELSE /\ flush' = [flush EXCEPT ![f] = [at |-> "posting", batch |-> Pending]]
         /\ wire' = wire \cup {Request(f, Pending, TRUE)}

\* Mutation: nobody listens to the online event.
OnlineEventUnheard(f) ==
    /\ flush[f] = IdleFlush /\ ~app.online
    /\ app' = [app EXCEPT !.online = TRUE]
    /\ UNCHANGED <<sheets, idb, form, flush, wire, db, token, accepted, faults>>
\* The browser comes online, or stays online and the form is mounted anew.
OnlineEvent(f) ==
    /\ flush[f] = IdleFlush /\ ~app.online
    /\ app' = [app EXCEPT !.online = TRUE]
    /\ IF app.mounted THEN Flushing(f) ELSE UNCHANGED <<flush, wire>>
    /\ UNCHANGED <<sheets, idb, form, db, token, accepted, faults>>

Mount(f) ==
    /\ flush[f] = IdleFlush /\ ~app.mounted
    /\ app' = [app EXCEPT !.mounted = TRUE]
    /\ IF app.online THEN Flushing(f) ELSE UNCHANGED <<flush, wire>>
    /\ UNCHANGED <<sheets, idb, form, db, token, accepted, faults>>

GoOffline ==
    /\ app.online /\ app' = [app EXCEPT !.online = FALSE]
    /\ UNCHANGED <<sheets, idb, form, flush, wire, db, token, accepted, faults>>

\* The user turns to the queue view; what runs goes on.
Unmount ==
    /\ app.mounted /\ form.at = "idle" /\ app' = [app EXCEPT !.mounted = FALSE]
    /\ UNCHANGED <<sheets, idb, form, flush, wire, db, token, accepted, faults>>

\* Mutation: every sheet that is pending now is marked.
MarkedAll(batch) == [i \in Ids |-> IF idb[i] = "pending" THEN "synced" ELSE idb[i]]
\* The sheets that were read are marked, in one transaction.
Marked(batch) == [i \in Ids |-> IF i \in batch THEN "synced" ELSE idb[i]]

MarkSynced(f) ==
    /\ flush[f].at = "marking"
    /\ idb' = Marked(flush[f].batch)
    /\ flush' = [flush EXCEPT ![f] = IdleFlush]
    /\ UNCHANGED <<sheets, form, wire, db, token, app, accepted, faults>>

\* ---- the server

\* LogSheetIn: a station, be it the empty text, no bare time of day in a datetime, all
\* slant heights of a campaign sheet; and the columns it is stored in.
Valid(s) ==
    /\ s.station # "absent" /\ ~s.times
    /\ s.method = "campaign" => s.antenna /\ s.slants
    /\ s.fits

Inserted(batch) == [i \in Ids |-> IF i \in batch /\ db[i] = 0 THEN 1 ELSE db[i]]

\* Mutation: the sheets that are valid are stored before the list is refused.
SubmitLogsheetsPartly(r) ==
    IF r.token # "valid" THEN [db |-> db, reply |-> "unauthorized"]
    ELSE [db |-> Inserted({i \in r.batch : Valid(sheets[i])}),
          reply |-> IF r.list /\ \A i \in r.batch : Valid(sheets[i]) THEN "created" ELSE "refused"]
\* The user is looked up first, then the whole list is validated; a text that is too
\* long fails the one INSERT of the list.
SubmitLogsheets(r) ==
    IF r.token # "valid" THEN [db |-> db, reply |-> "unauthorized"]
    ELSE IF r.list /\ \A i \in r.batch : Valid(sheets[i])
    THEN [db |-> Inserted(r.batch), reply |-> "created"]
    ELSE [db |-> db, reply |-> "refused"]

Serve(r) ==
    /\ r.reply = "none"
    /\ LET answer == SubmitLogsheets(r) IN
       /\ db' = answer.db
       /\ wire' = (wire \ {r}) \cup (IF r.from = "nobody" THEN {} ELSE {[r EXCEPT !.reply = answer.reply]})
    /\ UNCHANGED <<sheets, idb, form, flush, token, app, accepted, faults>>

\* The database or the server fails: nothing is stored.
ServeFails(r) ==
    /\ Fault /\ r.reply = "none"
    /\ wire' = (wire \ {r}) \cup (IF r.from = "nobody" THEN {} ELSE {[r EXCEPT !.reply = "refused"]})
    /\ UNCHANGED <<sheets, idb, form, flush, db, token, app, accepted>>

\* ---- the client's side of an answer

FlushOutcome(f, ok) ==
    flush' = [flush EXCEPT ![f] = IF ok THEN [at |-> "marking", batch |-> @.batch] ELSE IdleFlush]

\* A form whose post fails queues its sheet.  (A post of one object is never
\* "created", so the upload of the photo is not reached.)
Outcome(from, ok) ==
    IF from = "form" THEN form' = [form EXCEPT !.at = "queueing"] /\ UNCHANGED flush
    ELSE FlushOutcome(from, ok) /\ UNCHANGED form

Answered(r) ==
    /\ r.reply # "none" /\ Outcome(r.from, r.reply = "created")
    /\ wire' = wire \ {r}
    /\ token' = IF r.reply = "unauthorized" THEN "invalid" ELSE token
    /\ UNCHANGED <<sheets, idb, db, app, accepted, faults>>

\* The client gives up; the request may still be served.
Lost(r) ==
    /\ Fault /\ r.from # "nobody" /\ Outcome(r.from, FALSE)
    /\ \/ wire' = wire \ {r}
       \/ r.reply = "none" /\ wire' = (wire \ {r}) \cup {[r EXCEPT !.from = "nobody"]}
    /\ UNCHANGED <<sheets, idb, db, token, app, accepted>>

\* The app is closed or killed.
Close ==
    /\ Fault /\ app.mounted
    /\ form' = IdleForm /\ flush' = [f \in Slots |-> IdleFlush]
    /\ app' = [app EXCEPT !.mounted = FALSE]
    /\ wire' = {[r EXCEPT !.from = "nobody"] : r \in {q \in wire : q.reply = "none"}}
    /\ UNCHANGED <<sheets, idb, db, token, accepted>>

Expire ==
    /\ Fault /\ token = "valid" /\ token' = "invalid"
    /\ UNCHANGED <<sheets, idb, form, flush, wire, db, app, accepted>>

\* login() of api.ts; no component calls it, so how the user gets to it is assumed.
Login ==
    /\ token # "valid" /\ token' = "valid"
    /\ UNCHANGED <<sheets, idb, form, flush, wire, db, app, accepted, faults>>

Next ==
    \/ \E s \in Kinds : Submit(s)
    \/ AddToQueue
    \/ \E f \in Slots : OnlineEvent(f)
    \/ \E f \in Slots : Mount(f)
    \/ GoOffline
    \/ Unmount
    \/ \E f \in Slots : MarkSynced(f)
    \/ \E r \in wire : Serve(r)
    \/ \E r \in wire : ServeFails(r)
    \/ \E r \in wire : Answered(r)
    \/ \E r \in wire : Lost(r)
    \/ Close
    \/ Expire
    \/ Login

\* A flush starts.
Reconnect(f) == (OnlineEvent(f) /\ app.mounted) \/ (Mount(f) /\ app.online)

\* The runtime runs what is due and requests are answered; the user keeps
\* going out of coverage and opening the form within coverage.
Fairness ==
    /\ WF_vars(AddToQueue) /\ WF_vars(GoOffline)
    /\ WF_vars(\E f \in Slots : OnlineEvent(f)) /\ SF_vars(\E f \in Slots : Reconnect(f))
    /\ \A f \in Slots : WF_vars(MarkSynced(f))
    /\ \A f \in Slots \cup {"form"} : /\ WF_vars(\E r \in wire : r.from = f /\ Serve(r))
                                    /\ WF_vars(\E r \in wire : r.from = f /\ Answered(r))

Spec == Init /\ [][Next]_vars /\ Fairness

-----------------------------------------------------------------------------
\* ---- properties

\* A sheet the user was told is saved is still in the queue or on the server.
NothingLost == \A i \in accepted : idb[i] = "pending" \/ db[i] > 0

\* However often a sheet is sent, by which flush, and whenever a request that the
\* client gave up on is served, it has one row.
StoredOnce == \A i \in Ids : db[i] <= 1

\* A sheet that is marked synced is on the server and was valid.
SyncedIsStored == \A i \in Ids : idb[i] = "synced" => db[i] = 1 /\ Valid(sheets[i])

\* A list is stored as a whole or not at all.
ListsAreAtomic ==
    [][db' # db => \E r \in wire : /\ r.reply = "none"
                                   /\ \A i \in r.batch : db'[i] > 0
                                   /\ \A i \in Ids \ r.batch : db'[i] = db[i]]_vars

\* If the user is logged in from some time on, a queued sheet is eventually on the
\* server, unless one in the queue is a sheet that the server refuses.  (The
\* condition is needed: a late 401 to an old request clears the new token.)
EventuallyStored ==
    <>[](token = "valid") =>
    \A i \in Ids : idb[i] = "pending" ~> (db[i] > 0 \/ \E j \in Pending : ~Valid(sheets[j]))

\* A sheet is queued only when the browser is offline or something failed
\* (LogSheetForm.tsx: "Network error mid-submit — save text payload to queue as
\* fallback").
QueuedOnlyOnFault == form.at = "queueing" /\ app.online /\ Valid(sheets[form.id]) => faults > 0

\* An accepted sheet is in the queue or on the server, there once, and only then
\* called synced.
SheetInvariant == TypeOK /\ NothingLost /\ StoredOnce /\ SyncedIsStored
=============================================================================
