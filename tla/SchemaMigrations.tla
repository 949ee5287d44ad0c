-------------------------- MODULE SchemaMigrations --------------------------
(***************************************************************************)
(* The two Alembic chains over one database: migrations/ ("main") and the  *)
(* one of the field-ops service ("fo"), which main extends at revision 8.  *)
(* A command runs its migrations in one transaction.                       *)
(*                                                                         *)
(* An object of the schema is <<table, part>>, the table itself (or an     *)
(* extension, schema, function or view) having the part "".  CREATE TABLE  *)
(* stands for the columns it lists, columns added later are objects.       *)
(***************************************************************************)
EXTENDS Integers, Sequences, FiniteSets, SequencesExt

VARIABLES
    objects,  \* the schema
    revision, \* the revision of each chain
    held,     \* what the data hold: "sha256" in rinex_files, "compressed" chunks
    refused   \* the latest Alembic command, if it was refused
vars == <<objects, revision, held, refused>>

T(t) == <<t, "">>
Parts(t, ps) == {<<t, p>> : p \in ps}
FieldOps == {"users", "logsheets", "equipment_inventory", "logsheet_photos",
             "equipment_history", "staff", "logsheet_observers", "alembic_version"}
Extensions == {T("postgis"), T("timescaledb")}

\* Which object refers to which: foreign keys, views, the trigger's function.
Refers == {<<T("rinex_files"), T("stations")>>, <<T("timeseries_data"), T("stations")>>,
           <<T("velocity_products"), T("stations")>>, <<T("logsheets"), T("users")>>,
           <<T("logsheet_photos"), T("logsheets")>>, <<T("logsheet_observers"), T("logsheets")>>,
           <<T("logsheet_observers"), T("staff")>>,
           <<T("vadase_velocities_1min"), T("vadase_velocities")>>,
           <<T("vadase_velocities_1hr"), T("vadase_velocities")>>,
           <<<<"processing_status", "trigger">>, T("set_updated_at")>>,
           <<T("stations"), T("postgis")>>, <<T("timeseries_data"), T("timescaledb")>>,
           <<T("vadase_velocities"), T("timescaledb")>>, <<T("vadase_displacements"), T("timescaledb")>>}

\* ---- statements

Do(do, what) == [do |-> do, what |-> what]
Create(t) == Do("create", {T(t)})
Ensure(t) == Do("ensure", {T(t)})
DropTable(t) == Do("drop", {T(t)})
Add(t, ps) == Do("create", Parts(t, ps))
AddIfMissing(t, ps) == Do("ensure", Parts(t, ps))
DropParts(t, ps) == Do("drop", Parts(t, ps))

Requires(x) == {p[2] : p \in {q \in Refers : q[1] = x}}
               \cup (IF x[2] # "" THEN {T(x[1])} ELSE {})
               \cup (IF x[1] \in FieldOps THEN {T("field_ops")} ELSE {})
Dropped(os, xs) == {y \in os : \E x \in xs : y = x \/ (x[2] = "" /\ y[1] = x[1])}

\* DROP is without CASCADE: nothing that stays may depend on what goes.
Droppable(os, xs) ==
    /\ \A y \in os \ Dropped(os, xs) : Requires(y) \cap xs = {}
    /\ \A x \in xs : x[2] # "" => T(x[1]) \in os

Possible(os, data, s) ==
    CASE s.do = "create" -> s.what \cap os = {} /\ \A x \in s.what : Requires(x) \subseteq os
      [] s.do = "ensure" -> \A x \in s.what : Requires(x) \subseteq os
      [] s.do = "drop" -> Droppable(os, s.what)
      [] s.do = "widen" -> <<"rinex_files", "hash_md5">> \in os
      [] s.do = "narrow" -> <<"rinex_files", "hash_sha256">> \in os /\ "sha256" \notin data
      [] s.do = "uncompress" -> "compressed" \notin data

Effect(os, s) ==
    CASE s.do \in {"create", "ensure"} -> os \cup s.what
      [] s.do = "drop" -> os \ Dropped(os, s.what)
      [] s.do = "widen" -> (os \ {<<"rinex_files", "hash_md5">>}) \cup {<<"rinex_files", "hash_sha256">>}
      [] s.do = "narrow" -> (os \ {<<"rinex_files", "hash_sha256">>}) \cup {<<"rinex_files", "hash_md5">>}
      [] s.do = "uncompress" -> os \ s.what

\* ---- the main chain

Stations004 == {"monitoring_method", "municipality", "province", "region", "land_owner",
                "maintenance_interval_days"}
Up001 == <<Ensure("postgis"), Create("stations"), Add("stations", {"idx_location"})>>
Down001 == <<DropTable("stations")>>
Up002 == <<Create("rinex_files"), Add("rinex_files", {"hash_md5"}), Add("rinex_files", {"idx_station_time"})>>
Down002 == <<DropParts("rinex_files", {"idx_station_time"}), DropTable("rinex_files")>>
Up003 == <<Ensure("timescaledb"), Create("timeseries_data"), Add("timeseries_data", {"hypertable"}),
           Add("timeseries_data", {"idx_station"}), Create("velocity_products"),
           Add("velocity_products", {"idx_station"})>>
Down003 == <<DropTable("velocity_products"), DropTable("timeseries_data")>>
Up004 == <<AddIfMissing("stations", Stations004), AddIfMissing("stations", {"idx_region"})>>
Down004 == <<DropParts("stations", {"idx_region"}), DropParts("stations", Stations004)>>
Up005 == <<Create("processing_status"), Ensure("set_updated_at"),
           Add("processing_status", {"trigger"}), Add("processing_status", {"idx_queue"})>>
Down005 == <<DropParts("processing_status", {"trigger"}), Do("drop", {T("set_updated_at")}),
             DropTable("processing_status")>>
Up006 == <<Create("ingestion_logs"), Add("ingestion_logs", {"idx_status"}), Add("ingestion_logs", {"idx_station"})>>
Down006 == <<DropTable("ingestion_logs")>>
Up007 == <<Create("offset_events"), Add("offset_events", {"idx_station"})>>
Down007 == <<DropTable("offset_events")>>
Up008 == <<Create("staff"), Add("staff", {"idx_is_active"}), Create("logsheet_observers"),
           Add("logsheets", {"monitoring_method", "chk_monitoring_method"}),
           Add("logsheets", {"power_notes", "battery_voltage_v", "battery_voltage_source", "temperature_c",
                             "temperature_source", "chk_battery_source", "chk_temperature_source"}),
           Add("logsheets", {"antenna_model", "slant_n_m", "slant_s_m", "slant_e_m", "slant_w_m",
                             "avg_slant_m", "rinex_height_m", "session_id", "utc_start", "utc_end",
                             "bubble_centred", "plumbing_offset_mm"})>>
\* Mutation: the tables are dropped, the constraints of logsheets are kept.
Down008KeepsConstraints == <<DropTable("logsheet_observers"), DropTable("staff"),
           DropParts("logsheets", {"plumbing_offset_mm", "bubble_centred", "utc_end", "utc_start", "session_id",
                                "rinex_height_m", "avg_slant_m", "slant_w_m", "slant_e_m", "slant_s_m",
                                "slant_n_m", "antenna_model"}),
           DropParts("logsheets", {"temperature_source", "temperature_c", "battery_voltage_source",
                                "battery_voltage_v", "power_notes"}),
           DropParts("logsheets", {"monitoring_method"})>>
Down008 == <<DropTable("logsheet_observers"), DropTable("staff"),
           DropParts("logsheets", {"plumbing_offset_mm", "bubble_centred", "utc_end", "utc_start", "session_id",
                                "rinex_height_m", "avg_slant_m", "slant_w_m", "slant_e_m", "slant_s_m",
                                "slant_n_m", "antenna_model"}),
           DropParts("logsheets", {"chk_temperature_source", "chk_battery_source", "temperature_source",
                                "temperature_c", "battery_voltage_source", "battery_voltage_v", "power_notes"}),
           DropParts("logsheets", {"chk_monitoring_method", "monitoring_method"})>>
Up009 == <<Do("widen", {})>>
Down009 == <<Do("narrow", {})>>
Up010 == <<Ensure("timescaledb"),
           Create("vadase_velocities"), Add("vadase_velocities", {"uq_time_station"}),
           Add("vadase_velocities", {"hypertable"}), Add("vadase_velocities", {"idx_station"}),
           Create("vadase_displacements"), Add("vadase_displacements", {"uq_time_station"}),
           Add("vadase_displacements", {"hypertable"}), Add("vadase_displacements", {"idx_station"}),
           Create("vadase_events"), Add("vadase_events", {"idx_station"})>>
Down010 == <<DropTable("vadase_events"), DropTable("vadase_displacements"), DropTable("vadase_velocities")>>
Up011 == <<Add("vadase_displacements", {"displacement_source"})>>
Down011 == <<DropParts("vadase_displacements", {"displacement_source"})>>
Policies == {"compression_policy", "retention_policy"}
Up012 == <<Add("vadase_velocities", {"compress"}), Add("vadase_velocities", Policies),
           Create("vadase_velocities_1min"), Add("vadase_velocities_1min", {"refresh_policy"}),
           Create("vadase_velocities_1hr"), Add("vadase_velocities_1hr", {"refresh_policy"}),
           Add("vadase_displacements", {"compress"}), Add("vadase_displacements", Policies)>>
Down012 == <<DropParts("vadase_displacements", Policies), Do("uncompress", Parts("vadase_displacements", {"compress"})),
             DropTable("vadase_velocities_1hr"), DropTable("vadase_velocities_1min"),
             DropParts("vadase_velocities", Policies), Do("uncompress", Parts("vadase_velocities", {"compress"}))>>
QcFields == {"qc_obs_count", "qc_cycle_slips", "qc_mp1_rms", "qc_mp2_rms"}
Up013 == <<Add("ingestion_logs", QcFields)>>
Down013 == <<DropParts("ingestion_logs", QcFields)>>

\* ---- the chain of field-ops, whose version table lives in its own schema

FoUp001 == <<Ensure("field_ops"), Create("users"), Create("logsheets"), Add("logsheets", {"idx_station"}),
             Create("equipment_inventory"), Create("logsheet_photos")>>
FoDown001 == <<DropTable("logsheet_photos"), DropTable("equipment_inventory"), DropTable("logsheets"),
               DropTable("users"), Do("drop", {T("field_ops")})>>
FoUp002 == <<Create("equipment_history"), Add("equipment_history", {"idx_station"})>>
FoDown002 == <<DropTable("equipment_history")>>
FoEnvironment == <<Ensure("field_ops"), Ensure("alembic_version")>>

Up == [main |-> <<Up001, Up002, Up003, Up004, Up005, Up006, Up007, Up008, Up009, Up010, Up011, Up012, Up013>>,
       fo |-> <<FoUp001, FoUp002>>]
Down == [main |-> <<Down001, Down002, Down003, Down004, Down005, Down006, Down007, Down008, Down009,
                    Down010, Down011, Down012, Down013>>,
         fo |-> <<FoDown001, FoDown002>>]
Chains == DOMAIN Up
Environment(c) == IF c = "fo" THEN FoEnvironment ELSE <<>>

Upgrades(c, from, to) == FlattenSeq([i \in 1..(to - from) |-> Up[c][from + i]])
Downgrades(c, from, to) == FlattenSeq([i \in 1..(from - to) |-> Down[c][from + 1 - i]])

\* The outcome of running statements in a transaction.
Outcome(os, data, ss) ==
    FoldLeft(LAMBDA db, s : IF db.ok /\ Possible(db.objects, data, s)
                            THEN [db EXCEPT !.objects = Effect(@, s)]
                            ELSE [db EXCEPT !.ok = FALSE],
             [ok |-> TRUE, objects |-> os], ss)

\* ---- what the programs name: the ORM models and the statements of the adapter

PublicModels == {T(t) : t \in {"stations", "rinex_files", "processing_status", "offset_events", "ingestion_logs"}}
    \cup Parts("stations", Stations004) \cup Parts("rinex_files", {"hash_sha256"})
    \cup Parts("ingestion_logs", QcFields)
FieldOpsModels == {T(t) : t \in FieldOps}
    \cup Parts("logsheets", {"monitoring_method", "power_notes", "battery_voltage_v", "battery_voltage_source",
              "temperature_c", "temperature_source", "antenna_model", "slant_n_m", "slant_s_m", "slant_e_m",
              "slant_w_m", "avg_slant_m", "rinex_height_m", "session_id", "utc_start", "utc_end",
              "bubble_centred", "plumbing_offset_mm"})
RowColumns == {T(t) : t \in {"vadase_velocities", "vadase_displacements", "vadase_events"}}
    \cup Parts("vadase_velocities", {"uq_time_station"})
    \cup Parts("vadase_displacements", {"uq_time_station", "displacement_source"})

Nothing == [chain |-> "main", from |-> 0, to |-> 0]

Init ==
    /\ objects = {} /\ revision = [c \in Chains |-> 0] /\ held = {}
    /\ refused = Nothing

Run(c, to, statements) ==
    LET db == Outcome(objects, held, Environment(c) \o statements) IN
    /\ refused' = IF db.ok THEN Nothing ELSE [chain |-> c, from |-> revision[c], to |-> to]
    /\ IF db.ok THEN objects' = db.objects /\ revision' = [revision EXCEPT ![c] = to]
       ELSE UNCHANGED <<objects, revision>>
    /\ held' = {d \in held : (d = "sha256" /\ T("rinex_files") \in objects')
                              \/ (d = "compressed" /\ T("vadase_velocities") \in objects')}

Upgrade(c, to) == revision[c] < to /\ Run(c, to, Upgrades(c, revision[c], to))
Downgrade(c, to) == to < revision[c] /\ Run(c, to, Downgrades(c, revision[c], to))

\* The ingestion pipeline stores the SHA-256 of a file.
Catalogued ==
    /\ <<"rinex_files", "hash_sha256">> \in objects /\ held' = held \cup {"sha256"}
    /\ UNCHANGED <<objects, revision, refused>>

\* The compression policy compresses a chunk.
Compressed ==
    /\ <<"vadase_velocities", "compression_policy">> \in objects /\ held' = held \cup {"compressed"}
    /\ UNCHANGED <<objects, revision, refused>>

Next ==
    \/ \E c \in Chains : \E to \in 1..Len(Up[c]) : Upgrade(c, to)
    \/ \E c \in Chains : \E to \in 0..(Len(Up[c]) - 1) : Downgrade(c, to)
    \/ Catalogued
    \/ Compressed

-----------------------------------------------------------------------------
\* ---- properties

\* Whatever upgrades and downgrades of the two chains led here, and whichever of
\* them failed, the schema is the one a fresh database would get for these
\* revisions, but for the extensions, which are never dropped.
Fresh == Outcome(Outcome({}, {}, IF revision["fo"] = 0 THEN <<>>
                                 ELSE FoEnvironment \o Upgrades("fo", 0, revision["fo"])).objects,
                 {}, Upgrades("main", 0, revision["main"])).objects
SchemaIsOfRevision == objects \ Extensions = Fresh \ Extensions

\* As long as main is at revision 8 or above the tables it extends are there.
ChainsConsistent == revision["main"] >= 8 => revision["fo"] >= 1 /\ T("logsheet_observers") \in objects

\* A refused command changes nothing and has a reason in the data or in the other
\* chain: a stored SHA-256, a compressed chunk, main at 8 without fo; or it asks
\* fo to go back to its base.
RefusalsHaveReason ==
    refused # Nothing =>
        \/ refused.chain = "main" /\ refused.to < 9 /\ refused.from >= 9 /\ "sha256" \in held
        \/ refused.chain = "main" /\ refused.to < 12 /\ refused.from >= 12 /\ "compressed" \in held
        \/ refused.chain = "main" /\ refused.from < 8 /\ refused.to >= 8 /\ revision["fo"] = 0
        \/ refused.chain = "fo" /\ refused.to = 0

\* A database at the head of both chains has what the models of the programs
\* name: the tables and the columns that came later.
ModelsAtHead ==
    revision["main"] = 13 /\ revision["fo"] = 2 => PublicModels \cup FieldOpsModels \cup RowColumns \subseteq objects

\* A stored SHA-256 does not keep 009 from being rolled back (its comment: "Values
\* longer than 32 chars (real SHA-256 hashes written after the upgrade) will be
\* truncated. Acceptable for a rollback scenario.").
RollbackTruncates == ~(refused.chain = "main" /\ refused.from = 9 /\ refused.to = 8 )

\* Both chains agree with the schema, with each other and with the programs.
SchemaInvariant == SchemaIsOfRevision /\ ChainsConsistent /\ RefusalsHaveReason /\ ModelsAtHead
=============================================================================
