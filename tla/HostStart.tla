----------------------------- MODULE HostStart -----------------------------
(***************************************************************************)
(* Hosts that start against one content root and one database.  A host     *)
(* registers its modules - Identity's takes the signing key from its       *)
(* provider -, where its environment calls for it migrates every schema    *)
(* and loads the seed, starts its background services, binds its port and  *)
(* serves; stopping, it drains its requests before its services.  Any      *)
(* failure on the way ends the process, and whoever runs it starts it      *)
(* again.                                                                  *)
(*                                                                         *)
(* Nothing keeps two hosts from doing this at once: the key file is read,  *)
(* truncated and written in separate steps; a schema's migrations run one  *)
(* transaction each under PostgreSQL's advisory lock; the seed is one      *)
(* transaction of rows with fixed ids, so that the first row of a second   *)
(* load waits for the first load's end and is then a duplicate.            *)
(*                                                                         *)
(* A key is named by the host that made it and a count.                    *)
(***************************************************************************)
EXTENDS Integers, Sequences, FiniteSets, SequencesExt, HostEnvironment

CONSTANTS
    Hosts,
    Settings,       \* [Hosts -> set of Setting]: what a host may be started with
    PortOf,         \* [Hosts -> port]
    MigrationOrder, \* MIGRATION_ORDER
    Versions,       \* [schema -> number of its migrations]
    ReadBy,         \* [schema -> the schemas whose tables its migrations read]
    MaxStops,       \* bound: hosts told to stop
    MaxFaults,      \* bound: crashes and refused statements
    Nobody

ASSUME OrderAssumption ==
    /\ MigrationOrder \in Seq(Range(MigrationOrder)) /\ MigrationOrder # <<>>
    /\ Versions \in [Range(MigrationOrder) -> Nat]
    /\ MaxStops \in Nat /\ MaxFaults \in Nat

VARIABLES
    setting, \* [Hosts -> Setting]
    stage,   \* [Hosts -> where the host is]
    schema,  \* [Hosts -> index in MigrationOrder of the schema it migrates]
    key,     \* [Hosts -> the key the host signs with]
    file,    \* the development key file: a key, Missing or Torn
    lock,    \* the host that holds the migration lock
    created, \* the schemas there are
    applied, \* [schema -> migrations applied]
    seeded,  \* copies of the seed in catalog."Track"
    loading, \* the hosts whose seed transaction has rows in the tables
    made,    \* [Hosts -> development keys it has made]
    raced,   \* a host found no key while another was making one (history)
    stops,   \* hosts told to stop so far
    faults

hostVars == <<setting, stage, schema, key, file, lock, created, applied, seeded, loading,
              made, raced, stops, faults>>

keyVars == <<key, file, made, raced>>
databaseVars == <<schema, lock, created, applied, seeded, loading>>
boundVars == <<setting, stops, faults>>

Missing == <<"missing", 0>>
Torn    == <<"torn", 0>>
NoKey   == <<"none", 0>>
Pem     == <<"pem", 0>>  \* the operator's key, the same for every host

Setting == [environment : {"Development", "Demo", "Production", "Test"},
            migrates : BOOLEAN,  \* Database:MigrateAndSeedOnStartup
            provider : {"Dev", "Pem", "KeyVault"},
            connection : BOOLEAN] \* ConnectionStrings:AppDatabase is there

-----------------------------------------------------------------------------
(* The gates *)

\* Why a host cannot be composed: a module without its connection string, or a
\* key provider that is not for this environment or not there.
Refused(s) == \/ ~s.connection
              \/ s.provider = "KeyVault"
              \/ s.provider = "Dev" /\ ~ExposesOperationalMetadata(s.environment)

Migrates(h) == MigratesOnStartup(setting[h].environment) /\ setting[h].migrates

\* MIGRATION_ORDER, whatever the order of registration.
InMigrationOrder == MigrationOrder

Current(h) == InMigrationOrder[schema[h]]

-----------------------------------------------------------------------------

HostInit ==
    /\ setting \in [Hosts -> Setting] /\ \A h \in Hosts : setting[h] \in Settings[h]
    /\ stage = [h \in Hosts |-> "down"]
    /\ schema = [h \in Hosts |-> 1]
    /\ key = [h \in Hosts |-> NoKey]
    /\ file = Missing
    /\ lock = Nobody
    /\ created = {}
    /\ applied = [s \in Range(MigrationOrder) |-> 0]
    /\ seeded = 0 /\ loading = {}
    /\ made = [h \in Hosts |-> 0]
    /\ raced = FALSE
    /\ stops = 0 /\ faults = 0

Goto(h, s) == stage' = [stage EXCEPT ![h] = s]

\* The process ends: its connection, with the lock and an open transaction,
\* goes too.
End(h) ==
    /\ Goto(h, "down")
    /\ key' = [key EXCEPT ![h] = NoKey]
    /\ schema' = [schema EXCEPT ![h] = 1]
    /\ lock' = IF lock = h THEN Nobody ELSE lock
    /\ loading' = loading \ {h}

Start(h) ==
    /\ stage[h] = "down" /\ ~Refused(setting[h])
    /\ Goto(h, IF setting[h].provider = "Dev" THEN "key" ELSE "registered")
    /\ key' = [key EXCEPT ![h] = IF setting[h].provider = "Dev" THEN NoKey ELSE Pem]
    /\ UNCHANGED <<file, made, raced, databaseVars, boundVars>>

-----------------------------------------------------------------------------
(* DevKeyMaterial::load_or_create *)

MakingAKey == {h \in Hosts : stage[h] \in {"made", "truncated"}}

Generate(h) ==
    /\ made' = [made EXCEPT ![h] = @ + 1]
    /\ key' = [key EXCEPT ![h] = <<h, made'[h]>>]
    /\ raced' = (raced \/ MakingAKey # {})
    /\ Goto(h, "made")

\* A file that cannot be read as a key is as good as none.
TryLoad(h) ==
    /\ stage[h] = "key"
    /\ \/ /\ file \notin {Missing, Torn}
          /\ key' = [key EXCEPT ![h] = file]
          /\ Goto(h, "registered")
          /\ UNCHANGED <<made, raced>>
       \/ /\ file \in {Missing, Torn}
          /\ Generate(h)
    /\ UNCHANGED <<file, databaseVars, boundVars>>

\* std::fs::write truncates ...
Truncate(h) ==
    /\ stage[h] = "made"
    /\ file' = Torn
    /\ Goto(h, "truncated")
    /\ UNCHANGED <<key, made, raced, databaseVars, boundVars>>

\* The new key is used and not kept.
Save_Not(h) ==
    /\ stage[h] = "truncated"
    /\ Goto(h, "registered")
    /\ UNCHANGED <<keyVars, databaseVars, boundVars>>

\* ... and then writes; over what another wrote meanwhile, if that was longer,
\* its end stays and the file is no key.
Save(h) ==
    /\ stage[h] = "truncated"
    /\ file' \in IF file = Torn THEN {key[h]} ELSE {key[h], Torn}
    /\ Goto(h, "registered")
    /\ UNCHANGED <<key, made, raced, databaseVars, boundVars>>

-----------------------------------------------------------------------------
(* db_seeder::migrate_and_seed *)

Registered(h) ==
    /\ stage[h] = "registered"
    /\ Goto(h, IF Migrates(h) THEN "schema" ELSE "composed")
    /\ UNCHANGED <<keyVars, databaseVars, boundVars>>

\* CREATE SCHEMA IF NOT EXISTS.  A host that is in the same statement, having
\* found no schema either, fails when this one commits.
CreateSchema(h) ==
    /\ stage[h] = "schema"
    /\ created' = created \cup {Current(h)}
    /\ \/ Goto(h, "waiting") /\ UNCHANGED <<key, schema, lock, loading>>
       \/ \E g \in Hosts \ {h} : /\ stage[g] = "schema" /\ schema[g] = schema[h]
                                 /\ Current(h) \notin created
                                 /\ stage' = [stage EXCEPT ![h] = "waiting", ![g] = "down"]
                                 /\ key' = [key EXCEPT ![g] = NoKey]
                                 /\ schema' = [schema EXCEPT ![g] = 1]
                                 /\ UNCHANGED <<lock, loading>>
    /\ UNCHANGED <<file, made, raced, applied, seeded, boundVars>>

Lock(h) ==
    /\ stage[h] = "waiting" /\ lock = Nobody
    /\ lock' = h
    /\ Goto(h, "migrating")
    /\ UNCHANGED <<schema, created, applied, seeded, loading, keyVars, boundVars>>

\* The views of a schema cannot be made before what they read: the statement
\* fails and the host ends.
Unreadable(h) == \E s \in ReadBy[Current(h)] : applied[s] < Versions[s]

\* The next migration, in a transaction of its own.
Migrate(h) ==
    /\ stage[h] = "migrating" /\ applied[Current(h)] < Versions[Current(h)]
    /\ IF Unreadable(h) THEN End(h) /\ UNCHANGED applied
       ELSE /\ applied' = [applied EXCEPT ![Current(h)] = @ + 1]
            /\ UNCHANGED <<stage, key, schema, lock, loading>>
    /\ UNCHANGED <<file, made, raced, created, seeded, boundVars>>

\* The lock is not given back: the next schema's migrator, on a connection of
\* its own, waits for it.
Migrated_KeepsLock(h) ==
    /\ stage[h] = "migrating" /\ applied[Current(h)] = Versions[Current(h)]
    /\ IF schema[h] < Len(InMigrationOrder)
       THEN Goto(h, "schema") /\ schema' = [schema EXCEPT ![h] = @ + 1]
       ELSE Goto(h, "seeding") /\ UNCHANGED schema
    /\ UNCHANGED <<lock, created, applied, seeded, loading, keyVars, boundVars>>

Migrated(h) ==
    /\ stage[h] = "migrating" /\ applied[Current(h)] = Versions[Current(h)]
    /\ lock' = Nobody
    /\ IF schema[h] < Len(InMigrationOrder)
       THEN Goto(h, "schema") /\ schema' = [schema EXCEPT ![h] = @ + 1]
       ELSE Goto(h, "seeding") /\ UNCHANGED schema
    /\ UNCHANGED <<created, applied, seeded, loading, keyVars, boundVars>>

\* SELECT EXISTS (SELECT 1 FROM catalog."Track")
CheckSeeded(h) ==
    /\ stage[h] = "seeding"
    /\ Goto(h, IF seeded > 0 THEN "composed" ELSE "unseeded")
    /\ UNCHANGED <<keyVars, databaseVars, boundVars>>

\* The seed's ids are drawn by the database: no row is a duplicate.
BeginLoad_NoIds(h) ==
    /\ stage[h] = "unseeded"
    /\ loading' = loading \cup {h}
    /\ Goto(h, "loading")
    /\ UNCHANGED <<schema, lock, created, applied, seeded, keyVars, boundVars>>

\* The first row goes in, unless another load is open: then it waits.
BeginLoad(h) ==
    /\ stage[h] = "unseeded" /\ loading = {} /\ seeded = 0
    /\ loading' = loading \cup {h}
    /\ Goto(h, "loading")
    /\ UNCHANGED <<schema, lock, created, applied, seeded, keyVars, boundVars>>

\* The row is a duplicate: the host does not start.
Duplicate(h) ==
    /\ stage[h] = "unseeded" /\ loading = {} /\ seeded > 0
    /\ End(h)
    /\ UNCHANGED <<file, made, raced, created, applied, seeded, boundVars>>

CommitLoad(h) ==
    /\ stage[h] = "loading"
    /\ seeded' = seeded + 1
    /\ loading' = loading \ {h}
    /\ Goto(h, "composed")
    /\ UNCHANGED <<schema, lock, created, applied, keyVars, boundVars>>

-----------------------------------------------------------------------------
(* main *)

\* The background services are started before the port is bound.
StartServices(h) ==
    /\ stage[h] = "composed"
    /\ Goto(h, "started")
    /\ UNCHANGED <<keyVars, databaseVars, boundVars>>

PortTaken(h) ==
    \E g \in Hosts \ {h} : PortOf[g] = PortOf[h] /\ stage[g] = "serving"

Bind(h) ==
    /\ stage[h] = "started"
    /\ IF PortTaken(h) THEN End(h)
       ELSE Goto(h, "serving") /\ UNCHANGED <<schema, key, lock, loading>>
    /\ UNCHANGED <<file, made, raced, created, applied, seeded, boundVars>>

\* Ctrl-C: the listener closes and the requests are drained ...
Drain(h) ==
    /\ stage[h] = "serving" /\ stops < MaxStops
    /\ stops' = stops + 1
    /\ Goto(h, "draining")
    /\ UNCHANGED <<keyVars, databaseVars, setting, faults>>

\* ... and then the services are stopped.
StopServices(h) ==
    /\ stage[h] = "draining"
    /\ End(h)
    /\ UNCHANGED <<file, made, raced, created, applied, seeded, boundVars>>

\* The process dies, or the database refuses.
Crash(h) ==
    /\ stage[h] # "down" /\ faults < MaxFaults
    /\ faults' = faults + 1
    /\ End(h)
    /\ UNCHANGED <<file, made, raced, created, applied, seeded, setting, stops>>

HostStep(h) ==
    \/ Start(h) \/ TryLoad(h) \/ Truncate(h) \/ Save(h) \/ Registered(h)
    \/ CreateSchema(h) \/ Lock(h) \/ Migrate(h) \/ Migrated(h)
    \/ CheckSeeded(h) \/ BeginLoad(h) \/ Duplicate(h) \/ CommitLoad(h)
    \/ StartServices(h) \/ Bind(h) \/ StopServices(h)

HostNext == \E h \in Hosts : HostStep(h) \/ Drain(h) \/ Crash(h)

HostSpec == HostInit /\ [][HostNext]_hostVars

\* A process that runs goes on, one that ended is started again, and whoever
\* waits for the migration lock gets it in its turn.
HostFairness == \A h \in Hosts : WF_hostVars(HostStep(h)) /\ SF_hostVars(Lock(h))

HostFairSpec == HostSpec /\ HostFairness

-----------------------------------------------------------------------------
(* Properties *)

AnyKey == {Missing, Torn, NoKey, Pem} \cup Hosts \X Nat

HostTypeOK ==
    /\ setting \in [Hosts -> Setting]
    /\ stage \in [Hosts -> {"down", "key", "made", "truncated", "registered", "schema",
                            "waiting", "migrating", "seeding", "unseeded", "loading",
                            "composed", "started", "serving", "draining"}]
    /\ schema \in [Hosts -> DOMAIN MigrationOrder]
    /\ lock \in Hosts \cup {Nobody}
    /\ applied \in [Range(MigrationOrder) -> Nat]
    /\ \A s \in Range(MigrationOrder) : applied[s] <= Versions[s]
    /\ seeded \in Nat /\ loading \subseteq Hosts
    /\ created \subseteq Range(MigrationOrder)
    /\ made \in [Hosts -> Nat] /\ key \in [Hosts -> AnyKey] /\ file \in AnyKey
    /\ raced \in BOOLEAN /\ stops \in 0..MaxStops /\ faults \in 0..MaxFaults

\* Whatever hosts start at once and wherever they fail, the seed is loaded at
\* most once, and a host that migrates is up only on a database that is
\* migrated and seeded - by itself or by another.
SeededOnce ==
    /\ seeded <= 1
    /\ \A h \in Hosts : Migrates(h) /\ stage[h] \in {"composed", "started", "serving", "draining"}
                          => seeded = 1 /\ \A s \in DOMAIN applied : applied[s] = Versions[s]

\* Hosts on the development provider sign with one key, the file's, and a
\* restart keeps it: a torn file, from a crash while it was written, is
\* replaced.  Two keys come only of two hosts that found no usable file in the
\* same moment.
OneDevKey ==
    raced \/ \A h \in Hosts : stage[h] \in {"registered", "started", "serving"}
                /\ setting[h].provider = "Dev" => key[h] = file

\* In the end every host that can be composed serves, or another holds its
\* port: no lock, no waiting load, no lost race for a schema or for the seed
\* and no crash keeps it down.
EveryHostStarts ==
    <>[](\A h \in Hosts : Refused(setting[h]) \/ stage[h] = "serving" \/ PortTaken(h))
=============================================================================
