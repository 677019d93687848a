--------------------------- MODULE HostStartProofs ---------------------------
(***************************************************************************)
(* What holds of any number of hosts that start against one database and   *)
(* one content root, for any modules, migrations and crashes; and of the   *)
(* composition of one, for any order of its modules.                       *)
(*                                                                         *)
(* SeededOnce rests on how far a host's start proves the database to be    *)
(* (Progress): nothing undoes a migration, so the schemas a host has passed *)
(* stay migrated whoever did it.  One load is open at a time (Loading).    *)
(* OneDevKey rests on what a host that makes a key excludes (KeysRight):   *)
(* while one makes a key, and no second does, no host has one.             *)
(*                                                                         *)
(* WiringIsComplete rests on what the services are once the modules in a   *)
(* set have registered, whichever came first (Services), and on a path's   *)
(* own pattern being the most static of those that fit it (OwnPattern).    *)
(***************************************************************************)
EXTENDS HostStart, Composition, SumsProofs, SequenceTheorems

Before  == {"down", "key", "made", "truncated", "registered"}
During  == {"schema", "waiting", "migrating"}
Loaders == {"seeding", "unseeded", "loading"}
Up      == {"composed", "started", "serving", "draining"}
Stages  == Before \cup During \cup Loaders \cup Up

Complete(n) == \A i \in 1..n : applied[MigrationOrder[i]] = Versions[MigrationOrder[i]]

AllComplete == Complete(Len(MigrationOrder))

Progress ==
    \A h \in Hosts :
        /\ stage[h] \in Before => schema[h] = 1
        /\ stage[h] \in During => Complete(schema[h] - 1)
        /\ stage[h] \in Loaders => AllComplete
        /\ stage[h] \in Up /\ Migrates(h) => AllComplete /\ seeded = 1

Loading ==
    /\ \A h \in Hosts : h \in loading <=> stage[h] = "loading"
    /\ \A g, h \in loading : g = h
    /\ seeded = 0 \/ seeded = 1
    /\ loading # {} => seeded = 0

Making(h) == stage[h] \in {"made", "truncated"}

Keyed(h) == /\ stage[h] \notin {"down", "key", "made", "truncated"}
            /\ setting[h].provider = "Dev"

Unusable == {Missing, Torn}

KeysRight ==
    raced \/
        /\ \A g, h \in Hosts : Making(g) /\ Making(h) => g = h
        /\ \A h \in Hosts : Making(h) =>
              /\ file \in Unusable /\ key[h] \notin Unusable
              /\ stage[h] = "truncated" => file = Torn
              /\ \A g \in Hosts : ~Keyed(g)
        /\ \A h \in Hosts : Keyed(h) => key[h] = file /\ file \notin Unusable

Types == HostTypeOK

IInv == Types /\ Progress /\ Loading /\ KeysRight

-----------------------------------------------------------------------------

LEMMA Order ==
    /\ Len(MigrationOrder) \in Nat /\ Len(MigrationOrder) >= 1
    /\ DOMAIN MigrationOrder = 1..Len(MigrationOrder)
    /\ \A i \in 1..Len(MigrationOrder) : MigrationOrder[i] \in Range(MigrationOrder)
    /\ \A s \in Range(MigrationOrder) : /\ Versions[s] \in Nat
                                        /\ \E i \in 1..Len(MigrationOrder) : s = MigrationOrder[i]
<1>1. /\ MigrationOrder \in Seq(Range(MigrationOrder)) /\ MigrationOrder # <<>>
      /\ Versions \in [Range(MigrationOrder) -> Nat]
  BY OrderAssumption
<1>2. DOMAIN MigrationOrder = 1..Len(MigrationOrder) /\ Len(MigrationOrder) \in Nat
  BY <1>1
<1>3. Len(MigrationOrder) >= 1
  BY <1>1
<1> QED BY <1>1, <1>2, <1>3 DEF Range

LEMMA InitInv == ASSUME HostInit PROVE IInv
<1>1. Types
  <2>1. /\ setting \in [Hosts -> Setting] /\ lock \in Hosts \cup {Nobody}
        /\ seeded \in Nat /\ loading \subseteq Hosts
        /\ created \subseteq Range(MigrationOrder)
    BY DEF HostInit
  <2>2. stage \in [Hosts -> Stages]
    BY DEF HostInit, Stages, Before
  <2>3. schema \in [Hosts -> DOMAIN MigrationOrder]
    BY Order DEF HostInit
  <2>4. /\ applied \in [Range(MigrationOrder) -> Nat]
        /\ \A s \in Range(MigrationOrder) : applied[s] <= Versions[s]
    BY Order DEF HostInit
  <2>5. made \in [Hosts -> Nat] /\ key \in [Hosts -> AnyKey] /\ file \in AnyKey
    BY DEF HostInit, AnyKey
  <2>6. raced \in BOOLEAN
    BY DEF HostInit
  <2>7. stops \in 0..MaxStops /\ faults \in 0..MaxFaults
    BY OrderAssumption DEF HostInit
  <2> QED BY <2>1, <2>2, <2>3, <2>4, <2>5, <2>6, <2>7
          DEF Types, HostTypeOK, Stages, Before, During, Loaders, Up
<1>2. Progress
  BY DEF Progress, HostInit, Before, During, Loaders, Up
<1>3. Loading
  BY DEF Loading, HostInit
<1>4. KeysRight
  BY DEF KeysRight, HostInit, Making, Keyed
<1> QED BY <1>1, <1>2, <1>3, <1>4 DEF IInv

-----------------------------------------------------------------------------
(* Steps that leave the database alone, or the keys *)

\* Every host is where it was, or down, or at a stage that asks no more of the
\* database than the one before.
Fallen(h) ==
    \/ stage'[h] = stage[h] /\ schema'[h] = schema[h]
    \/ stage'[h] \in Before /\ schema'[h] = 1
    \/ stage'[h] \in During /\ schema'[h] = schema[h] /\ stage[h] \in During \cup {"registered"}
    \/ stage'[h] \in Up /\ (stage[h] \in Up \/ ~Migrates(h))

LEMMA Undisturbed ==
    ASSUME IInv, \A h \in Hosts : Fallen(h),
           UNCHANGED <<setting, applied, seeded>>,
           \A h \in Hosts : h \in loading' <=> h \in loading /\ stage'[h] = stage[h],
           loading' \subseteq Hosts
    PROVE  Progress' /\ Loading'
<1>0. Progress /\ Loading /\ schema \in [Hosts -> DOMAIN MigrationOrder]
  BY DEF IInv, Types, HostTypeOK
<1>1. ASSUME NEW h \in Hosts
      PROVE  /\ stage'[h] \in Before => schema'[h] = 1
             /\ stage'[h] \in During => Complete(schema'[h] - 1)
             /\ stage'[h] \in Loaders => AllComplete
             /\ stage'[h] \in Up /\ Migrates(h) => AllComplete /\ seeded = 1
  <2>1. /\ stage[h] \in Before => schema[h] = 1
        /\ stage[h] \in During => Complete(schema[h] - 1)
        /\ stage[h] \in Loaders => AllComplete
        /\ stage[h] \in Up /\ Migrates(h) => AllComplete /\ seeded = 1
    BY <1>0 DEF Progress
  <2>2. Complete(1 - 1)
    BY DEF Complete
  <2>3. CASE stage'[h] = stage[h] /\ schema'[h] = schema[h]
    BY <2>1, <2>3
  <2>4. CASE stage'[h] \in Before /\ schema'[h] = 1
    BY <2>4 DEF Before, During, Loaders, Up
  <2>5. CASE /\ stage'[h] \in During /\ schema'[h] = schema[h]
             /\ stage[h] \in During \cup {"registered"}
    BY <2>1, <2>2, <2>5 DEF Before, During, Loaders, Up
  <2>6. CASE stage'[h] \in Up /\ (stage[h] \in Up \/ ~Migrates(h))
    BY <2>1, <2>6 DEF Before, During, Loaders, Up
  <2> QED BY <2>3, <2>4, <2>5, <2>6 DEF Fallen
<1>2. Progress'
  BY <1>1 DEF Progress, Complete, AllComplete, Migrates
<1>3. Loading'
  BY <1>0 DEF Loading, Fallen, Before, During, Up
<1> QED BY <1>2, <1>3

\* No host comes to have a key, or to make one.
LEMMA KeysUndisturbed ==
    ASSUME KeysRight, UNCHANGED <<setting, file, raced>>,
           \A h \in Hosts : \/ stage'[h] \in {"down", "key"}
                            \/ stage'[h] = stage[h] /\ key'[h] = key[h]
                            \/ /\ stage[h] \notin {"down", "key", "made", "truncated"}
                               /\ stage'[h] \notin {"down", "key", "made", "truncated"}
                               /\ key'[h] = key[h]
                            \/ /\ stage'[h] \notin {"made", "truncated"}
                               /\ setting[h].provider # "Dev"
    PROVE  KeysRight'
BY DEF KeysRight, Making, Keyed

-----------------------------------------------------------------------------
(* The steps *)

\* One host moves, and only its stage and key change.
LEMMA Moved ==
    ASSUME IInv, NEW h \in Hosts, NEW s \in Stages, Goto(h, s)
    PROVE  /\ stage' \in [Hosts -> Stages] /\ stage'[h] = s
           /\ \A g \in Hosts \ {h} : stage'[g] = stage[g]
<1>1. stage \in [Hosts -> Stages]
  BY DEF IInv, Types, HostTypeOK, Stages, Before, During, Loaders, Up
<1> QED BY <1>1 DEF Goto

\* A host in the tables' transaction ends, and with it the transaction.
LEMMA EndInv ==
    ASSUME IInv, NEW h \in Hosts, End(h),
           UNCHANGED <<setting, file, made, raced, created, applied, seeded>>,
           stops' \in 0..MaxStops, faults' \in 0..MaxFaults
    PROVE  IInv'
<1>0. Types /\ Progress /\ Loading /\ KeysRight
  BY DEF IInv
<1>1. /\ stage' \in [Hosts -> Stages] /\ stage'[h] = "down"
      /\ \A g \in Hosts \ {h} : stage'[g] = stage[g]
  <2>1. "down" \in Stages
    BY DEF Stages, Before
  <2> QED BY <2>1, Moved DEF End
<1>2. /\ key' \in [Hosts -> AnyKey] /\ schema' \in [Hosts -> DOMAIN MigrationOrder]
      /\ \A g \in Hosts \ {h} : key'[g] = key[g] /\ schema'[g] = schema[g]
      /\ schema'[h] = 1
      /\ lock' \in Hosts \cup {Nobody}
  <2>1. NoKey \in AnyKey /\ 1 \in DOMAIN MigrationOrder
    BY Order DEF AnyKey
  <2> QED BY <1>0, <2>1 DEF End, Types, HostTypeOK
<1>3. loading' = loading \ {h} /\ loading' \subseteq Hosts
  BY <1>0 DEF End, Types, HostTypeOK
<1>4. Types'
  BY <1>0, <1>1, <1>2, <1>3
     DEF Types, HostTypeOK, AnyKey, Stages, Before, During, Loaders, Up
<1>5. \A g \in Hosts : Fallen(g)
  BY <1>1, <1>2 DEF Fallen, Before
<1>6. \A g \in Hosts : g \in loading' <=> g \in loading /\ stage'[g] = stage[g]
  BY <1>0, <1>1, <1>3 DEF Loading
<1>7. Progress' /\ Loading'
  BY <1>3, <1>5, <1>6, Undisturbed
<1>8. KeysRight'
  BY <1>0, <1>1, <1>2, KeysUndisturbed
<1> QED BY <1>4, <1>7, <1>8 DEF IInv

\* A host goes from one stage to another that asks for no more.
LEMMA MoveInv ==
    ASSUME IInv, NEW h \in Hosts, NEW s \in Stages, Goto(h, s), stage[h] # "loading",
           UNCHANGED <<setting, key, file, made, raced, schema, applied, seeded, loading>>,
           created' \subseteq Range(MigrationOrder),
           lock' \in Hosts \cup {Nobody}, stops' \in 0..MaxStops, faults' \in 0..MaxFaults,
           \/ stage[h] = "registered" /\ s = "schema"
           \/ stage[h] = "registered" /\ s \in Up /\ ~Migrates(h)
           \/ stage[h] \in During /\ s \in During
           \/ stage[h] \in Up /\ s \in Up
    PROVE  IInv'
<1>0. Types /\ Progress /\ Loading /\ KeysRight
  BY DEF IInv
<1>1. /\ stage' \in [Hosts -> Stages] /\ stage'[h] = s
      /\ \A g \in Hosts \ {h} : stage'[g] = stage[g]
  BY Moved
<1>2. Types'
  BY <1>0, <1>1 DEF Types, HostTypeOK, AnyKey, Stages, Before, During, Loaders, Up
<1>3. \A g \in Hosts : Fallen(g)
  BY <1>1 DEF Fallen, During, Up
<1>4. \A g \in Hosts : g \in loading' <=> g \in loading /\ stage'[g] = stage[g]
  BY <1>0, <1>1 DEF Loading
<1>5. Progress' /\ Loading'
  BY <1>0, <1>3, <1>4, Undisturbed DEF Types, HostTypeOK
<1>6. KeysRight'
  <2>1. /\ stage[h] \notin {"down", "key", "made", "truncated"}
        /\ s \notin {"down", "key", "made", "truncated"}
    BY DEF During, Up
  <2> QED BY <1>0, <1>1, <2>1, KeysUndisturbed
<1> QED BY <1>2, <1>5, <1>6 DEF IInv

\* A host on its way to a key.
LEMMA KeyStepInv ==
    ASSUME IInv, NEW h \in Hosts, NEW s \in Before, Goto(h, s), stage[h] \in Before,
           UNCHANGED <<databaseVars, boundVars>>,
           key' \in [Hosts -> AnyKey], file' \in AnyKey, made' \in [Hosts -> Nat],
           raced' \in BOOLEAN, KeysRight'
    PROVE  IInv'
<1>0. Types /\ Progress /\ Loading
  BY DEF IInv
<1>1. /\ stage' \in [Hosts -> Stages] /\ stage'[h] = s
      /\ \A g \in Hosts \ {h} : stage'[g] = stage[g]
  <2>1. s \in Stages
    BY DEF Stages
  <2> QED BY <2>1, Moved
<1>2. UNCHANGED <<schema, lock, created, applied, seeded, loading, setting, stops, faults>>
  BY DEF databaseVars, boundVars
<1>3. Types'
  BY <1>0, <1>1, <1>2 DEF Types, HostTypeOK, Stages, Before, During, Loaders, Up
<1>4. \A g \in Hosts : Fallen(g)
  BY <1>0, <1>1, <1>2 DEF Fallen, Progress
<1>5. \A g \in Hosts : g \in loading' <=> g \in loading /\ stage'[g] = stage[g]
  BY <1>0, <1>1, <1>2 DEF Loading, Before
<1>6. Progress' /\ Loading'
  BY <1>0, <1>2, <1>4, <1>5, Undisturbed DEF Types, HostTypeOK
<1> QED BY <1>3, <1>6 DEF IInv

LEMMA StartInv == ASSUME IInv, NEW h \in Hosts, Start(h) PROVE IInv'
<1>0. Types /\ KeysRight
  BY DEF IInv
<1> DEFINE s == IF setting[h].provider = "Dev" THEN "key" ELSE "registered"
           k == IF setting[h].provider = "Dev" THEN NoKey ELSE Pem
<1>1. /\ s \in Before /\ stage[h] \in Before /\ Goto(h, s)
      /\ key' = [key EXCEPT ![h] = k]
      /\ UNCHANGED <<file, made, raced, databaseVars, boundVars>>
  BY DEF Start, Before
<1>2. k \in AnyKey
  BY DEF AnyKey
<1>3. s = "key" \/ (setting[h].provider # "Dev" /\ s = "registered")
  OBVIOUS
<1> HIDE DEF s, k
<1>4. key' \in [Hosts -> AnyKey] /\ \A g \in Hosts \ {h} : key'[g] = key[g]
  BY <1>0, <1>1, <1>2 DEF Types, HostTypeOK
<1>5. stage'[h] = s /\ \A g \in Hosts \ {h} : stage'[g] = stage[g]
  BY <1>0, <1>1 DEF Goto, Types, HostTypeOK
<1>6. KeysRight'
  BY <1>0, <1>1, <1>3, <1>4, <1>5, KeysUndisturbed DEF boundVars
<1> QED BY <1>0, <1>1, <1>4, <1>6, KeyStepInv DEF Types, HostTypeOK, AnyKey

LEMMA TryLoadInv == ASSUME IInv, NEW h \in Hosts, TryLoad(h) PROVE IInv'
<1>0. Types /\ KeysRight
  BY DEF IInv
<1>1. /\ stage[h] = "key" /\ stage[h] \in Before /\ "registered" \in Before /\ "made" \in Before
      /\ UNCHANGED <<file, databaseVars, boundVars, setting>>
      /\ file \in AnyKey /\ key \in [Hosts -> AnyKey] /\ made \in [Hosts -> Nat]
      /\ raced \in BOOLEAN
      /\ stage \in [Hosts -> Stages]
  BY <1>0 DEF TryLoad, Before, During, Loaders, Up, Stages, boundVars, Types, HostTypeOK
<1>2. CASE /\ file \notin {Missing, Torn} /\ key' = [key EXCEPT ![h] = file]
           /\ Goto(h, "registered") /\ UNCHANGED <<made, raced>>
  <2>1. /\ key'[h] = file /\ stage'[h] = "registered" /\ key' \in [Hosts -> AnyKey]
        /\ \A g \in Hosts \ {h} : key'[g] = key[g] /\ stage'[g] = stage[g]
    BY <1>1, <1>2 DEF Goto
  <2>2. KeysRight'
    BY <1>0, <1>1, <1>2, <2>1 DEF KeysRight, Keyed, Making, Unusable
  <2> QED BY <1>1, <1>2, <2>1, <2>2, KeyStepInv DEF AnyKey
<1>3. CASE file \in {Missing, Torn} /\ Generate(h)
  <2>1. /\ made' \in [Hosts -> Nat] /\ made'[h] >= 1
        /\ key'[h] = <<h, made'[h]>> /\ stage'[h] = "made"
        /\ \A g \in Hosts \ {h} : key'[g] = key[g] /\ stage'[g] = stage[g]
    BY <1>1, <1>3 DEF Generate, Goto
  <2>2. <<h, made'[h]>> \in AnyKey /\ <<h, made'[h]>> \notin Unusable
    BY <2>1 DEF AnyKey, Unusable, Missing, Torn
  <2>3. key' \in [Hosts -> AnyKey]
    BY <1>1, <1>3, <2>2 DEF Generate
  <2>4. raced' = (raced \/ MakingAKey # {}) /\ raced' \in BOOLEAN
    BY <1>3 DEF Generate
  <2>5. KeysRight'
    <3>1. SUFFICES ASSUME ~raced, \A g \in Hosts : ~Making(g) PROVE KeysRight'
      BY <2>4 DEF MakingAKey, Making, KeysRight
    <3>2. \A g \in Hosts : ~Keyed(g)
      BY <1>0, <1>3, <3>1 DEF KeysRight, Unusable
    <3>3. \A g \in Hosts : Making(g)' => g = h
      BY <2>1, <3>1 DEF Making
    <3>4. \A g \in Hosts : ~Keyed(g)'
      BY <1>1, <2>1, <3>2 DEF Keyed
    <3> QED BY <1>1, <1>3, <2>1, <2>2, <3>3, <3>4 DEF KeysRight, Unusable
  <2> QED BY <1>1, <1>3, <2>1, <2>3, <2>4, <2>5, KeyStepInv DEF Generate, AnyKey
<1> QED BY <1>2, <1>3 DEF TryLoad

LEMMA TruncateInv == ASSUME IInv, NEW h \in Hosts, Truncate(h) PROVE IInv'
<1>0. Types /\ KeysRight
  BY DEF IInv
<1>1. /\ stage[h] = "made" /\ stage[h] \in Before /\ "truncated" \in Before
      /\ Goto(h, "truncated") /\ file' = Torn /\ Torn \in AnyKey
      /\ UNCHANGED <<key, made, raced, databaseVars, boundVars, setting>>
      /\ key \in [Hosts -> AnyKey] /\ made \in [Hosts -> Nat] /\ raced \in BOOLEAN
      /\ stage \in [Hosts -> Stages]
  BY <1>0 DEF Truncate, Before, During, Loaders, Up, Stages, boundVars, Types, HostTypeOK, AnyKey
<1>2. stage'[h] = "truncated" /\ \A g \in Hosts \ {h} : stage'[g] = stage[g]
  BY <1>1 DEF Goto
<1>3. KeysRight'
  <2>1. SUFFICES ASSUME ~raced PROVE KeysRight'
    BY <1>1 DEF KeysRight
  <2>2. \A g \in Hosts : ~Keyed(g) /\ (Making(g) => g = h)
    BY <1>0, <1>1, <2>1 DEF KeysRight, Making
  <2>3. \A g \in Hosts : ~Keyed(g)' /\ (Making(g)' => g = h)
    BY <1>1, <1>2, <2>2 DEF Keyed, Making
  <2>4. key[h] \notin Unusable
    BY <1>0, <1>1, <2>1 DEF KeysRight, Making
  <2> QED BY <1>1, <2>3, <2>4 DEF KeysRight, Unusable
<1> QED BY <1>1, <1>3, KeyStepInv DEF AnyKey

LEMMA SaveInv == ASSUME IInv, NEW h \in Hosts, Save(h) PROVE IInv'
<1>0. Types /\ KeysRight
  BY DEF IInv
<1>1. /\ stage[h] = "truncated" /\ stage[h] \in Before /\ "registered" \in Before
      /\ Goto(h, "registered") /\ file' \in {key[h], Torn}
      /\ file = Torn => file' = key[h]
      /\ UNCHANGED <<key, made, raced, databaseVars, boundVars, setting>>
      /\ key \in [Hosts -> AnyKey] /\ made \in [Hosts -> Nat] /\ raced \in BOOLEAN
      /\ stage \in [Hosts -> Stages]
  BY <1>0 DEF Save, Before, During, Loaders, Up, Stages, boundVars, Types, HostTypeOK
<1>2. stage'[h] = "registered" /\ \A g \in Hosts \ {h} : stage'[g] = stage[g]
  BY <1>1 DEF Goto
<1>3. file' \in AnyKey
  BY <1>1 DEF AnyKey
<1>4. KeysRight'
  <2>1. SUFFICES ASSUME ~raced PROVE KeysRight'
    BY <1>1 DEF KeysRight
  <2>2. \A g \in Hosts : ~Keyed(g) /\ (Making(g) => g = h)
    BY <1>0, <1>1, <2>1 DEF KeysRight, Making
  <2>3. \A g \in Hosts : ~Making(g)' /\ (Keyed(g)' => g = h)
    BY <1>1, <1>2, <2>2 DEF Keyed, Making
  <2>4. file' = key[h] /\ key[h] \notin Unusable
    BY <1>0, <1>1, <2>1 DEF KeysRight, Making
  <2> QED BY <1>1, <2>3, <2>4 DEF KeysRight, Unusable
<1> QED BY <1>1, <1>3, <1>4, KeyStepInv DEF AnyKey

LEMMA RegisteredInv == ASSUME IInv, NEW h \in Hosts, Registered(h) PROVE IInv'
<1>1. /\ stage[h] = "registered" /\ stage[h] # "loading"
      /\ Goto(h, IF Migrates(h) THEN "schema" ELSE "composed")
      /\ UNCHANGED <<setting, key, file, made, raced, schema, created, applied, seeded,
                     loading, lock, stops, faults>>
      /\ created' \subseteq Range(MigrationOrder)
      /\ lock' \in Hosts \cup {Nobody} /\ stops' \in 0..MaxStops /\ faults' \in 0..MaxFaults
  BY DEF Registered, keyVars, databaseVars, boundVars, IInv, Types, HostTypeOK
<1>2. "schema" \in Stages /\ "composed" \in Stages /\ "composed" \in Up
  BY DEF Stages, During, Up
<1>3. CASE Migrates(h)
  <2>1. Goto(h, "schema")
    BY <1>1, <1>3
  <2> QED BY <1>1, <1>2, <2>1, MoveInv
<1>4. CASE ~Migrates(h)
  <2>1. Goto(h, "composed")
    BY <1>1, <1>4
  <2> QED BY <1>1, <1>2, <1>4, <2>1, MoveInv
<1> QED BY <1>3, <1>4

LEMMA CurrentIsSchema ==
    ASSUME Types, NEW h \in Hosts
    PROVE  /\ schema[h] \in 1..Len(MigrationOrder)
           /\ Current(h) = MigrationOrder[schema[h]]
           /\ Current(h) \in Range(MigrationOrder)
BY Order DEF Types, HostTypeOK, Current, InMigrationOrder

\* The host that loses the race for a schema ends, the other goes on.
LEMMA CreateSchemaInv == ASSUME IInv, NEW h \in Hosts, CreateSchema(h) PROVE IInv'
<1>0. Types /\ Progress /\ Loading /\ KeysRight
  BY DEF IInv
<1>1. /\ stage[h] = "schema" /\ stage[h] # "loading"
      /\ created' \subseteq Range(MigrationOrder)
      /\ UNCHANGED <<setting, file, made, raced, applied, seeded, stops, faults>>
      /\ stops' \in 0..MaxStops /\ faults' \in 0..MaxFaults
      /\ stage[h] \in During /\ "waiting" \in During /\ "waiting" \in Stages
      /\ stage \in [Hosts -> Stages]
  BY <1>0, CurrentIsSchema
     DEF CreateSchema, boundVars, Types, HostTypeOK, Stages, Before, During, Loaders, Up
<1>2. CASE Goto(h, "waiting") /\ UNCHANGED <<key, schema, lock, loading>>
  <2>1. lock' \in Hosts \cup {Nobody}
    BY <1>0, <1>2 DEF Types, HostTypeOK
  <2> QED BY <1>1, <1>2, <2>1, MoveInv
<1>3. ASSUME NEW g \in Hosts \ {h}, stage[g] = "schema",
             stage' = [stage EXCEPT ![h] = "waiting", ![g] = "down"],
             key' = [key EXCEPT ![g] = NoKey], schema' = [schema EXCEPT ![g] = 1],
             UNCHANGED <<lock, loading>>
      PROVE  IInv'
  <2>1. /\ stage' \in [Hosts -> Stages] /\ stage'[h] = "waiting" /\ stage'[g] = "down"
        /\ \A o \in Hosts \ {g, h} : stage'[o] = stage[o]
    <3>1. "down" \in Stages
      BY DEF Stages, Before
    <3> QED BY <1>1, <1>3, <3>1
  <2>2. /\ key' \in [Hosts -> AnyKey] /\ schema' \in [Hosts -> DOMAIN MigrationOrder]
        /\ schema'[g] = 1
        /\ \A o \in Hosts \ {g} : key'[o] = key[o] /\ schema'[o] = schema[o]
    <3>1. NoKey \in AnyKey /\ 1 \in DOMAIN MigrationOrder
      BY Order DEF AnyKey
    <3> QED BY <1>0, <1>3, <3>1 DEF Types, HostTypeOK
  <2>3. Types'
    BY <1>0, <1>1, <1>3, <2>1, <2>2
       DEF Types, HostTypeOK, AnyKey, Stages, Before, During, Loaders, Up
  <2>4. \A o \in Hosts : Fallen(o)
    BY <1>1, <1>3, <2>1, <2>2 DEF Fallen, Before
  <2>5. \A o \in Hosts : o \in loading' <=> o \in loading /\ stage'[o] = stage[o]
    BY <1>0, <1>1, <1>3, <2>1 DEF Loading
  <2>6. Progress' /\ Loading'
    BY <1>0, <1>1, <1>3, <2>4, <2>5, Undisturbed DEF Types, HostTypeOK
  <2>7. KeysRight'
    BY <1>0, <1>1, <1>3, <2>1, <2>2, KeysUndisturbed
  <2> QED BY <2>3, <2>6, <2>7 DEF IInv
<1> QED BY <1>2, <1>3 DEF CreateSchema

LEMMA LockInv == ASSUME IInv, NEW h \in Hosts, Lock(h) PROVE IInv'
<1>1. /\ stage[h] \in During /\ stage[h] # "loading" /\ Goto(h, "migrating")
      /\ "migrating" \in During /\ "migrating" \in Stages
      /\ UNCHANGED <<setting, key, file, made, raced, schema, created, applied, seeded,
                     loading, stops, faults>>
      /\ lock' \in Hosts \cup {Nobody}
  BY DEF Lock, keyVars, boundVars, During, Stages
<1>2. /\ created' \subseteq Range(MigrationOrder)
      /\ stops' \in 0..MaxStops /\ faults' \in 0..MaxFaults
  BY <1>1 DEF IInv, Types, HostTypeOK
<1> QED BY <1>1, <1>2, MoveInv

\* What is migrated stays so.
LEMMA MigratesOn ==
    ASSUME Types, NEW s \in Range(MigrationOrder), applied[s] < Versions[s],
           applied' = [applied EXCEPT ![s] = @ + 1], NEW n, n <= Len(MigrationOrder), n \in Int,
           Complete(n)
    PROVE  Complete(n)'
<1>1. ASSUME NEW i \in 1..n PROVE applied'[MigrationOrder[i]] = Versions[MigrationOrder[i]]
  <2>1. i \in 1..Len(MigrationOrder) /\ MigrationOrder[i] \in Range(MigrationOrder)
    BY Order
  <2>2. applied[MigrationOrder[i]] = Versions[MigrationOrder[i]]
    BY DEF Complete
  <2>3. Versions[MigrationOrder[i]] \in Nat
    BY <2>1, Order
  <2>4. MigrationOrder[i] # s
    BY <2>2, <2>3
  <2> QED BY <2>1, <2>2, <2>4 DEF Types, HostTypeOK
<1> QED BY <1>1 DEF Complete

LEMMA MigrateInv == ASSUME IInv, NEW h \in Hosts, Migrate(h) PROVE IInv'
<1>0. Types /\ Progress /\ Loading /\ KeysRight
  BY DEF IInv
<1>1. CASE Unreadable(h)
  <2>1. /\ End(h) /\ UNCHANGED <<setting, file, made, raced, created, applied, seeded>>
        /\ stops' \in 0..MaxStops /\ faults' \in 0..MaxFaults
    BY <1>0, <1>1 DEF Migrate, boundVars, Types, HostTypeOK
  <2> QED BY <2>1, EndInv
<1>2. CASE ~Unreadable(h)
  <2> DEFINE s == Current(h)
  <2>1. /\ s \in Range(MigrationOrder) /\ applied[s] < Versions[s]
        /\ applied' = [applied EXCEPT ![s] = @ + 1]
        /\ UNCHANGED <<stage, key, schema, lock, loading, file, made, raced, created, seeded,
                       setting, stops, faults>>
    BY <1>0, <1>2, CurrentIsSchema DEF Migrate, boundVars
  <2> HIDE DEF s
  <2>2. Types'
    <3>1. /\ applied \in [Range(MigrationOrder) -> Nat]
          /\ \A o \in Range(MigrationOrder) : applied[o] <= Versions[o] /\ Versions[o] \in Nat
      BY <1>0, Order DEF Types, HostTypeOK
    <3>2. /\ applied' \in [Range(MigrationOrder) -> Nat]
          /\ \A o \in Range(MigrationOrder) : applied'[o] <= Versions[o]
      BY <2>1, <3>1
    <3> QED BY <1>0, <2>1, <3>2 DEF Types, HostTypeOK, AnyKey
  <2>3. ASSUME NEW n \in Int, n <= Len(MigrationOrder), Complete(n) PROVE Complete(n)'
    BY <1>0, <2>1, <2>3, MigratesOn
  <2>4. AllComplete => AllComplete'
    BY <2>3, Order DEF AllComplete
  <2>5. ASSUME NEW g \in Hosts, Complete(schema[g] - 1) PROVE Complete(schema[g] - 1)'
    <3>1. schema[g] - 1 \in Int /\ schema[g] - 1 <= Len(MigrationOrder)
      BY <1>0, Order DEF Types, HostTypeOK
    <3>2. PICK n \in Int : n = schema[g] - 1
      BY <3>1
    <3>3. Complete(n)'
      BY <2>3, <2>5, <3>1, <3>2
    <3> QED BY <2>1, <3>2, <3>3 DEF Complete
  <2>6. Progress'
    BY <1>0, <2>1, <2>4, <2>5 DEF Progress, Migrates
  <2>7. Loading' /\ KeysRight'
    BY <1>0, <2>1 DEF Loading, KeysRight, Making, Keyed
  <2> QED BY <2>2, <2>6, <2>7 DEF IInv
<1> QED BY <1>1, <1>2

LEMMA MigratedInv == ASSUME IInv, NEW h \in Hosts, Migrated(h) PROVE IInv'
<1>0. Types /\ Progress /\ Loading /\ KeysRight
  BY DEF IInv
<1> DEFINE s == IF schema[h] < Len(MigrationOrder) THEN "schema" ELSE "seeding"
           n == IF schema[h] < Len(MigrationOrder) THEN schema[h] + 1 ELSE schema[h]
<1>1. /\ stage[h] = "migrating"
      /\ applied[MigrationOrder[schema[h]]] = Versions[MigrationOrder[schema[h]]]
      /\ schema[h] \in 1..Len(MigrationOrder)
      /\ lock' = Nobody
      /\ UNCHANGED <<setting, key, file, made, raced, created, applied, seeded, loading,
                     stops, faults>>
  BY <1>0, CurrentIsSchema DEF Migrated, keyVars, boundVars
<1>2. /\ stage \in [Hosts -> Stages] /\ schema \in [Hosts -> 1..Len(MigrationOrder)]
      /\ s \in Stages
  BY <1>0, Order DEF Types, HostTypeOK, Stages, Before, During, Loaders, Up
<1>3. stage' = [stage EXCEPT ![h] = s] /\ schema' = [schema EXCEPT ![h] = n]
  BY <1>2 DEF Migrated, Goto, InMigrationOrder
<1>4. n \in 1..Len(MigrationOrder)
  BY <1>1, Order
<1>5. Complete(schema[h])
  <2>1. Complete(schema[h] - 1)
    BY <1>0, <1>1 DEF Progress, During
  <2> QED BY <1>1, <2>1 DEF Complete
<1>6. \/ s = "schema" /\ Complete(n - 1)
      \/ s = "seeding" /\ AllComplete
  <2>1. CASE schema[h] < Len(MigrationOrder)
    <3>1. n - 1 = schema[h]
      BY <1>1, <2>1
    <3> QED BY <1>5, <2>1, <3>1
  <2>2. CASE ~(schema[h] < Len(MigrationOrder))
    <3>1. schema[h] = Len(MigrationOrder)
      BY <1>1, <2>2, Order
    <3> QED BY <1>5, <2>2, <3>1 DEF AllComplete
  <2> QED BY <2>1, <2>2
<1> HIDE DEF s, n
<1>7. /\ stage' \in [Hosts -> Stages] /\ stage'[h] = s
      /\ schema' \in [Hosts -> DOMAIN MigrationOrder] /\ schema'[h] = n
      /\ \A g \in Hosts \ {h} : stage'[g] = stage[g] /\ schema'[g] = schema[g]
  BY <1>2, <1>3, <1>4, Order
<1>8. Types'
  BY <1>0, <1>1, <1>7 DEF Types, HostTypeOK, AnyKey, Stages, Before, During, Loaders, Up
<1>9. Progress'
  <2>1. ASSUME NEW g \in Hosts
        PROVE  /\ stage'[g] \in Before => schema'[g] = 1
               /\ stage'[g] \in During => Complete(schema'[g] - 1)
               /\ stage'[g] \in Loaders => AllComplete
               /\ stage'[g] \in Up /\ Migrates(g) => AllComplete /\ seeded = 1
    <3>1. CASE g = h
      BY <1>6, <1>7, <3>1 DEF Before, During, Loaders, Up
    <3>2. CASE g # h
      BY <1>0, <1>7, <3>2 DEF Progress
    <3> QED BY <3>1, <3>2
  <2> QED BY <1>1, <2>1 DEF Progress, Complete, AllComplete, Migrates
<1>10. Loading'
  BY <1>0, <1>1, <1>6, <1>7 DEF Loading
<1>11. KeysRight'
  BY <1>0, <1>1, <1>6, <1>7, KeysUndisturbed
<1> QED BY <1>8, <1>9, <1>10, <1>11 DEF IInv

-----------------------------------------------------------------------------
(* The seed *)

\* A host of a migrated database goes on, with or without the seed.
LEMMA SeedStepInv ==
    ASSUME IInv, NEW h \in Hosts, NEW s \in Loaders \cup Up, Goto(h, s), stage[h] \in Loaders,
           UNCHANGED <<setting, key, file, made, raced, schema, created, applied, lock,
                       stops, faults>>,
           s \in Up => seeded' = 1,
           seeded = 1 => seeded' = 1,
           loading' \subseteq Hosts, Loading'
    PROVE  IInv'
<1>0. Types /\ Progress /\ KeysRight /\ seeded' \in Nat
  BY DEF IInv, Loading
<1>1. /\ stage' \in [Hosts -> Stages] /\ stage'[h] = s
      /\ \A g \in Hosts \ {h} : stage'[g] = stage[g]
  <2>1. s \in Stages
    BY DEF Stages
  <2> QED BY <2>1, Moved
<1>2. Types'
  BY <1>0, <1>1 DEF Types, HostTypeOK, AnyKey, Stages, Before, During, Loaders, Up
<1>3. AllComplete
  BY <1>0 DEF Progress
<1>4. ASSUME NEW g \in Hosts
      PROVE  /\ stage'[g] \in Before => schema'[g] = 1
             /\ stage'[g] \in During => Complete(schema'[g] - 1)
             /\ stage'[g] \in Loaders => AllComplete
             /\ stage'[g] \in Up /\ Migrates(g) => AllComplete /\ seeded' = 1
  <2>1. CASE g = h
    BY <1>1, <1>3, <2>1 DEF Before, During, Loaders, Up
  <2>2. CASE g # h
    BY <1>0, <1>1, <2>2 DEF Progress
  <2> QED BY <2>1, <2>2
<1>5. Progress'
  BY <1>4 DEF Progress, Complete, AllComplete, Migrates
<1>6. KeysRight'
  <2>1. /\ stage[h] \notin {"down", "key", "made", "truncated"}
        /\ s \notin {"down", "key", "made", "truncated"}
    BY DEF Loaders, Up
  <2> QED BY <1>0, <1>1, <2>1, KeysUndisturbed
<1> QED BY <1>2, <1>5, <1>6 DEF IInv

LEMMA SeedInv ==
    ASSUME IInv, NEW h \in Hosts, CheckSeeded(h) \/ BeginLoad(h) \/ CommitLoad(h)
    PROVE  IInv'
<1>0. Loading /\ loading \subseteq Hosts /\ stage \in [Hosts -> Stages]
  BY DEF IInv, Types, HostTypeOK, Stages, Before, During, Loaders, Up
<1>1. CASE CheckSeeded(h)
  <2> DEFINE s == IF seeded > 0 THEN "composed" ELSE "unseeded"
  <2>1. /\ s \in Loaders \cup Up /\ Goto(h, s) /\ stage[h] = "seeding" /\ stage[h] \in Loaders
        /\ UNCHANGED <<setting, key, file, made, raced, schema, created, applied, lock,
                       stops, faults, seeded, loading>>
    BY <1>1 DEF CheckSeeded, Loaders, Up, keyVars, databaseVars, boundVars
  <2>2. s \in Up => seeded = 1
    BY <1>0 DEF Loading, Up
  <2>3. s # "loading"
    OBVIOUS
  <2> HIDE DEF s
  <2>4. Loading'
    BY <1>0, <2>1, <2>3 DEF Loading, Goto
  <2> QED BY <1>0, <2>1, <2>2, <2>4, SeedStepInv
<1>2. CASE BeginLoad(h)
  <2>1. /\ "loading" \in Loaders \cup Up /\ Goto(h, "loading") /\ stage[h] \in Loaders
        /\ "loading" \notin Up
        /\ loading' = {h} /\ loading = {} /\ seeded = 0
        /\ UNCHANGED <<setting, key, file, made, raced, schema, created, applied, lock,
                       stops, faults, seeded>>
    BY <1>2 DEF BeginLoad, Loaders, Up, keyVars, boundVars
  <2>2. Loading'
    BY <1>0, <2>1 DEF Loading, Goto
  <2> QED BY <2>1, <2>2, SeedStepInv
<1>3. CASE CommitLoad(h)
  <2>1. /\ "composed" \in Loaders \cup Up /\ Goto(h, "composed")
        /\ stage[h] = "loading" /\ stage[h] \in Loaders
        /\ loading' = loading \ {h} /\ seeded' = seeded + 1
        /\ UNCHANGED <<setting, key, file, made, raced, schema, created, applied, lock,
                       stops, faults>>
    BY <1>3 DEF CommitLoad, Loaders, Up, keyVars, boundVars
  <2>2. loading = {h} /\ seeded = 0 /\ loading' = {} /\ seeded' = 1
    BY <1>0, <2>1 DEF Loading
  <2>3. Loading'
    BY <1>0, <2>1, <2>2 DEF Loading, Goto
  <2> QED BY <2>1, <2>2, <2>3, SeedStepInv
<1> QED BY <1>1, <1>2, <1>3

-----------------------------------------------------------------------------
(* Up and down *)

LEMMA UpInv ==
    ASSUME IInv, NEW h \in Hosts, StartServices(h) \/ Bind(h) \/ Drain(h)
    PROVE  IInv'
<1>0. Types
  BY DEF IInv
<1>1. CASE Bind(h) /\ PortTaken(h)
  <2>1. /\ End(h) /\ UNCHANGED <<setting, file, made, raced, created, applied, seeded>>
        /\ stops' \in 0..MaxStops /\ faults' \in 0..MaxFaults
    BY <1>0, <1>1 DEF Bind, boundVars, Types, HostTypeOK
  <2> QED BY <2>1, EndInv
<1>2. ASSUME NEW s \in Up, Goto(h, s), stage[h] \in Up, stops' \in 0..MaxStops,
             UNCHANGED <<setting, key, file, made, raced, schema, created, applied, seeded,
                         loading, lock, faults>>
      PROVE  IInv'
  <2>1. stage[h] # "loading" /\ s \in Stages
    BY <1>2 DEF Up, Stages
  <2>2. /\ created' \subseteq Range(MigrationOrder)
        /\ lock' \in Hosts \cup {Nobody} /\ faults' \in 0..MaxFaults
    BY <1>0, <1>2 DEF Types, HostTypeOK
  <2> QED BY <1>2, <2>1, <2>2, MoveInv
<1>3. CASE StartServices(h)
  <2>1. "started" \in Up /\ stage[h] \in Up /\ stops' \in 0..MaxStops
    BY <1>0, <1>3 DEF StartServices, Up, boundVars, Types, HostTypeOK
  <2> QED BY <1>2, <1>3, <2>1 DEF StartServices, keyVars, databaseVars, boundVars
<1>4. CASE Bind(h) /\ ~PortTaken(h)
  <2>1. "serving" \in Up /\ stage[h] \in Up /\ stops' \in 0..MaxStops
    BY <1>0, <1>4 DEF Bind, Up, boundVars, Types, HostTypeOK
  <2> QED BY <1>2, <1>4, <2>1 DEF Bind, boundVars
<1>5. CASE Drain(h)
  <2>1. "draining" \in Up /\ stage[h] \in Up
    BY <1>5 DEF Drain, Up
  <2>2. stops' \in 0..MaxStops
    BY <1>0, <1>5, OrderAssumption DEF Drain, Types, HostTypeOK
  <2> QED BY <1>2, <1>5, <2>1, <2>2 DEF Drain, keyVars, databaseVars
<1> QED BY <1>1, <1>3, <1>4, <1>5

LEMMA DownInv ==
    ASSUME IInv, NEW h \in Hosts, Duplicate(h) \/ StopServices(h) \/ Crash(h)
    PROVE  IInv'
<1>1. End(h) /\ UNCHANGED <<setting, file, made, raced, created, applied, seeded>>
  BY DEF Duplicate, StopServices, Crash, boundVars
<1>2. stops' \in 0..MaxStops /\ faults' \in 0..MaxFaults
  <2>1. /\ stops' = stops
        /\ \/ faults' = faults
           \/ faults < MaxFaults /\ faults' = faults + 1
    BY DEF Duplicate, StopServices, Crash, boundVars
  <2>2. stops \in 0..MaxStops /\ faults \in 0..MaxFaults
    BY DEF IInv, Types, HostTypeOK
  <2> QED BY <2>1, <2>2, OrderAssumption
<1> QED BY <1>1, <1>2, EndInv

-----------------------------------------------------------------------------
(* The theorems *)

LEMMA NextInv == ASSUME IInv, [HostNext]_hostVars PROVE IInv'
<1>1. ASSUME NEW h \in Hosts, HostStep(h) \/ Drain(h) \/ Crash(h) PROVE IInv'
  <2>1. CASE Start(h) \/ TryLoad(h) \/ Truncate(h) \/ Save(h)
    BY <2>1, StartInv, TryLoadInv, TruncateInv, SaveInv
  <2>2. CASE Registered(h) \/ CreateSchema(h) \/ Lock(h) \/ Migrate(h) \/ Migrated(h)
    BY <2>2, RegisteredInv, CreateSchemaInv, LockInv, MigrateInv, MigratedInv
  <2>3. CASE CheckSeeded(h) \/ BeginLoad(h) \/ CommitLoad(h)
    BY <2>3, SeedInv
  <2>4. CASE StartServices(h) \/ Bind(h) \/ Drain(h)
    BY <2>4, UpInv
  <2>5. CASE Duplicate(h) \/ StopServices(h) \/ Crash(h)
    BY <2>5, DownInv
  <2> QED BY <1>1, <2>1, <2>2, <2>3, <2>4, <2>5 DEF HostStep
<1>2. CASE UNCHANGED hostVars
  <2>1. UNCHANGED <<setting, stage, schema, key, file, lock, created, applied, seeded,
                    loading, made, raced, stops, faults>>
    BY <1>2 DEF hostVars
  <2>2. Types'
    BY <2>1 DEF IInv, Types, HostTypeOK, AnyKey
  <2>3. Progress'
    BY <2>1 DEF IInv, Progress, Complete, AllComplete, Migrates
  <2>4. Loading'
    BY <2>1 DEF IInv, Loading
  <2>5. KeysRight'
    BY <2>1 DEF IInv, KeysRight, Making, Keyed
  <2> QED BY <2>2, <2>3, <2>4, <2>5 DEF IInv
<1> QED BY <1>1, <1>2 DEF HostNext

LEMMA AlwaysIInv == HostSpec => []IInv
<1>1. HostInit => IInv
  BY InitInv
<1>2. IInv /\ [HostNext]_hostVars => IInv'
  BY NextInv
<1> QED BY <1>1, <1>2, PTL DEF HostSpec

\* A host is at a stage of its start, no schema has more migrations than there
\* are, and keys are the operator's or some host's.
THEOREM HostTypes == HostSpec => []HostTypeOK
<1>1. IInv => HostTypeOK
  BY DEF IInv, Types
<1> QED BY <1>1, AlwaysIInv, PTL

\* However many hosts start at once, of whatever modules, and wherever they
\* fail: the seed is loaded at most once, and a host that migrates is up only
\* on a migrated and seeded database.
THEOREM SeededAtMostOnce == HostSpec => []SeededOnce
<1>1. IInv => SeededOnce
  <2> SUFFICES ASSUME IInv PROVE SeededOnce
    OBVIOUS
  <2>1. seeded <= 1
    BY DEF IInv, Loading
  <2>2. ASSUME NEW h \in Hosts, Migrates(h),
               stage[h] \in {"composed", "started", "serving", "draining"}
        PROVE  seeded = 1 /\ \A s \in DOMAIN applied : applied[s] = Versions[s]
    <3>1. seeded = 1 /\ AllComplete
      BY <2>2 DEF IInv, Progress, Up
    <3>2. DOMAIN applied = Range(MigrationOrder)
      BY DEF IInv, Types, HostTypeOK
    <3> QED BY <3>1, <3>2, Order DEF AllComplete, Complete
  <2> QED BY <2>1, <2>2 DEF SeededOnce
<1> QED BY <1>1, AlwaysIInv, PTL

\* Hosts on the development provider sign with the file's key unless two found
\* no usable file at once, for any number of hosts and restarts.
THEOREM OneDevKeyUnlessRaced == HostSpec => []OneDevKey
<1>1. IInv => OneDevKey
  BY DEF IInv, KeysRight, Keyed, OneDevKey
<1> QED BY <1>1, AlwaysIInv, PTL

-----------------------------------------------------------------------------
(* The composition of a host: routing *)

IsPath(path) == path \in Seq(Range(path))

\* A path and its pattern are as long.
LEMMA PatternLength ==
    ASSUME NEW path, IsPath(path)
    PROVE  /\ DOMAIN path = 1..Len(path) /\ Len(path) \in Nat
           /\ DOMAIN Pattern(path) = 1..Len(path) /\ Len(Pattern(path)) = Len(path)
<1>1. DOMAIN path = 1..Len(path) /\ Len(path) \in Nat
  BY DEF IsPath
<1>2. DOMAIN Pattern(path) = DOMAIN path
  BY DEF Pattern
<1>3. Pattern(path) \in Seq(Range(Pattern(path)))
  BY <1>1, <1>2 DEF Range, Pattern
<1>4. QED
  BY <1>1, <1>2, <1>3

\* A request to an endpoint's own pattern is routed to that pattern: none that
\* fits is more static, and every other that fits is less so.
LEMMA OwnPattern ==
    ASSUME NEW endpoints, \A f \in endpoints : IsPath(f.path), NEW e \in endpoints
    PROVE  Matched(endpoints, Pattern(e.path)) = {Pattern(e.path)}
<1> DEFINE p == Pattern(e.path)
           patterns == {Pattern(f.path) : f \in endpoints}
           fitting == {q \in patterns : Fits(q, p)}
<1>1. DOMAIN p = 1..Len(p) /\ Len(p) \in Nat
  BY PatternLength
<1>2. p \in fitting
  BY DEF Fits
<1>3. ASSUME NEW q \in fitting
      PROVE  /\ DOMAIN q = 1..Len(p) /\ \A i \in 1..Len(p) : q[i] \in {Param, p[i]}
             /\ q = [i \in DOMAIN q |-> q[i]]
  <2>1. PICK f \in endpoints : q = Pattern(f.path)
    BY DEF fitting
  <2>2. DOMAIN q = 1..Len(q) /\ q = [i \in DOMAIN q |-> q[i]]
    BY <2>1, PatternLength DEF Pattern
  <2>3. Len(q) = Len(p) /\ \A i \in DOMAIN p : q[i] \in {Param, p[i]}
    BY DEF fitting, Fits
  <2>4. QED
    BY <1>1, <2>2, <2>3
<1>4. ASSUME NEW q \in fitting
      PROVE  ~MoreStatic(q, p)
  <2> SUFFICES ASSUME NEW i \in DOMAIN q, q[i] # Param, p[i] = Param
               PROVE  FALSE
    BY DEF MoreStatic
  <2>1. QED
    BY <1>3
<1>5. ASSUME NEW q \in fitting, q # p
      PROVE  MoreStatic(p, q)
  <2> DEFINE differ == {i \in 1..Len(p) : p[i] # q[i]}
  <2>1. differ # {}
    <3>1. p = [i \in DOMAIN p |-> p[i]]
      BY DEF Pattern
    <3>2. QED
      BY <1>1, <1>3, <1>5, <3>1
  <2>2. PICK i \in differ : \A j \in differ : i <= j
    <3>1. differ \subseteq Nat
      BY <1>1
    <3>2. QED
      BY <2>1, <3>1, LeastNatural
  <2>3. p[i] # Param /\ q[i] = Param
    BY <1>3, <2>2
  <2>4. \A j \in 1..(i - 1) : p[j] = q[j]
    BY <1>1, <2>2
  <2>5. QED
    BY <1>1, <2>2, <2>3, <2>4 DEF MoreStatic
<1>6. QED
  <2>1. Matched(endpoints, p) = {q \in fitting : \A r \in fitting : ~MoreStatic(r, q)}
    BY DEF Matched
  <2> HIDE DEF fitting, p
  <2>2. QED
    BY <1>2, <1>4, <1>5, <2>1 DEF p

\* Where no two handlers have one method of one pattern, the own path of an
\* endpoint reaches it and no other.
LEMMA OwnPath ==
    ASSUME NEW endpoints, \A f \in endpoints : IsPath(f.path), ~Overlap(endpoints),
           NEW e \in endpoints
    PROVE  {f \in Routed(endpoints, Pattern(e.path)) : f.method = e.method} = {e}
<1>1. Matched(endpoints, Pattern(e.path)) = {Pattern(e.path)}
  BY OwnPattern
<1>2. Routed(endpoints, Pattern(e.path)) = {f \in endpoints : Pattern(f.path) = Pattern(e.path)}
  BY <1>1 DEF Routed
<1>3. ASSUME NEW f \in endpoints, Pattern(f.path) = Pattern(e.path), f.method = e.method
      PROVE  f = e
  BY <1>3 DEF Overlap
<1>4. QED
  BY <1>2, <1>3

-----------------------------------------------------------------------------
(* What the modules map *)

LEMMA Tuples ==
    /\ IsPath(<<>>)
    /\ \A a : IsPath(<<a>>)
    /\ \A a, b : IsPath(<<a, b>>)
    /\ \A a, b, c : IsPath(<<a, b, c>>)
    /\ \A a, b, c, d : IsPath(<<a, b, c, d>>)
<1>1. IsPath(<<>>)
  BY DEF IsPath, Range
<1>2. \A a : IsPath(<<a>>)
  BY DEF IsPath, Range
<1>3. \A a, b : IsPath(<<a, b>>)
  BY DEF IsPath, Range
<1>4. \A a, b, c : IsPath(<<a, b, c>>)
  BY DEF IsPath, Range
<1>5. \A a, b, c, d : IsPath(<<a, b, c, d>>)
  BY DEF IsPath, Range
<1>6. QED
  BY <1>1, <1>2, <1>3, <1>4, <1>5

LEMMA Joined ==
    ASSUME NEW s, NEW t, IsPath(s), IsPath(t)
    PROVE  IsPath(s \o t)
<1> DEFINE S == Range(s) \cup Range(t)
<1>1. s \in Seq(S) /\ t \in Seq(S)
  BY DEF IsPath
<1>2. s \o t \in Seq(S)
  BY <1>1
<1> DEFINE u == s \o t
<1> HIDE DEF u
<1>3. u \in Seq(S) => u \in Seq(Range(u))
  <2> SUFFICES ASSUME u \in Seq(S) PROVE u \in Seq(Range(u))
    OBVIOUS
  <2>1. Len(u) \in Nat /\ DOMAIN u = 1..Len(u) /\ u = [i \in DOMAIN u |-> u[i]]
    OBVIOUS
  <2>2. u \in [1..Len(u) -> Range(u)]
    BY <2>1 DEF Range
  <2>3. QED
    BY <2>1, <2>2
<1>4. QED
  BY <1>2, <1>3 DEF IsPath, u

\* An endpoint of tag, which has a path.
IsEndpoint(e, tag) == /\ e.tag = tag /\ IsPath(e.path)
                      /\ {"tag", "path", "policies", "responses", "authorized"} \subseteq DOMAIN e

LEMMA Conventions ==
    /\ \A tag, method, path, name :
          IsPath(path) => IsEndpoint(Mapped(tag, method, path, name), tag)
    /\ \A policies, e, tag : IsEndpoint(e, tag) => IsEndpoint(RequireAuthorization(policies, e), tag)
    /\ \A statuses, e, tag : IsEndpoint(e, tag) => IsEndpoint(Produces(statuses, e), tag)
    /\ \A e, tag : IsEndpoint(e, tag) => IsEndpoint(WithValidation(e), tag)
<1>1. ASSUME NEW tag, NEW method, NEW path, NEW name, IsPath(path)
      PROVE  IsEndpoint(Mapped(tag, method, path, name), tag)
  BY <1>1 DEF IsEndpoint, Mapped
<1>2. ASSUME NEW policies, NEW e, NEW tag, IsEndpoint(e, tag)
      PROVE  IsEndpoint(RequireAuthorization(policies, e), tag)
  BY <1>2 DEF IsEndpoint, RequireAuthorization
<1>3. ASSUME NEW statuses, NEW e, NEW tag, IsEndpoint(e, tag)
      PROVE  IsEndpoint(Produces(statuses, e), tag)
  BY <1>3 DEF IsEndpoint, Produces
<1>4. ASSUME NEW e, NEW tag, IsEndpoint(e, tag)
      PROVE  IsEndpoint(WithValidation(e), tag)
  BY <1>4 DEF IsEndpoint, WithValidation
<1>5. QED
  BY <1>1, <1>2, <1>3, <1>4

LEMMA HealthPaths ==
    ASSUME NEW tag, NEW prefix, IsPath(prefix)
    PROVE  \A e \in HealthEndpoints(tag, prefix) : IsEndpoint(e, tag)
<1> SUFFICES ASSUME NEW path PROVE IsEndpoint(Produces({200}, Mapped(tag, "GET", prefix \o <<path>>, path)), tag)
  BY DEF HealthEndpoints
<1>1. IsPath(prefix \o <<path>>)
  BY Tuples, Joined
<1>2. QED
  BY <1>1, Conventions

LEMMA CatalogPaths == \A e \in CatalogEndpoints : IsEndpoint(e, "Catalog")
<1> DEFINE Get(path, name, statuses) ==
               Produces(statuses, RequireAuthorization(<<"catalog.read", TENANT_SCOPED>>,
                   Mapped("Catalog", "GET", <<"api", "catalog">> \o path, name)))
<1>1. ASSUME NEW path, NEW name, NEW statuses, IsPath(path)
      PROVE  IsEndpoint(Get(path, name, statuses), "Catalog")
  <2>1. IsPath(<<"api", "catalog">> \o path)
    BY <1>1, Tuples, Joined
  <2>2. QED
    BY <2>1, Conventions
<1>2. \A e \in HealthEndpoints("Catalog", <<"api", "catalog">>) : IsEndpoint(e, "Catalog")
  BY HealthPaths, Tuples
<1> HIDE DEF Get
<1>3. QED
  BY <1>1, <1>2, Tuples DEF CatalogEndpoints, Get

LEMMA AdministrationPaths ==
    \A e \in AdministrationEndpoints : IsEndpoint(e, "Administration")
<1> DEFINE At(method, path, name) ==
               Mapped("Administration", method, <<"api", "admin">> \o path, name)
           Get(path, name, statuses) ==
               Produces(statuses, RequireAuthorization(<<ADMIN, "administration.read", TENANT_SCOPED>>,
                   At("GET", path, name)))
           Write(method, path, name, statuses) ==
               Produces(statuses, RequireAuthorization(<<ADMIN, "administration.write", TENANT_SCOPED>>,
                   At(method, path, name)))
<1>1. ASSUME NEW path, NEW name, NEW statuses, NEW method, IsPath(path)
      PROVE  /\ IsEndpoint(Get(path, name, statuses), "Administration")
             /\ IsEndpoint(Write(method, path, name, statuses), "Administration")
  <2>1. IsPath(<<"api", "admin">> \o path)
    BY <1>1, Tuples, Joined
  <2>2. QED
    BY <2>1, Conventions
<1>2. \A e \in HealthEndpoints("Administration", <<"api", "admin">>) : IsEndpoint(e, "Administration")
  BY HealthPaths, Tuples
<1> HIDE DEF At, Get, Write
<1>3. /\ \A a, name, statuses : IsEndpoint(Get(<<a>>, name, statuses), "Administration")
      /\ \A a, b, name, statuses : IsEndpoint(Get(<<a, b>>, name, statuses), "Administration")
      /\ \A a, b, c, name, statuses : IsEndpoint(Get(<<a, b, c>>, name, statuses), "Administration")
  BY <1>1, Tuples
<1>4. \A a, b, method, name, statuses :
         IsEndpoint(Write(method, <<a, b>>, name, statuses), "Administration")
  BY <1>1, Tuples
<1>5. \A a, method, name, statuses :
         IsEndpoint(WithValidation(Write(method, <<a>>, name, statuses)), "Administration")
  BY <1>1, Tuples, Conventions
<1>6. \A a, b, method, name, statuses :
         IsEndpoint(WithValidation(Write(method, <<a, b>>, name, statuses)), "Administration")
  BY <1>4, Conventions
<1>7. QED
  BY <1>2, <1>3, <1>4, <1>5, <1>6 DEF AdministrationEndpoints, At, Get, Write

LEMMA OrdersPaths == \A e \in OrdersEndpoints : IsEndpoint(e, "Orders")
<1> DEFINE At(method, path, name, policies, statuses) ==
               Produces(statuses, RequireAuthorization(policies,
                   Mapped("Orders", method, <<"api", "orders">> \o path, name)))
<1>1. ASSUME NEW method, NEW path, NEW name, NEW policies, NEW statuses, IsPath(path)
      PROVE  IsEndpoint(At(method, path, name, policies, statuses), "Orders")
  <2>1. IsPath(<<"api", "orders">> \o path)
    BY <1>1, Tuples, Joined
  <2>2. QED
    BY <2>1, Conventions
<1>2. \A e \in HealthEndpoints("Orders", <<"api", "orders">>) : IsEndpoint(e, "Orders")
  BY HealthPaths, Tuples
<1> HIDE DEF At
<1>3. QED
  BY <1>1, <1>2, Tuples DEF OrdersEndpoints, At

LEMMA ReportingPaths == \A e \in ReportingEndpoints : IsEndpoint(e, "Reporting")
<1> DEFINE At(method, path, name, policies, statuses) ==
               Produces(statuses, RequireAuthorization(policies,
                   Mapped("Reporting", method, <<"api", "reporting">> \o path, name)))
<1>1. ASSUME NEW method, NEW path, NEW name, NEW policies, NEW statuses, IsPath(path)
      PROVE  IsEndpoint(At(method, path, name, policies, statuses), "Reporting")
  <2>1. IsPath(<<"api", "reporting">> \o path)
    BY <1>1, Tuples, Joined
  <2>2. QED
    BY <2>1, Conventions
<1>2. \A e \in HealthEndpoints("Reporting", <<"api", "reporting">>) : IsEndpoint(e, "Reporting")
  BY HealthPaths, Tuples
<1> HIDE DEF At
<1>3. QED
  BY <1>1, <1>2, Tuples DEF ReportingEndpoints, At

LEMMA IdentityPaths == \A e \in IdentityEndpoints : IsEndpoint(e, "Identity")
<1> DEFINE At(method, path, name, statuses) ==
               Produces(statuses, Mapped("Identity", method, <<"api", "identity">> \o path, name))
<1>1. ASSUME NEW method, NEW path, NEW name, NEW statuses, IsPath(path)
      PROVE  IsEndpoint(At(method, path, name, statuses), "Identity")
  <2>1. IsPath(<<"api", "identity">> \o path)
    BY <1>1, Tuples, Joined
  <2>2. QED
    BY <2>1, Conventions
<1>2. \A e \in HealthEndpoints("Identity", <<"api", "identity">>) : IsEndpoint(e, "Identity")
  BY HealthPaths, Tuples
<1> HIDE DEF At
<1>3. QED
  BY <1>1, <1>2, Tuples, Conventions DEF IdentityEndpoints, At

LEMMA RootPaths == \A e \in RootEndpoints : IsEndpoint(e, "Root")
BY Tuples, Conventions DEF RootEndpoints

\* Every module maps endpoints of its own tag.
LEMMA ModulePaths ==
    ASSUME NEW m \in Modules
    PROVE  \A e \in MapEndpoints(m) : IsEndpoint(e, m)
BY AdministrationPaths, IdentityPaths, CatalogPaths, OrdersPaths, ReportingPaths
   DEF MapEndpoints, Modules

-----------------------------------------------------------------------------
(* What the modules register *)

Fields == {"hosted", "subscriptions", "databases", "checks", "meters", "caches", "queues",
           "gates", "limiters", "identity", "dispatchers"}

Queue(m) == [kind |-> "queue", module |-> m]

\* A sequence of rows, and the rows numbered.
IsList(s) == s \in Seq(Range(s))

\* What has been registered after the modules in R, with a queue or without.
Wired(s, R) ==
    /\ DOMAIN s = Fields
    /\ IsList(s.hosted) /\ IsList(s.subscriptions) /\ IsList(s.checks) /\ IsList(s.dispatchers)
    /\ s.databases = R \ {"Identity"}
    /\ s.limiters = R \cup {"Root"}
    /\ "Identity" \in R => s.identity
    /\ s.queues \subseteq R

\* A subscription for each module that takes the event, and a dispatcher for it.
Subscribed(s, R) ==
    /\ \A i \in DOMAIN s.subscriptions : s.subscriptions[i].event = INVOICE_FINALIZED
    /\ {s.subscriptions[i].module : i \in DOMAIN s.subscriptions} = R \cap {"Administration", "Catalog"}
    /\ \A i \in DOMAIN s.dispatchers : s.dispatchers[i].publishes = {INVOICE_FINALIZED}

\* One check for each database.
CheckedOnce(s) ==
    /\ \A i \in DOMAIN s.checks : s.checks[i] \in s.databases
    /\ \A m \in s.databases : \E i \in DOMAIN s.checks :
          s.checks[i] = m /\ \A j \in DOMAIN s.checks : s.checks[j] = m => i = j

\* The module of what is hosted has registered; its queue is hosted once,
\* before the rest.
QueueFirst(s, R) ==
    /\ \A i \in DOMAIN s.hosted : s.hosted[i].module \in R
    /\ \A m \in s.queues : \E q \in DOMAIN s.hosted :
          /\ s.hosted[q] = Queue(m)
          /\ \A i \in DOMAIN s.hosted : i # q /\ s.hosted[i].module = m =>
                s.hosted[i].kind # "queue" /\ q < i

Services(s, R) == Wired(s, R) /\ Subscribed(s, R) /\ CheckedOnce(s) /\ QueueFirst(s, R)

LEMMA Appended ==
    ASSUME NEW s, IsList(s), NEW x
    PROVE  /\ IsList(Append(s, x)) /\ Len(s) \in Nat
           /\ DOMAIN s = 1..Len(s) /\ DOMAIN Append(s, x) = 1..(Len(s) + 1)
           /\ Append(s, x)[Len(s) + 1] = x /\ \A i \in 1..Len(s) : Append(s, x)[i] = s[i]
<1>1. s \in Seq(Range(s) \cup {x}) /\ Len(s) \in Nat /\ DOMAIN s = 1..Len(s)
  BY DEF IsList
<1>2. /\ Append(s, x) \in Seq(Range(s) \cup {x}) /\ Len(Append(s, x)) = Len(s) + 1
      /\ Append(s, x)[Len(s) + 1] = x /\ \A i \in 1..Len(s) : Append(s, x)[i] = s[i]
  BY <1>1
<1>3. Range(Append(s, x)) = Range(s) \cup {x}
  BY <1>1, <1>2 DEF Range
<1>4. QED
  BY <1>1, <1>2, <1>3 DEF IsList

LEMMA Nothing == Services(AddRateLimitPolicy("Root", NoServices), {})
BY DEF Services, Wired, Subscribed, CheckedOnce, QueueFirst, AddRateLimitPolicy, NoServices,
       Fields, IsList, Range

\* What a module with a database and a handler for the event registers.
LEMMA AdministrationServices ==
    ASSUME NEW s, DOMAIN s = Fields
    PROVE  LET t == RegisterAdministration(s)
           IN  /\ DOMAIN t = Fields
               /\ t.databases = s.databases \cup {"Administration"}
               /\ t.checks = Append(s.checks, "Administration")
               /\ t.limiters = s.limiters \cup {"Administration"}
               /\ t.subscriptions = Append(s.subscriptions,
                     [event |-> INVOICE_FINALIZED, module |-> "Administration"])
               /\ t.hosted = s.hosted /\ t.queues = s.queues /\ t.identity = s.identity
               /\ t.dispatchers = s.dispatchers
BY DEF RegisterAdministration, AddIntegrationEventHandler, AddModuleMeter, AddRateLimitPolicy,
       AddModuleCache, AddModuleDatabase, Fields

LEMMA CatalogServices ==
    ASSUME NEW s, DOMAIN s = Fields
    PROVE  LET t == RegisterCatalog(s)
           IN  /\ DOMAIN t = Fields
               /\ t.databases = s.databases \cup {"Catalog"}
               /\ t.checks = Append(s.checks, "Catalog")
               /\ t.limiters = s.limiters \cup {"Catalog"}
               /\ t.subscriptions = Append(s.subscriptions,
                     [event |-> INVOICE_FINALIZED, module |-> "Catalog"])
               /\ t.hosted = s.hosted /\ t.queues = s.queues /\ t.identity = s.identity
               /\ t.dispatchers = s.dispatchers
BY DEF RegisterCatalog, AddIntegrationEventHandler, AddModuleMeter, AddRateLimitPolicy,
       AddModuleCache, AddModuleDatabase, Fields

LEMMA IdentityServices ==
    ASSUME NEW s, DOMAIN s = Fields
    PROVE  LET t == RegisterIdentity(s)
           IN  /\ DOMAIN t = Fields
               /\ t.databases = s.databases /\ t.checks = s.checks
               /\ t.limiters = s.limiters \cup {"Identity"}
               /\ t.subscriptions = s.subscriptions
               /\ t.hosted = s.hosted /\ t.queues = s.queues /\ t.identity
               /\ t.dispatchers = s.dispatchers
BY DEF RegisterIdentity, AddModuleMeter, AddRateLimitPolicy, AddIdentity, Fields

LEMMA OrdersServices ==
    ASSUME NEW s, DOMAIN s = Fields, "Orders" \notin s.queues
    PROVE  LET t == RegisterOrders(s)
           IN  /\ DOMAIN t = Fields
               /\ t.databases = s.databases \cup {"Orders"}
               /\ t.checks = Append(s.checks, "Orders")
               /\ t.limiters = s.limiters \cup {"Orders"}
               /\ t.subscriptions = s.subscriptions /\ t.identity = s.identity
               /\ t.hosted = Append(Append(s.hosted, Queue("Orders")),
                                    [kind |-> "dispatcher", module |-> "Orders"])
               /\ t.queues = s.queues \cup {"Orders"}
               /\ \E d : t.dispatchers = Append(s.dispatchers, d)
                         /\ d.publishes = {INVOICE_FINALIZED}
<1> DEFINE base == AddEventPublisher("Orders", AddModuleMeter("Orders",
                       AddRateLimitPolicy("Orders",
                           AddModuleCache("Orders", AddModuleDatabase("Orders", s)))))
           queued == AddModuleMeter("Orders", AddModuleWorkQueue("Orders", base))
           dispatcher == [kind |-> "dispatcher", module |-> "Orders",
                          publishes |-> {INVOICE_FINALIZED}, seen |-> Len(queued.subscriptions)]
           t == RegisterOrders(s)
<1>1. /\ DOMAIN base = Fields
      /\ base.databases = s.databases \cup {"Orders"}
      /\ base.checks = Append(s.checks, "Orders")
      /\ base.limiters = s.limiters \cup {"Orders"}
      /\ base.subscriptions = s.subscriptions /\ base.identity = s.identity
      /\ base.hosted = s.hosted /\ base.queues = s.queues /\ base.dispatchers = s.dispatchers
  BY DEF AddEventPublisher, AddModuleMeter, AddRateLimitPolicy, AddModuleCache,
         AddModuleDatabase, Fields
<1> HIDE DEF base
<1>2. /\ DOMAIN queued = Fields
      /\ queued.databases = base.databases /\ queued.checks = base.checks
      /\ queued.limiters = base.limiters /\ queued.identity = base.identity
      /\ queued.subscriptions = base.subscriptions /\ queued.dispatchers = base.dispatchers
      /\ queued.hosted = Append(base.hosted, Queue("Orders"))
      /\ queued.queues = base.queues \cup {"Orders"}
  BY <1>1 DEF AddModuleMeter, AddModuleWorkQueue, AddHostedService, Fields, Queue
<1>3. t = AddHostedService([kind |-> "dispatcher", module |-> "Orders"],
              [queued EXCEPT !.dispatchers = Append(@, dispatcher)])
  BY DEF RegisterOrders, AddOutboxDispatcher, base
<1>4. dispatcher.publishes = {INVOICE_FINALIZED}
  OBVIOUS
<1> HIDE DEF queued, dispatcher, t
<1>5. /\ DOMAIN t = Fields
      /\ t.databases = queued.databases /\ t.checks = queued.checks
      /\ t.limiters = queued.limiters /\ t.identity = queued.identity
      /\ t.subscriptions = queued.subscriptions /\ t.queues = queued.queues
      /\ t.hosted = Append(queued.hosted, [kind |-> "dispatcher", module |-> "Orders"])
      /\ t.dispatchers = Append(queued.dispatchers, dispatcher)
  BY <1>2, <1>3 DEF AddHostedService, Fields
<1>6. QED
  BY <1>1, <1>2, <1>4, <1>5 DEF t

LEMMA ReportingServices ==
    ASSUME NEW s, DOMAIN s = Fields, "Reporting" \notin s.queues
    PROVE  LET t == RegisterReporting(s)
           IN  /\ DOMAIN t = Fields
               /\ t.databases = s.databases \cup {"Reporting"}
               /\ t.checks = Append(s.checks, "Reporting")
               /\ t.limiters = s.limiters \cup {"Reporting"}
               /\ t.subscriptions = s.subscriptions /\ t.identity = s.identity
               /\ t.hosted = Append(Append(s.hosted, Queue("Reporting")),
                                    [kind |-> "job", module |-> "Reporting"])
               /\ t.queues = s.queues \cup {"Reporting"}
               /\ t.dispatchers = s.dispatchers
BY DEF RegisterReporting, AddModuleGate, AddModuleMeter, AddRateLimitPolicy, AddModuleDatabase,
       AddModuleWorkQueue, AddHostedService, Fields, Queue

\* A database with its check ...
LEMMA CheckAdded ==
    ASSUME NEW s, NEW t, NEW m, CheckedOnce(s), IsList(s.checks), m \notin s.databases,
           t.databases = s.databases \cup {m}, t.checks = Append(s.checks, m)
    PROVE  CheckedOnce(t) /\ IsList(t.checks)
<1>1. /\ IsList(t.checks) /\ DOMAIN s.checks = 1..Len(s.checks) /\ Len(s.checks) \in Nat
      /\ DOMAIN t.checks = 1..(Len(s.checks) + 1) /\ t.checks[Len(s.checks) + 1] = m
      /\ \A i \in 1..Len(s.checks) : t.checks[i] = s.checks[i]
  BY Appended
<1>2. \A i \in DOMAIN t.checks : t.checks[i] \in t.databases
  BY <1>1 DEF CheckedOnce
<1>3. ASSUME NEW n \in t.databases
      PROVE  \E i \in DOMAIN t.checks :
                t.checks[i] = n /\ \A j \in DOMAIN t.checks : t.checks[j] = n => i = j
  <2>1. CASE n = m
    BY <1>1, <2>1 DEF CheckedOnce
  <2>2. CASE n # m
    <3>1. PICK i \in DOMAIN s.checks :
             s.checks[i] = n /\ \A j \in DOMAIN s.checks : s.checks[j] = n => i = j
      BY <2>2 DEF CheckedOnce
    <3>2. QED
      BY <1>1, <2>2, <3>1
  <2>3. QED
    BY <2>1, <2>2
<1>4. QED
  BY <1>1, <1>2, <1>3 DEF CheckedOnce

\* ... a handler of the event ...
LEMMA HandlerAdded ==
    ASSUME NEW s, NEW t, NEW R, NEW m \in {"Administration", "Catalog"},
           Subscribed(s, R), IsList(s.subscriptions), t.dispatchers = s.dispatchers,
           t.subscriptions = Append(s.subscriptions, [event |-> INVOICE_FINALIZED, module |-> m])
    PROVE  Subscribed(t, R \cup {m}) /\ IsList(t.subscriptions)
<1> DEFINE n == Len(s.subscriptions)
           subscription == [event |-> INVOICE_FINALIZED, module |-> m]
<1>1. /\ IsList(t.subscriptions) /\ DOMAIN s.subscriptions = 1..n /\ n \in Nat
      /\ DOMAIN t.subscriptions = 1..(n + 1) /\ t.subscriptions[n + 1] = subscription
      /\ \A i \in 1..n : t.subscriptions[i] = s.subscriptions[i]
  BY Appended
<1>2. \A i \in 1..(n + 1) : i \in 1..n \/ i = n + 1
  BY <1>1
<1>3. \A i \in DOMAIN t.subscriptions : t.subscriptions[i].event = INVOICE_FINALIZED
  BY <1>1, <1>2 DEF Subscribed
<1>4. {t.subscriptions[i].module : i \in DOMAIN t.subscriptions}
          = {s.subscriptions[i].module : i \in DOMAIN s.subscriptions} \cup {m}
  BY <1>1, <1>2
<1>5. QED
  BY <1>1, <1>3, <1>4 DEF Subscribed

\* ... and a queue with what submits to it.
LEMMA QueueAdded ==
    ASSUME NEW s, NEW t, NEW R, NEW m, m \notin R, QueueFirst(s, R), IsList(s.hosted),
           NEW x, x.module = m, x.kind # "queue", s.queues \subseteq R,
           t.hosted = Append(Append(s.hosted, Queue(m)), x), t.queues = s.queues \cup {m}
    PROVE  QueueFirst(t, R \cup {m}) /\ IsList(t.hosted)
<1> DEFINE n == Len(s.hosted)
           started == Append(s.hosted, Queue(m))
<1>1. /\ IsList(started) /\ DOMAIN s.hosted = 1..n /\ n \in Nat
      /\ DOMAIN started = 1..(n + 1) /\ started[n + 1] = Queue(m)
      /\ \A i \in 1..n : started[i] = s.hosted[i]
  BY Appended
<1>2. Len(started) = n + 1
  BY <1>1, Appended
<1>3. /\ IsList(t.hosted) /\ DOMAIN t.hosted = 1..(n + 2) /\ t.hosted[n + 2] = x
      /\ \A i \in 1..(n + 1) : t.hosted[i] = started[i]
  <2> HIDE DEF started
  <2>1. /\ IsList(t.hosted) /\ DOMAIN t.hosted = 1..(Len(started) + 1)
        /\ t.hosted[Len(started) + 1] = x
        /\ \A i \in 1..Len(started) : t.hosted[i] = started[i]
    BY <1>1, Appended DEF started
  <2>2. Len(started) + 1 = n + 2
    BY <1>1, <1>2
  <2>3. QED
    BY <1>2, <2>1, <2>2
<1>4. /\ DOMAIN t.hosted = 1..(n + 2) /\ t.hosted[n + 1] = Queue(m) /\ t.hosted[n + 2] = x
      /\ \A i \in 1..n : t.hosted[i] = s.hosted[i]
  BY <1>1, <1>3
<1>5. \A i \in 1..(n + 2) : i \in 1..n \/ i = n + 1 \/ i = n + 2
  BY <1>1
<1> HIDE DEF n, started
<1>6. \A i \in DOMAIN t.hosted : t.hosted[i].module \in R \cup {m}
  BY <1>1, <1>4, <1>5 DEF QueueFirst, Queue
<1>7. ASSUME NEW k \in t.queues
      PROVE  \E q \in DOMAIN t.hosted :
                /\ t.hosted[q] = Queue(k)
                /\ \A i \in DOMAIN t.hosted : i # q /\ t.hosted[i].module = k =>
                      t.hosted[i].kind # "queue" /\ q < i
  <2>1. CASE k = m
    <3>1. \A i \in 1..n : t.hosted[i].module # m
      BY <1>1, <1>4 DEF QueueFirst
    <3>2. n + 1 \in DOMAIN t.hosted /\ n + 1 < n + 2
      BY <1>1, <1>4
    <3>3. QED
      BY <1>4, <1>5, <2>1, <3>1, <3>2
  <2>2. CASE k # m
    <3>1. k \in s.queues
      BY <2>2
    <3>2. PICK q \in DOMAIN s.hosted :
             /\ s.hosted[q] = Queue(k)
             /\ \A i \in DOMAIN s.hosted : i # q /\ s.hosted[i].module = k =>
                   s.hosted[i].kind # "queue" /\ q < i
      BY <3>1 DEF QueueFirst
    <3>3. q \in DOMAIN t.hosted /\ t.hosted[q] = Queue(k)
      BY <1>1, <1>4, <3>2
    <3>4. t.hosted[n + 1].module # k /\ t.hosted[n + 2].module # k
      <4>1. Queue(m).module = m
        BY DEF Queue
      <4>2. QED
        BY <1>4, <2>2, <4>1
    <3>5. QED
      BY <1>1, <1>4, <1>5, <3>2, <3>3, <3>4
  <2>3. QED
    BY <2>1, <2>2
<1>8. QED
  BY <1>3, <1>6, <1>7 DEF QueueFirst

\* Whatever has registered before it, a module's own registers what is its own.
LEMMA Registers ==
    ASSUME NEW s, NEW R, R \subseteq Modules, Services(s, R), NEW m \in Modules \ R
    PROVE  Services(RegisterServices(m, s), R \cup {m})
<1> DEFINE t == RegisterServices(m, s)
<1>1. /\ DOMAIN s = Fields /\ IsList(s.hosted) /\ IsList(s.subscriptions) /\ IsList(s.checks)
      /\ IsList(s.dispatchers) /\ s.databases = R \ {"Identity"} /\ s.limiters = R \cup {"Root"}
      /\ "Identity" \in R => s.identity
      /\ s.queues \subseteq R
  BY DEF Services, Wired
<1>2. Subscribed(s, R) /\ CheckedOnce(s) /\ QueueFirst(s, R)
  BY DEF Services
<1>3. m \notin s.databases /\ m \notin s.queues
  BY <1>1
<1>4. CASE m \in {"Administration", "Catalog"}
  <2>1. /\ DOMAIN t = Fields
        /\ t.databases = s.databases \cup {m} /\ t.checks = Append(s.checks, m)
        /\ t.limiters = s.limiters \cup {m}
        /\ t.subscriptions = Append(s.subscriptions, [event |-> INVOICE_FINALIZED, module |-> m])
        /\ t.hosted = s.hosted /\ t.queues = s.queues /\ t.identity = s.identity
        /\ t.dispatchers = s.dispatchers
    BY <1>1, <1>4, AdministrationServices, CatalogServices DEF RegisterServices
  <2> HIDE DEF t
  <2>2. CheckedOnce(t) /\ IsList(t.checks)
    BY <1>1, <1>2, <1>3, <2>1, CheckAdded
  <2>3. Subscribed(t, R \cup {m}) /\ IsList(t.subscriptions)
    BY <1>1, <1>2, <1>4, <2>1, HandlerAdded
  <2>4. QueueFirst(t, R \cup {m})
    BY <1>2, <2>1 DEF QueueFirst
  <2>5. Wired(t, R \cup {m})
    BY <1>1, <1>4, <2>1, <2>2, <2>3 DEF Wired
  <2>6. QED
    BY <2>2, <2>3, <2>4, <2>5 DEF Services, t
<1>5. CASE m = "Identity"
  <2>1. /\ DOMAIN t = Fields
        /\ t.databases = s.databases /\ t.checks = s.checks
        /\ t.limiters = s.limiters \cup {m}
        /\ t.subscriptions = s.subscriptions
        /\ t.hosted = s.hosted /\ t.queues = s.queues /\ t.identity
        /\ t.dispatchers = s.dispatchers
    BY <1>1, <1>5, IdentityServices DEF RegisterServices
  <2> HIDE DEF t
  <2>2. CheckedOnce(t)
    BY <1>2, <2>1 DEF CheckedOnce
  <2>3. Subscribed(t, R \cup {m})
    BY <1>2, <1>5, <2>1 DEF Subscribed
  <2>4. QueueFirst(t, R \cup {m})
    BY <1>2, <2>1 DEF QueueFirst
  <2>5. Wired(t, R \cup {m})
    BY <1>1, <1>5, <2>1 DEF Wired
  <2>6. QED
    BY <2>2, <2>3, <2>4, <2>5 DEF Services, t
<1>6. CASE m \in {"Orders", "Reporting"}
  <2>1. /\ DOMAIN t = Fields
        /\ t.databases = s.databases \cup {m} /\ t.checks = Append(s.checks, m)
        /\ t.limiters = s.limiters \cup {m}
        /\ t.subscriptions = s.subscriptions /\ t.identity = s.identity
        /\ t.queues = s.queues \cup {m}
    BY <1>1, <1>3, <1>6, OrdersServices, ReportingServices DEF RegisterServices
  <2>2. PICK x : /\ x.module = m /\ x.kind # "queue"
                 /\ t.hosted = Append(Append(s.hosted, Queue(m)), x)
    <3>1. CASE m = "Orders"
      BY <1>1, <1>3, <3>1, OrdersServices DEF RegisterServices
    <3>2. CASE m = "Reporting"
      BY <1>1, <1>3, <3>2, ReportingServices DEF RegisterServices
    <3>3. QED
      BY <1>6, <3>1, <3>2
  <2>3. \/ t.dispatchers = s.dispatchers
        \/ \E d : t.dispatchers = Append(s.dispatchers, d) /\ d.publishes = {INVOICE_FINALIZED}
    <3>1. CASE m = "Orders"
      BY <1>1, <1>3, <3>1, OrdersServices DEF RegisterServices
    <3>2. CASE m = "Reporting"
      BY <1>1, <1>3, <3>2, ReportingServices DEF RegisterServices
    <3>3. QED
      BY <1>6, <3>1, <3>2
  <2> HIDE DEF t
  <2>4. CheckedOnce(t) /\ IsList(t.checks)
    BY <1>1, <1>2, <1>3, <2>1, CheckAdded
  <2>5. IsList(t.dispatchers)
        /\ \A i \in DOMAIN t.dispatchers : t.dispatchers[i].publishes = {INVOICE_FINALIZED}
    <3>1. CASE t.dispatchers = s.dispatchers
      BY <1>1, <1>2, <3>1 DEF Subscribed
    <3>2. ASSUME NEW d, t.dispatchers = Append(s.dispatchers, d), d.publishes = {INVOICE_FINALIZED}
          PROVE  IsList(t.dispatchers)
                 /\ \A i \in DOMAIN t.dispatchers : t.dispatchers[i].publishes = {INVOICE_FINALIZED}
      <4>1. /\ IsList(t.dispatchers) /\ DOMAIN s.dispatchers = 1..Len(s.dispatchers)
            /\ Len(s.dispatchers) \in Nat
            /\ DOMAIN t.dispatchers = 1..(Len(s.dispatchers) + 1)
            /\ t.dispatchers[Len(s.dispatchers) + 1] = d
            /\ \A i \in 1..Len(s.dispatchers) : t.dispatchers[i] = s.dispatchers[i]
        BY <1>1, <3>2, Appended
      <4>2. QED
        BY <1>2, <3>2, <4>1 DEF Subscribed
    <3>3. QED
      BY <2>3, <3>1, <3>2
  <2>6. Subscribed(t, R \cup {m})
    BY <1>2, <1>6, <2>1, <2>5 DEF Subscribed
  <2>7. QueueFirst(t, R \cup {m}) /\ IsList(t.hosted)
    BY <1>1, <1>2, <1>3, <2>1, <2>2, QueueAdded
  <2>8. Wired(t, R \cup {m})
    BY <1>1, <1>6, <2>1, <2>4, <2>5, <2>7 DEF Wired
  <2>9. QED
    BY <2>4, <2>6, <2>7, <2>8 DEF Services, t
<1>7. QED
  BY <1>4, <1>5, <1>6 DEF Modules

-----------------------------------------------------------------------------
(* The composition of a host *)

\* Each module has registered or is yet to, once.
ListRight ==
    /\ unregistered \in Seq(Modules) /\ registered \subseteq Modules
    /\ Range(unregistered) \cup registered = Modules
    /\ \A i \in DOMAIN unregistered : unregistered[i] \notin registered
    /\ \A i, j \in DOMAIN unregistered : unregistered[i] = unregistered[j] => i = j

\* The endpoints of the host and of the modules in R, and no other but the mistake.
MappedBy(R) ==
    \A e \in mapped : \/ e \in RootEndpoints \cup mistake
                      \/ \E m \in R : e \in MapEndpoints(m)

\* What a host has passed on its way to serve.
PhaseRight ==
    /\ phase \in {"registering", "mapping", "checking", "serving", "refused"}
    /\ mistake \subseteq Mistakes
    /\ phase \in {"mapping", "checking", "serving"} => unregistered = <<>>
    /\ phase \in {"checking", "serving"} =>
          /\ MappedBy(registered)
          /\ ~Overlap(mapped)
    /\ phase = "serving" /\ ValidatesEndpoints(environment) =>
          FindDuplicateRoutes(mapped) = {} /\ FindUnknownPolicies(mapped, services) = {}

CompositionIInv == ListRight /\ Services(services, registered) /\ PhaseRight

LEMMA CompositionInitial == CompositionInit => CompositionIInv
<1> SUFFICES ASSUME CompositionInit PROVE CompositionIInv
  OBVIOUS
<1>1. ListRight
  BY CompositionAssumption DEF CompositionInit, ListRight
<1>2. Services(services, registered)
  BY Nothing DEF CompositionInit
<1>3. PhaseRight
  BY DEF CompositionInit, PhaseRight
<1>4. QED
  BY <1>1, <1>2, <1>3 DEF CompositionIInv

LEMMA CompositionStep == CompositionIInv /\ [CompositionNext]_compositionVars => CompositionIInv'
<1> SUFFICES ASSUME CompositionIInv, [CompositionNext]_compositionVars PROVE CompositionIInv'
  OBVIOUS
<1>0. ListRight /\ Services(services, registered) /\ PhaseRight
  BY DEF CompositionIInv
<1>1. CASE Register
  <2> DEFINE m == Head(unregistered)
  <2>1. /\ unregistered # <<>> /\ services' = RegisterServices(m, services)
        /\ registered' = registered \cup {m} /\ unregistered' = Tail(unregistered)
        /\ phase = "registering" /\ phase' = phase /\ mistake' = mistake
    BY <1>1 DEF Register
  <2>2. unregistered \in Seq(Modules) /\ Len(unregistered) \in Nat /\ Len(unregistered) > 0
    BY <1>0, <2>1 DEF ListRight
  <2>3. m = unregistered[1] /\ 1 \in DOMAIN unregistered /\ DOMAIN unregistered = 1..Len(unregistered)
    BY <2>2
  <2>4. m \in Modules \ registered
    BY <1>0, <2>2, <2>3 DEF ListRight
  <2>5. /\ unregistered' \in Seq(Modules) /\ DOMAIN unregistered' = 1..(Len(unregistered) - 1)
        /\ \A i \in DOMAIN unregistered' : unregistered'[i] = unregistered[i + 1]
                                           /\ i + 1 \in DOMAIN unregistered
    BY <2>1, <2>2
  <2>6. ListRight'
    <3>1. \A i \in DOMAIN unregistered' : unregistered'[i] \notin registered'
      BY <1>0, <2>1, <2>2, <2>3, <2>5 DEF ListRight
    <3>2. \A i, j \in DOMAIN unregistered' : unregistered'[i] = unregistered'[j] => i = j
      BY <1>0, <2>2, <2>5 DEF ListRight
    <3>3. Range(unregistered)  = Range(unregistered') \cup {m}
      <4>1. \A i \in DOMAIN unregistered : i = 1 \/ (i - 1 \in DOMAIN unregistered'
                                                     /\ unregistered'[i - 1] = unregistered[i])
        BY <2>2, <2>3, <2>5
      <4>2. QED
        BY <2>3, <2>5, <4>1 DEF Range
    <3>4. QED
      BY <1>0, <2>1, <2>4, <2>5, <3>1, <3>2, <3>3 DEF ListRight
  <2>7. Services(services, registered)'
    BY <1>0, <2>1, <2>4, Registers DEF ListRight
  <2>8. PhaseRight'
    BY <1>0, <2>1 DEF PhaseRight
  <2>9. QED
    BY <2>6, <2>7, <2>8 DEF CompositionIInv
<1>2. CASE RegisterFails
  <2>1. UNCHANGED <<environment, unregistered, registered, services, mapped, mistake>>
    BY <1>2 DEF RegisterFails
  <2>2. ListRight' /\ Services(services, registered)'
    BY <1>0, <2>1 DEF ListRight
  <2>3. PhaseRight'
    BY <1>0, <1>2, <2>1 DEF PhaseRight, RegisterFails
  <2>4. QED
    BY <2>2, <2>3 DEF CompositionIInv
<1>3. CASE MigrateAndSeed
  <2>1. UNCHANGED <<environment, unregistered, registered, services, mapped, mistake>>
    BY <1>3 DEF MigrateAndSeed
  <2>2. ListRight' /\ Services(services, registered)'
    BY <1>0, <2>1 DEF ListRight
  <2>3. PhaseRight'
    BY <1>0, <1>3, <2>1 DEF PhaseRight, MigrateAndSeed
  <2>4. QED
    BY <2>2, <2>3 DEF CompositionIInv
<1>4. CASE Map
  <2>1. UNCHANGED <<environment, unregistered, registered, services, mistake>>
    BY <1>4 DEF Map
  <2>2. ListRight' /\ Services(services, registered)'
    BY <1>0, <2>1 DEF ListRight
  <2>3. PhaseRight'
    <3>1. MappedBy(registered)'
      BY <1>4, <2>1 DEF Map, MappedBy
    <3>2. /\ phase = "mapping"
          /\ phase' = IF Overlap(mapped') THEN "refused" ELSE "checking"
      BY <1>4 DEF Map
    <3>3. QED
      BY <1>0, <2>1, <3>1, <3>2 DEF PhaseRight
  <2>4. QED
    BY <2>2, <2>3 DEF CompositionIInv
<1>5. CASE Check
  <2>1. UNCHANGED <<environment, unregistered, registered, services, mapped, mistake>>
    BY <1>5 DEF Check
  <2>2. ListRight' /\ Services(services, registered)'
    BY <1>0, <2>1 DEF ListRight
  <2>3. PhaseRight'
    BY <1>0, <1>5, <2>1 DEF PhaseRight, MappedBy, Check
  <2>4. QED
    BY <2>2, <2>3 DEF CompositionIInv
<1>6. CASE UNCHANGED compositionVars
  <2>1. ListRight' /\ Services(services, registered)'
    BY <1>0, <1>6 DEF ListRight, compositionVars
  <2>2. PhaseRight'
    BY <1>0, <1>6 DEF PhaseRight, MappedBy, compositionVars
  <2>3. QED
    BY <2>1, <2>2 DEF CompositionIInv
<1>7. QED
  BY <1>1, <1>2, <1>3, <1>4, <1>5, <1>6 DEF CompositionNext

LEMMA Wiring == CompositionIInv => WiringIsComplete
<1> SUFFICES ASSUME CompositionIInv, phase = "serving" PROVE WiringIsComplete
  BY DEF WiringIsComplete
<1>1. registered = Modules
  <2>1. unregistered = <<>>
    BY DEF CompositionIInv, PhaseRight
  <2>2. Range(unregistered) = {}
    BY <2>1 DEF Range
  <2>3. QED
    BY <2>2 DEF CompositionIInv, ListRight
<1>2. /\ Wired(services, Modules) /\ Subscribed(services, Modules) /\ CheckedOnce(services)
      /\ QueueFirst(services, Modules)
  BY <1>1 DEF CompositionIInv, Services
<1>3. /\ MappedBy(Modules)
      /\ ~Overlap(mapped) /\ mistake \subseteq Mistakes
      /\ ValidatesEndpoints(environment) =>
            FindDuplicateRoutes(mapped) = {} /\ FindUnknownPolicies(mapped, services) = {}
  BY <1>1 DEF CompositionIInv, PhaseRight
<1>4. ASSUME NEW i \in DOMAIN services.dispatchers,
             NEW event \in services.dispatchers[i].publishes
      PROVE  LET reached == {services.subscriptions[n].module :
                                n \in ForEvent(event, services.dispatchers[i], services)}
             IN  /\ reached = {"Administration", "Catalog"}
                 /\ reached \subseteq services.databases
  <2>1. event = INVOICE_FINALIZED
    BY <1>2 DEF Subscribed
  <2>2. ForEvent(event, services.dispatchers[i], services) = DOMAIN services.subscriptions
    BY <1>2, <2>1 DEF ForEvent, Subscribed
  <2>3. {services.subscriptions[n].module : n \in DOMAIN services.subscriptions}
           = {"Administration", "Catalog"}
    BY <1>2 DEF Subscribed, Modules
  <2>4. {"Administration", "Catalog"} \subseteq services.databases
    BY <1>2 DEF Wired, Modules
  <2>5. QED
    BY <2>2, <2>3, <2>4
<1>5. ASSUME NEW m \in services.queues
      PROVE  /\ Cardinality(Queues(m)) = 1
             /\ \A q \in Queues(m), i \in Submitters(m) : q < i
  <2>1. PICK q \in DOMAIN services.hosted :
           /\ services.hosted[q] = Queue(m)
           /\ \A i \in DOMAIN services.hosted : i # q /\ services.hosted[i].module = m =>
                 services.hosted[i].kind # "queue" /\ q < i
    BY <1>2 DEF QueueFirst
  <2>2. services.hosted[q].kind = "queue" /\ services.hosted[q].module = m
    BY <2>1 DEF Queue
  <2>3. Queues(m) = {q}
    BY <2>1, <2>2 DEF Queues
  <2>4. \A i \in Submitters(m) : q < i
    BY <2>1, <2>2 DEF Submitters
  <2>5. QED
    BY <2>3, <2>4, FS_Singleton
<1>6. ASSUME NEW m \in services.databases
      PROVE  Cardinality({i \in DOMAIN services.checks : services.checks[i] = m}) = 1
  <2>1. PICK i \in DOMAIN services.checks :
           services.checks[i] = m
             /\ \A j \in DOMAIN services.checks : services.checks[j] = m => i = j
    BY <1>2 DEF CheckedOnce
  <2>2. {j \in DOMAIN services.checks : services.checks[j] = m} = {i}
    BY <2>1
  <2>3. QED
    BY <2>2, FS_Singleton
<1>7. \A e \in mapped : e.tag \in Modules \cup {"Root"} /\ IsPath(e.path)
  <2>1. \A e \in RootEndpoints : e.tag = "Root" /\ IsPath(e.path)
    BY RootPaths DEF IsEndpoint
  <2>2. \A m \in Modules : \A e \in MapEndpoints(m) : e.tag = m /\ IsPath(e.path)
    BY ModulePaths DEF IsEndpoint
  <2>3. \A e \in mistake : e.tag \in Modules /\ IsPath(e.path)
    BY <1>3, CompositionAssumption DEF IsPath
  <2>4. QED
    BY <1>3, <2>1, <2>2, <2>3 DEF MappedBy
<1>8. ASSUME NEW e \in mapped
      PROVE  /\ e.tag \in services.limiters
             /\ {f \in Routed(mapped, Pattern(e.path)) : f.method = e.method} = {e}
  <2>1. e.tag \in services.limiters
    BY <1>2, <1>7 DEF Wired
  <2>2. {f \in Routed(mapped, Pattern(e.path)) : f.method = e.method} = {e}
    BY <1>3, <1>7, OwnPath
  <2>3. QED
    BY <2>1, <2>2
<1>9. ASSUME ValidatesEndpoints(environment), NEW e \in mapped, NEW policy \in Range(e.policies)
      PROVE  Evaluate(policy, [permissions |-> {}, roles |-> {}, tenant |-> NoTenant], NoTenant) # "unknown"
  <2>1. IsRegistered(policy)
    BY <1>3, <1>9 DEF FindUnknownPolicies
  <2>2. QED
    BY <2>1 DEF IsRegistered, Evaluate
<1>10. ASSUME ValidatesEndpoints(environment), NEW e \in mapped, NEW f \in mapped \ {e},
              e.method = f.method
       PROVE  NormalizedRoute(e) # NormalizedRoute(f)
  BY <1>3, <1>10 DEF FindDuplicateRoutes
<1>11. QED
  BY <1>4, <1>5, <1>6, <1>8, <1>9, <1>10 DEF WiringIsComplete

\* WiringIsComplete: whatever the order of the modules and the mistake.
THEOREM WiringCorrect == CompositionSpec => []WiringIsComplete
<1>1. CompositionSpec => []CompositionIInv
  BY CompositionInitial, CompositionStep, PTL DEF CompositionSpec
<1>2. QED
  BY <1>1, Wiring, PTL
=============================================================================
