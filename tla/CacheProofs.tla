----------------------------- MODULE CacheProofs -----------------------------
(***************************************************************************)
(* What the cache guarantees: ReadCache for any keys, readers, writers and *)
(* dropped clients, Records for any tables and any reads of them; that the *)
(* modules' counters add up to the invoices, and that the answers they     *)
(* compose of several tables agree, whatever the tables hold.              *)
(***************************************************************************)
EXTENDS ReadCache, Records, SumsProofs

-----------------------------------------------------------------------------
(* Types *)

TypeOK ==
    /\ version \in Nat
    /\ entry \in [Keys -> Readers \cup {Nobody}]
    /\ expired \subseteq Keys
    /\ index \in [Keys -> Readers \cup {Nobody}]
    /\ removed \subseteq Keys \X Readers
    /\ flight \in [Keys -> Readers \cup {Nobody}]
    /\ reader \in [Readers -> {"new", "missed", "waiting", "loading", "loaded",
                               "registered", "done", "failed", "dropped"}]
    /\ loaded \in [Readers -> Nat]
    /\ answer \in [Readers -> Readers \cup {Nobody}]
    /\ writer \in [Writers -> {"new", "committed", "dropping", "done", "dropped"}]
    /\ left \in [Writers -> SUBSET (Keys \X Readers)]
    /\ mark \in [Writers -> Nat]
    /\ invalidated \in Nat
    /\ due \in [Readers -> Nat]
    /\ overtaken \subseteq Readers
    /\ abandoned \subseteq Readers

\* What the listener is told of is a key and a fill.
LEMMA GoneType ==
    ASSUME TypeOK, NEW k \in Keys
    PROVE  Gone(k) \subseteq Keys \X Readers
BY DEF TypeOK, Gone

\* A read leaves the state well typed.
LEMMA ReadType ==
    ASSUME TypeOK, NEW r \in Readers, Get(r) \/ Read(r) \/ DropRead(r)
    PROVE  TypeOK'
<1> USE DEF storeVars, readVars, writeVars
<1>0. KeyOf[r] \in Keys
  BY KeysAssumption
<1>1. CASE Get(r)
  BY <1>0, <1>1 DEF Get, Hit, Cached, TypeOK
<1>2. CASE Join(r)
  BY <1>0, <1>2 DEF Join, Hit, Cached, TypeOK
<1>3. CASE Load(r)
  BY <1>3 DEF Load, TypeOK
<1>4. CASE FailLoad(r)
  BY <1>0, <1>4 DEF FailLoad, TypeOK
<1>5. CASE Register(r)
  BY <1>0, <1>5 DEF Register, TypeOK
<1>6. CASE Store(r)
  <2>1. removed' \subseteq Keys \X Readers
    BY <1>0, <1>6, GoneType DEF Store, TypeOK
  <2>2. /\ entry' \in [Keys -> Readers \cup {Nobody}]
        /\ flight' \in [Keys -> Readers \cup {Nobody}]
        /\ reader' \in [Readers -> {"new", "missed", "waiting", "loading", "loaded",
                                    "registered", "done", "failed", "dropped"}]
        /\ answer' \in [Readers -> Readers \cup {Nobody}]
        /\ expired' \subseteq Keys
    BY <1>0, <1>6 DEF Store, TypeOK
  <2>3. QED
    BY <1>6, <2>1, <2>2 DEF Store, TypeOK
<1>7. CASE DropRead(r)
  <2>1. /\ flight' \in [Keys -> Readers \cup {Nobody}]
        /\ reader' \in [Readers -> {"new", "missed", "waiting", "loading", "loaded",
                                    "registered", "done", "failed", "dropped"}]
        /\ abandoned' \subseteq Readers
    BY <1>0, <1>7 DEF DropRead, TypeOK
  <2>2. QED
    BY <1>7, <2>1 DEF DropRead, TypeOK
<1>8. QED
  BY <1>1, <1>2, <1>3, <1>4, <1>5, <1>6, <1>7 DEF Read

\* So does a write, and whatever moka does.
LEMMA TypeStep == TypeOK /\ [Next]_vars => TypeOK'
<1> SUFFICES ASSUME TypeOK, [Next]_vars
             PROVE  TypeOK'
  OBVIOUS
<1> USE DEF storeVars, readVars, writeVars
<1>1. ASSUME NEW k \in Keys, Expire(k) \/ Evict(k)
      PROVE  TypeOK'
  BY <1>1, GoneType DEF Expire, Evict, TypeOK
<1>2. ASSUME NEW gone \in removed, Forget(gone[1], gone[2])
      PROVE  TypeOK'
  BY <1>2 DEF Forget, TypeOK
<1>3. ASSUME NEW w \in Writers, Commit(w)
      PROVE  TypeOK'
  BY <1>3 DEF Commit, TypeOK
<1>4. ASSUME NEW w \in Writers, TakeTag(w)
      PROVE  TypeOK'
  <2>1. {<<k, index[k]>> : k \in {x \in Keys : index[x] # Nobody}} \subseteq Keys \X Readers
    BY DEF TypeOK
  <2>2. left' \in [Writers -> SUBSET (Keys \X Readers)]
    BY <1>4, <2>1 DEF TakeTag, TypeOK
  <2>3. QED
    BY <1>4, <2>2 DEF TakeTag, TypeOK
<1>5. ASSUME NEW w \in Writers, Invalidate(w)
      PROVE  TypeOK'
  <2>1. PICK taken \in left[w] :
          /\ left' = [left EXCEPT ![w] = left[w] \ {taken}]
          /\ entry' = [entry EXCEPT ![taken[1]] = Nobody]
          /\ removed' = removed \cup Gone(taken[1])
          /\ expired' = expired \ {taken[1]}
    BY <1>5 DEF Invalidate
  <2>2. taken[1] \in Keys
    BY DEF TypeOK
  <2>3. /\ left' \in [Writers -> SUBSET (Keys \X Readers)]
        /\ entry' \in [Keys -> Readers \cup {Nobody}]
        /\ removed' \subseteq Keys \X Readers
        /\ expired' \subseteq Keys
    BY <2>1, <2>2, GoneType DEF TypeOK
  <2>4. QED
    BY <1>5, <2>3 DEF Invalidate, TypeOK
<1>6. ASSUME NEW w \in Writers, RemoveId(w)
      PROVE  TypeOK'
  BY <1>6, GoneType, KeysAssumption DEF RemoveId, TypeOK
<1>7. ASSUME NEW w \in Writers, DropWrite(w)
      PROVE  TypeOK'
  BY <1>7 DEF DropWrite, TypeOK
<1>8. CASE UNCHANGED vars
  BY <1>8 DEF vars, TypeOK
<1>9. QED
  BY <1>1, <1>2, <1>3, <1>4, <1>5, <1>6, <1>7, <1>8, ReadType DEF Next, Write

\* The variables keep their types.
THEOREM TypeCorrect == Spec => []TypeOK
<1>1. Init => TypeOK
  BY KeysAssumption DEF Init, TypeOK
<1>2. QED
  BY <1>1, TypeStep, PTL DEF Spec

-----------------------------------------------------------------------------
(* One factory run per key *)

Runs(r) == reader[r] \in {"loading", "loaded", "registered"}

\* A key's flight is the reader that runs its factory, and nobody waits
\* without one.
Alone ==
    /\ \A r \in Readers : Runs(r) => flight[KeyOf[r]] = r
    /\ \A k \in Keys : flight[k] # Nobody => KeyOf[flight[k]] = k /\ Runs(flight[k])
    /\ \A r \in Readers : reader[r] = "waiting" => flight[KeyOf[r]] # Nobody

\* Whatever ends a run clears its flight and moves everyone who waits for it.
LEMMA AloneStep == TypeOK /\ Alone /\ [Next]_vars => Alone'
<1> SUFFICES ASSUME TypeOK, Alone, [Next]_vars
             PROVE  Alone'
  OBVIOUS
<1> USE DEF storeVars, readVars, writeVars
<1>1. KeyOf \in [Readers -> Keys] /\ Nobody \notin Readers
  BY KeysAssumption
<1>2. CASE UNCHANGED <<flight, reader>>
  BY <1>2 DEF Alone, Runs
<1>3. ASSUME NEW r \in Readers, Get(r)
      PROVE  Alone'
  BY <1>1, <1>3 DEF Get, Hit, Alone, Runs, TypeOK
<1>4. ASSUME NEW r \in Readers, Join(r)
      PROVE  Alone'
  <2>1. CASE Hit(r) /\ UNCHANGED flight
    BY <1>1, <1>4, <2>1 DEF Join, Hit, Alone, Runs, TypeOK
  <2>2. CASE /\ flight[KeyOf[r]] = Nobody
             /\ flight' = [flight EXCEPT ![KeyOf[r]] = r]
             /\ reader' = [reader EXCEPT ![r] = "loading"]
    BY <1>1, <1>4, <2>2 DEF Join, Alone, Runs, TypeOK
  <2>3. CASE /\ flight[KeyOf[r]] # Nobody
             /\ reader' = [reader EXCEPT ![r] = "waiting"]
             /\ UNCHANGED flight
    BY <1>1, <1>4, <2>3 DEF Join, Alone, Runs, TypeOK
  <2>4. QED
    BY <1>4, <2>1, <2>2, <2>3 DEF Join
<1>5. ASSUME NEW r \in Readers, Load(r) \/ Register(r)
      PROVE  Alone'
  BY <1>1, <1>5 DEF Load, Register, Alone, Runs, TypeOK
<1>6. ASSUME NEW r \in Readers, FailLoad(r) \/ Store(r)
      PROVE  Alone'
  <2>1. /\ Runs(r) /\ flight' = [flight EXCEPT ![KeyOf[r]] = Nobody]
        /\ \A x \in Readers : IF x = r \/ x \in Waiting(KeyOf[r])
                              THEN reader'[x] \in {"failed", "done"}
                              ELSE reader'[x] = reader[x]
    BY <1>6 DEF FailLoad, Store, Runs, TypeOK
  <2>2. QED
    BY <1>1, <2>1 DEF Alone, Runs, Waiting, TypeOK
<1>7. ASSUME NEW r \in Readers, DropRead(r)
      PROVE  Alone'
  <2>1. CASE flight[KeyOf[r]] = r
    <3>1. /\ flight' = [flight EXCEPT ![KeyOf[r]] = Nobody]
          /\ \A x \in Readers : reader'[x] = IF x = r THEN "dropped"
                                             ELSE IF x \in Waiting(KeyOf[r]) THEN "missed"
                                             ELSE reader[x]
      BY <1>7, <2>1 DEF DropRead, TypeOK
    <3>2. \A k \in Keys : flight'[k] = IF k = KeyOf[r] THEN Nobody ELSE flight[k]
      BY <3>1 DEF TypeOK
    <3>3. \A x \in Readers : Runs(x)' => x # r /\ Runs(x)
      BY <3>1 DEF Runs
    <3>4. \A x \in Readers : Runs(x)' => flight'[KeyOf[x]] = x
      BY <1>1, <2>1, <3>2, <3>3 DEF Alone
    <3>5. ASSUME NEW k \in Keys, flight'[k] # Nobody
          PROVE  KeyOf[flight'[k]] = k /\ Runs(flight[k])'
      <4>1. /\ flight'[k] = flight[k] /\ k # KeyOf[r] /\ flight[k] \in Readers
            /\ KeyOf[flight[k]] = k /\ Runs(flight[k])
        BY <3>2, <3>5 DEF Alone, TypeOK
      <4>2. reader'[flight[k]] = reader[flight[k]]
        BY <3>1, <4>1 DEF Waiting
      <4>3. QED
        BY <4>1, <4>2 DEF Runs
    <3>6. \A x \in Readers : reader'[x] = "waiting" => flight'[KeyOf[x]] # Nobody
      BY <1>1, <3>1, <3>2 DEF Alone, Waiting
    <3>7. QED
      BY <3>4, <3>5, <3>6 DEF Alone, Runs
  <2>2. CASE flight[KeyOf[r]] # r
    <3>1. flight' = flight /\ reader' = [reader EXCEPT ![r] = "dropped"]
      BY <1>1, <1>7, <2>2 DEF DropRead, TypeOK
    <3>2. QED
      BY <1>1, <2>2, <3>1 DEF Alone, Runs, TypeOK
  <2>3. QED
    BY <2>1, <2>2
<1>8. QED
  BY <1>2, <1>3, <1>4, <1>5, <1>6, <1>7 DEF Next, Read, Write, Commit, TakeTag, Invalidate,
     RemoveId, DropWrite, Expire, Evict, Forget, vars

\* try_get_with coalesces: a key's factory is run by one caller at a time,
\* whichever callers fail or go away.
THEOREM CoalescesLoads == Spec => []SingleFlight
<1>1. Init => Alone
  BY KeysAssumption DEF Init, Alone, Runs
<1>2. TypeOK /\ Alone /\ [Next]_vars => Alone'
  BY AloneStep
<1>3. TypeOK /\ Alone => SingleFlight
  <2> SUFFICES ASSUME TypeOK, Alone, NEW k \in Keys
               PROVE  /\ {r \in Readers : KeyOf[r] = k /\ Runs(r)}
                           = IF flight[k] = Nobody THEN {} ELSE {flight[k]}
                      /\ Waiting(k) # {} => flight[k] # Nobody
    BY DEF SingleFlight, Runs
  <2>1. flight[k] \in Readers \cup {Nobody} /\ Nobody \notin Readers
    BY KeysAssumption DEF TypeOK
  <2>2. QED
    BY <2>1 DEF Alone, Waiting
<1>4. QED
  BY <1>1, <1>2, <1>3, TypeCorrect, PTL DEF Spec

-----------------------------------------------------------------------------
(* Entries and registrations *)

\* A stored fill is done and is its key's, and one that is gone stays gone.
Stored ==
    /\ \A k \in Keys : entry[k] # Nobody =>
          KeyOf[entry[k]] = k /\ reader[entry[k]] = "done"
    /\ \A k \in Keys, r \in Readers : <<k, r>> \in removed =>
          reader[r] = "done" /\ entry[k] # r

\* A registration is of a fill that got that far, under its key.
Indexed ==
    \A k \in Keys : index[k] # Nobody =>
        KeyOf[index[k]] = k /\ reader[index[k]] \in {"registered", "done", "dropped"}

\* Nobody fills a key that has a live entry.
Refilling == \A k \in Keys : flight[k] # Nobody => ~ Cached(k)

Shape == TypeOK /\ Alone /\ Stored /\ Indexed /\ Refilling /\ IndexIsTidy

\* Everything that can happen to an entry: it stays, perhaps past its deadline;
\* it goes, and the listener will be told; or a fill replaces it, and the
\* listener will be told of the one replaced.
EntryStep(k) ==
    \/ entry'[k] = entry[k] /\ (k \in expired => k \in expired')
    \/ entry'[k] = Nobody /\ (entry[k] # Nobody => <<k, entry[k]>> \in removed')
    \/ \E r \in Readers : /\ Store(r) /\ KeyOf[r] = k /\ entry'[k] = r
                          /\ entry[k] # Nobody => <<k, entry[k]>> \in removed'

\* Every step does one of them to each entry, and tells the listener of
\* nothing else.
LEMMA EntrySteps ==
    ASSUME TypeOK, Stored, [Next]_vars, NEW k \in Keys
    PROVE  /\ EntryStep(k)
           /\ \A r \in Readers : <<k, r>> \in removed' =>
                 <<k, r>> \in removed \/ (entry[k] = r /\ entry'[k] # r)
<1> USE DEF storeVars, readVars, writeVars
<1> DEFINE Told == \A r \in Readers : <<k, r>> \in removed' =>
                      <<k, r>> \in removed \/ (entry[k] = r /\ entry'[k] # r)
<1>1. Nobody \notin Readers /\ IdKey \in Keys
  BY KeysAssumption
<1>2. ASSUME NEW x \in Keys,
             /\ entry' = [entry EXCEPT ![x] = Nobody]
             /\ removed' = removed \cup Gone(x)
             /\ expired' = expired \ {x}
      PROVE  EntryStep(k) /\ Told
  <2>1. CASE x = k
    BY <1>1, <1>2, <2>1 DEF EntryStep, Gone, TypeOK
  <2>2. CASE x # k
    BY <1>1, <1>2, <2>2 DEF EntryStep, Gone, TypeOK
  <2>3. QED
    BY <2>1, <2>2
<1>3. ASSUME NEW x \in Readers, Store(x)
      PROVE  EntryStep(k) /\ Told
  <2>1. /\ entry' = [entry EXCEPT ![KeyOf[x]] = x]
        /\ removed' = removed \cup Gone(KeyOf[x])
        /\ expired' = expired \ {KeyOf[x]}
        /\ KeyOf[x] \in Keys
    BY <1>3, KeysAssumption DEF Store
  <2>2. CASE KeyOf[x] = k
    <3>1. entry'[k] = x /\ (entry[k] # Nobody => <<k, entry[k]>> \in removed')
      BY <2>1, <2>2 DEF Gone, TypeOK
    <3>2. entry[k] # x
      BY <1>1, <1>3 DEF Store, Stored
    <3>3. Told
      BY <2>1, <2>2, <3>1, <3>2 DEF Gone
    <3>4. QED
      BY <1>3, <2>2, <3>1, <3>3 DEF EntryStep
  <2>3. CASE KeyOf[x] # k
    BY <2>1, <2>3 DEF EntryStep, Gone, TypeOK
  <2>4. QED
    BY <2>2, <2>3
<1>4. ASSUME UNCHANGED entry, expired \subseteq expired', removed' \subseteq removed
      PROVE  EntryStep(k) /\ Told
  BY <1>4 DEF EntryStep
<1>5. ASSUME NEW w \in Writers, Invalidate(w)
      PROVE  EntryStep(k) /\ Told
  <2>1. PICK taken \in left[w] :
          /\ entry' = [entry EXCEPT ![taken[1]] = Nobody]
          /\ removed' = removed \cup Gone(taken[1])
          /\ expired' = expired \ {taken[1]}
    BY <1>5 DEF Invalidate
  <2>2. taken[1] \in Keys
    BY DEF TypeOK
  <2>3. QED
    BY <1>2, <2>1, <2>2
<1>6. ASSUME NEW w \in Writers, RemoveId(w)
      PROVE  EntryStep(k) /\ Told
  BY <1>1, <1>2, <1>6 DEF RemoveId
<1>7. ASSUME NEW x \in Keys, Evict(x)
      PROVE  EntryStep(k) /\ Told
  BY <1>2, <1>7 DEF Evict
<1>8. ASSUME NEW x \in Keys, Expire(x)
      PROVE  EntryStep(k) /\ Told
  BY <1>4, <1>8 DEF Expire
<1>9. ASSUME NEW gone \in removed, Forget(gone[1], gone[2])
      PROVE  EntryStep(k) /\ Told
  BY <1>4, <1>9 DEF Forget
<1> HIDE DEF Told
<1>10. EntryStep(k) /\ Told
  BY <1>3, <1>4, <1>5, <1>6, <1>7, <1>8, <1>9 DEF Next, Read, Write, Get, Join, Load,
     FailLoad, Register, DropRead, Commit, TakeTag, DropWrite, vars
<1>11. QED
  BY <1>10 DEF Told

\* A call that is over stays over; a registered fill is stored, or dropped and
\* remembered.
ReaderStep(r) ==
    /\ reader[r] \in {"done", "failed", "dropped"} => reader'[r] = reader[r]
    /\ reader[r] = "registered" => \/ reader'[r] = "registered"
                                   \/ Store(r) /\ reader'[r] = "done"
                                   \/ reader'[r] = "dropped" /\ r \in abandoned'

\* Every step keeps to that for each call.
LEMMA ReaderSteps ==
    ASSUME TypeOK, [Next]_vars, NEW r \in Readers
    PROVE  ReaderStep(r) /\ abandoned \subseteq abandoned'
<1> USE DEF storeVars, readVars, writeVars
<1>1. ASSUME NEW x \in Readers, Get(x) \/ Read(x) \/ DropRead(x)
      PROVE  ReaderStep(r) /\ abandoned \subseteq abandoned'
  <2>1. CASE Get(x) \/ Join(x) \/ Load(x) \/ Register(x)
    BY <2>1 DEF Get, Join, Hit, Load, Register, TypeOK, ReaderStep
  <2>2. CASE FailLoad(x)
    BY <2>2 DEF FailLoad, Waiting, TypeOK, ReaderStep
  <2>3. CASE Store(x)
    BY <2>3 DEF Store, Waiting, TypeOK, ReaderStep
  <2>4. CASE DropRead(x)
    BY <2>4 DEF DropRead, Waiting, TypeOK, ReaderStep
  <2>5. QED
    BY <1>1, <2>1, <2>2, <2>3, <2>4 DEF Read
<1>2. CASE UNCHANGED <<reader, abandoned>>
  BY <1>2 DEF ReaderStep
<1>3. QED
  BY <1>1, <1>2 DEF Next, Write, Commit, TakeTag, Invalidate, RemoveId, DropWrite, Expire,
                    Evict, Forget, vars

\* A fill is stored once, by the call that ran the factory.
LEMMA StoredStep == TypeOK /\ Stored /\ [Next]_vars => Stored'
<1> SUFFICES ASSUME TypeOK, Stored, [Next]_vars
             PROVE  Stored'
  OBVIOUS
<1>1. ASSUME NEW x \in Readers, Store(x)
      PROVE  reader[x] = "registered" /\ reader'[x] = "done"
  BY <1>1 DEF Store, TypeOK
<1>2. ASSUME NEW k \in Keys, entry'[k] # Nobody
      PROVE  KeyOf[entry'[k]] = k /\ reader'[entry'[k]] = "done"
  <2>1. EntryStep(k) /\ entry[k] \in Readers \cup {Nobody}
    BY EntrySteps DEF TypeOK
  <2>2. CASE entry'[k] = entry[k]
    BY <1>2, <2>1, <2>2, ReaderSteps DEF ReaderStep, Stored
  <2>3. QED
    BY <1>1, <1>2, <2>1, <2>2 DEF EntryStep
<1>3. ASSUME NEW k \in Keys, NEW r \in Readers, <<k, r>> \in removed'
      PROVE  reader'[r] = "done" /\ entry'[k] # r
  <2>1. EntryStep(k) /\ (<<k, r>> \in removed \/ (entry[k] = r /\ entry'[k] # r))
    BY <1>3, EntrySteps
  <2>2. reader[r] = "done"
    BY <2>1, KeysAssumption DEF Stored
  <2>3. reader'[r] = "done"
    BY <2>2, ReaderSteps DEF ReaderStep
  <2>4. CASE <<k, r>> \in removed
    <3>1. entry[k] # r /\ r # Nobody
      BY <2>4, KeysAssumption DEF Stored
    <3>2. \A x \in Readers : Store(x) => x # r
      BY <1>1, <2>2
    <3>3. entry'[k] # r
      BY <2>1, <3>1, <3>2 DEF EntryStep
    <3>4. QED
      BY <2>3, <3>3
  <2>5. QED
    BY <2>1, <2>3, <2>4
<1>4. QED
  BY <1>2, <1>3 DEF Stored

\* Everything that can happen to a registration.
IndexStep(k) ==
    \/ index'[k] = index[k]
    \/ index'[k] = Nobody /\ \E w \in Writers : TakeTag(w)
    \/ index'[k] = Nobody /\ <<k, index[k]>> \in removed
    \/ \E r \in Readers : Register(r) /\ KeyOf[r] = k /\ index'[k] = r

\* Every step does one of them to each, and a listener that forgets an entry
\* forgets its registration.
LEMMA IndexSteps ==
    ASSUME TypeOK, [Next]_vars, NEW k \in Keys
    PROVE  /\ IndexStep(k)
           /\ \A r \in Readers : <<k, r>> \in removed /\ <<k, r>> \notin removed' =>
                 index'[k] # r
<1> USE DEF storeVars, readVars, writeVars
<1>1. ASSUME NEW gone \in removed, Forget(gone[1], gone[2])
      PROVE  /\ IndexStep(k)
             /\ \A r \in Readers : <<k, r>> \in removed /\ <<k, r>> \notin removed' =>
                   index'[k] # r
  <2>1. gone[1] \in Keys /\ gone[2] \in Readers /\ gone = <<gone[1], gone[2]>>
    BY DEF TypeOK
  <2>2. IndexStep(k)
    BY <1>1, <2>1 DEF Forget, IndexStep, TypeOK
  <2>3. ASSUME NEW r \in Readers, <<k, r>> \in removed, <<k, r>> \notin removed'
        PROVE  index'[k] # r
    <3>1. gone[1] = k /\ gone[2] = r
      BY <1>1, <2>1, <2>3 DEF Forget
    <3>2. QED
      BY <1>1, <3>1, KeysAssumption DEF Forget, TypeOK
  <2>4. QED
    BY <2>2, <2>3
<1>2. ASSUME removed \subseteq removed', IndexStep(k)
      PROVE  /\ IndexStep(k)
             /\ \A r \in Readers : <<k, r>> \in removed /\ <<k, r>> \notin removed' =>
                   index'[k] # r
  BY <1>2
<1>3. ASSUME NEW w \in Writers, TakeTag(w)
      PROVE  removed' = removed /\ IndexStep(k)
  BY <1>3 DEF TakeTag, IndexStep
<1>4. ASSUME NEW x \in Readers, Register(x)
      PROVE  removed' = removed /\ IndexStep(k)
  BY <1>4, KeysAssumption DEF Register, IndexStep, TypeOK
<1>5. ASSUME NEW w \in Writers, Invalidate(w)
      PROVE  removed \subseteq removed' /\ index' = index
  BY <1>5 DEF Invalidate
<1>6. CASE UNCHANGED index /\ removed \subseteq removed'
  BY <1>6 DEF IndexStep
<1>7. QED
  BY <1>1, <1>2, <1>3, <1>4, <1>5, <1>6 DEF Next, Read, Write, Get, Join, Load, FailLoad,
     Store, DropRead, Commit, RemoveId, DropWrite, Expire, Evict, vars

\* What is registered has read the database, and stays registered or is over.
LEMMA IndexedStep == TypeOK /\ Indexed /\ [Next]_vars => Indexed'
<1> SUFFICES ASSUME TypeOK, Indexed, [Next]_vars, NEW k \in Keys, index'[k] # Nobody
             PROVE  /\ KeyOf[index'[k]] = k
                    /\ reader'[index'[k]] \in {"registered", "done", "dropped"}
  BY DEF Indexed
<1>1. IndexStep(k)
  BY IndexSteps
<1>2. CASE index'[k] = index[k]
  <2>1. index[k] \in Readers /\ KeyOf[index[k]] = k
        /\ reader[index[k]] \in {"registered", "done", "dropped"}
    BY <1>2 DEF Indexed, TypeOK
  <2>2. QED
    BY <1>2, <2>1, ReaderSteps DEF ReaderStep
<1>3. ASSUME NEW r \in Readers, Register(r), KeyOf[r] = k, index'[k] = r
      PROVE  reader'[r] = "registered"
  BY <1>3 DEF Register, TypeOK
<1>4. QED
  BY <1>1, <1>2, <1>3 DEF IndexStep

\* A factory starts only where there is nothing to answer with.
LEMMA RefillingStep == TypeOK /\ Stored /\ Refilling /\ [Next]_vars => Refilling'
<1> SUFFICES ASSUME TypeOK, Stored, Refilling, [Next]_vars,
                    NEW k \in Keys, flight'[k] # Nobody
             PROVE  ~ Cached(k)'
  BY DEF Refilling
<1> USE DEF storeVars, readVars, writeVars
<1>1. EntryStep(k)
  BY EntrySteps
<1>2. CASE flight'[k] = flight[k]
  <2>1. ~ Cached(k)
    BY <1>2 DEF Refilling
  <2>2. ASSUME NEW r \in Readers, Store(r), KeyOf[r] = k
        PROVE  FALSE
    BY <2>2 DEF Store, TypeOK
  <2>3. QED
    BY <1>1, <2>1, <2>2 DEF EntryStep, Cached
<1>3. CASE flight'[k] # flight[k]
  <2>1. ASSUME NEW r \in Readers, Join(r)
        PROVE  ~ Cached(k)'
    BY <1>3, <2>1 DEF Join, Cached, TypeOK
  <2>2. ASSUME NEW r \in Readers, FailLoad(r) \/ Store(r) \/ DropRead(r)
        PROVE  FALSE
    BY <1>3, <2>2 DEF FailLoad, Store, DropRead, TypeOK
  <2>3. QED
    BY <1>3, <2>1, <2>2 DEF Next, Read, Write, Get, Load, Register, Commit, TakeTag,
       Invalidate, RemoveId, DropWrite, Expire, Evict, Forget, vars
<1>4. QED
  BY <1>2, <1>3

\* Whatever ends a fill or takes an entry leaves its registration accounted
\* for.
LEMMA TidyStep == Shape /\ [Next]_vars => IndexIsTidy'
<1> SUFFICES ASSUME Shape, [Next]_vars, NEW k \in Keys, index'[k] # Nobody
             PROVE  \/ entry'[k] = index'[k]
                    \/ <<k, index'[k]>> \in removed'
                    \/ flight'[k] = index'[k]
                    \/ index'[k] \in abandoned'
  BY DEF IndexIsTidy
<1> USE DEF Shape
<1>1. IndexStep(k) /\ EntryStep(k) /\ Alone'
  BY IndexSteps, EntrySteps, AloneStep
<1>2. ASSUME NEW r \in Readers, Register(r), KeyOf[r] = k, index'[k] = r
      PROVE  flight'[k] = index'[k]
  <2>1. reader'[r] = "registered"
    BY <1>2 DEF Register, TypeOK
  <2>2. QED
    BY <1>1, <1>2, <2>1 DEF Alone, Runs
<1>3. CASE index'[k] = index[k]
  <2> DEFINE f == index[k]
  <2>1. f \in Readers /\ KeyOf[f] = k /\ reader[f] \in {"registered", "done", "dropped"}
    BY <1>3 DEF Indexed, TypeOK
  <2>2. CASE entry[k] = f
    BY <1>1, <1>3, <2>2 DEF EntryStep
  <2>3. CASE <<k, f>> \in removed
    BY <1>3, <2>1, <2>3, IndexSteps
  <2>4. CASE flight[k] = f
    <3>1. reader[f] = "registered"
      BY <2>1, <2>4, KeysAssumption DEF Alone, Runs
    <3>2. CASE reader'[f] = "registered"
      BY <1>1, <1>3, <2>1, <3>2 DEF Alone, Runs
    <3>3. CASE Store(f)
      BY <1>3, <2>1, <3>3 DEF Store, TypeOK
    <3>4. QED
      BY <1>3, <2>1, <3>1, <3>2, <3>3, ReaderSteps DEF ReaderStep
  <2>5. CASE f \in abandoned
    BY <1>3, <2>1, <2>5, ReaderSteps
  <2>6. QED
    BY <1>3, <2>2, <2>3, <2>4, <2>5 DEF IndexIsTidy
<1>4. QED
  BY <1>1, <1>2, <1>3 DEF IndexStep

\* Entries, registrations, runs and the listener fit together.
THEOREM ShapeInvariant == Spec => []Shape
<1>1. Init => Shape
  BY KeysAssumption DEF Init, Shape, TypeOK, Alone, Runs, Stored, Indexed, Refilling,
     Cached, IndexIsTidy
<1>2. Shape /\ [Next]_vars => Shape'
  BY TypeStep, AloneStep, StoredStep, IndexedStep, RefillingStep, TidyStep DEF Shape
<1>3. QED
  BY <1>1, <1>2, PTL DEF Spec

\* forget_tags, remove_by_tag and dropped fills leave no registration behind
\* that nothing will collect, but those of fills dropped after registering.
THEOREM KeepsIndexTidy == Spec => []IndexIsTidy
<1>1. Shape => IndexIsTidy
  BY DEF Shape
<1>2. QED
  BY <1>1, ShapeInvariant, PTL

-----------------------------------------------------------------------------
(* Invalidation *)

\* The commits an answer may not miss: the last one a finished request
\* invalidated, and those of requests that have taken the tag.
Owed == {invalidated} \cup {mark[w] : w \in {x \in Writers : writer[x] = "dropping"}}

\* What those counters count, and a request holds no registration before it
\* takes the tag.
Clocked ==
    /\ invalidated <= version
    /\ \A w \in Writers : mark[w] <= version
    /\ \A r \in Readers : due[r] <= invalidated
    /\ \A w \in Writers : writer[w] \in {"new", "committed"} => left[w] = {}

\* A removal finds every live entry, and every fill about to be one: it is
\* registered, or some request has the registration, or a removal overtook it.
Owned ==
    /\ \A k \in Keys : Cached(k) =>
          index[k] = entry[k] \/ InHand(k, entry[k]) \/ entry[k] \in overtaken
    /\ \A r \in Readers : reader[r] = "registered" =>
          index[KeyOf[r]] = r \/ r \in overtaken

\* Every live entry, and every fill that has read, shows the commits owed, but
\* for the two exceptions.
Fresh ==
    /\ \A k \in Keys : Cached(k) =>
          \/ entry[k] \in overtaken
          \/ InHand(k, entry[k])
          \/ \A n \in Owed : loaded[entry[k]] >= n
    /\ \A r \in Readers : reader[r] \in {"loaded", "registered"} =>
          r \in overtaken \/ \A n \in Owed : loaded[r] >= n

IInv == Shape /\ Clocked /\ Owned /\ Fresh

\* A commit is counted before it is announced, and announced before it is due.
LEMMA ClockedStep == TypeOK /\ Clocked /\ [Next]_vars => Clocked'
<1> SUFFICES ASSUME TypeOK, Clocked, [Next]_vars
             PROVE  Clocked'
  OBVIOUS
<1> USE DEF storeVars, readVars, writeVars
<1>1. ASSUME NEW r \in Readers, Get(r)
      PROVE  Clocked'
  BY <1>1 DEF Get, TypeOK, Clocked
<1>2. ASSUME NEW w \in Writers, Commit(w)
      PROVE  Clocked'
  BY <1>2 DEF Commit, TypeOK, Clocked
<1>3. ASSUME NEW w \in Writers, TakeTag(w)
      PROVE  Clocked'
  BY <1>3 DEF TakeTag, TypeOK, Clocked
<1>4. ASSUME NEW w \in Writers, Invalidate(w)
      PROVE  Clocked'
  BY <1>4 DEF Invalidate, TypeOK, Clocked
<1>5. ASSUME NEW w \in Writers, RemoveId(w)
      PROVE  Clocked'
  BY <1>5 DEF RemoveId, TypeOK, Clocked
<1>6. ASSUME NEW w \in Writers, DropWrite(w)
      PROVE  Clocked'
  BY <1>6 DEF DropWrite, TypeOK, Clocked
<1>7. CASE UNCHANGED <<writeVars, due>>
  BY <1>7 DEF Clocked
<1>8. QED
  BY <1>1, <1>2, <1>3, <1>4, <1>5, <1>6, <1>7 DEF Next, Read, Write, Join, Load, FailLoad,
     Register, Store, DropRead, Expire, Evict, Forget, vars

\* A request lets go of a registration only by dropping the entry.
LEMMA HandStep ==
    ASSUME TypeOK, Clocked, [Next]_vars, NEW k \in Keys, NEW f \in Readers,
           InHand(k, f), entry'[k] # Nobody
    PROVE  InHand(k, f)'
<1> USE DEF storeVars, readVars, writeVars
<1>1. PICK w \in Writers : <<k, f>> \in left[w]
  BY DEF InHand
<1>2. SUFFICES <<k, f>> \in left'[w]
  BY DEF InHand
<1>3. CASE UNCHANGED left
  BY <1>1, <1>3
<1>4. ASSUME NEW x \in Writers, TakeTag(x)
      PROVE  <<k, f>> \in left'[w]
  <2>1. x # w
    BY <1>1, <1>4 DEF TakeTag, Clocked
  <2>2. QED
    BY <1>1, <1>4, <2>1 DEF TakeTag, TypeOK
<1>5. ASSUME NEW x \in Writers, Invalidate(x)
      PROVE  <<k, f>> \in left'[w]
  <2>1. PICK taken \in left[x] :
          /\ left' = [left EXCEPT ![x] = left[x] \ {taken}]
          /\ entry' = [entry EXCEPT ![taken[1]] = Nobody]
    BY <1>5 DEF Invalidate
  <2>2. taken # <<k, f>>
    BY <2>1 DEF TypeOK
  <2>3. QED
    BY <1>1, <2>1, <2>2 DEF TypeOK
<1>6. QED
  BY <1>3, <1>4, <1>5 DEF Next, Read, Write, Get, Join, Load, FailLoad, Register, Store,
     DropRead, Commit, RemoveId, DropWrite, Expire, Evict, Forget, vars

\* What was overtaken stays so, and a removal overtakes every fill under way.
LEMMA OvertakenStep ==
    ASSUME [Next]_vars
    PROVE  /\ overtaken \subseteq overtaken'
           /\ (\E w \in Writers : TakeTag(w)) =>
                 \A r \in Readers : reader[r] \in {"loaded", "registered"} => r \in overtaken'
<1> USE DEF storeVars, readVars, writeVars
<1>1. ASSUME NEW w \in Writers, TakeTag(w)
      PROVE  /\ overtaken \subseteq overtaken'
             /\ \A r \in Readers : reader[r] \in {"loaded", "registered"} => r \in overtaken'
  BY <1>1 DEF TakeTag
<1>2. ASSUME ~ \E w \in Writers : TakeTag(w)
      PROVE  overtaken' = overtaken
  BY <1>2 DEF Next, Read, Write, Get, Join, Load, FailLoad, Register, Store, DropRead,
     Commit, Invalidate, RemoveId, DropWrite, Expire, Evict, Forget, vars
<1>3. QED
  BY <1>1, <1>2

\* A fill reads the database once, before it registers.
FillStep(r) ==
    /\ loaded'[r] = loaded[r] \/ Load(r)
    /\ reader'[r] = "loaded" => reader[r] = "loaded" \/ Load(r)
    /\ reader'[r] = "registered" => reader[r] = "registered" \/ Register(r)

\* Every step keeps to that for each call.
LEMMA FillSteps ==
    ASSUME TypeOK, [Next]_vars, NEW r \in Readers
    PROVE  FillStep(r)
<1> USE DEF storeVars, readVars, writeVars
<1>1. ASSUME NEW x \in Readers, Get(x)
      PROVE  FillStep(r)
  BY <1>1 DEF Get, Hit, TypeOK, FillStep
<1>2. ASSUME NEW x \in Readers, Join(x)
      PROVE  FillStep(r)
  BY <1>2 DEF Join, Hit, TypeOK, FillStep
<1>3. ASSUME NEW x \in Readers, Load(x)
      PROVE  FillStep(r)
  <2>1. CASE x = r
    BY <1>3, <2>1 DEF Load, TypeOK, FillStep
  <2>2. CASE x # r
    BY <1>3, <2>2 DEF Load, TypeOK, FillStep
  <2>3. QED
    BY <2>1, <2>2
<1>4. ASSUME NEW x \in Readers, FailLoad(x)
      PROVE  FillStep(r)
  BY <1>4 DEF FailLoad, TypeOK, FillStep
<1>5. ASSUME NEW x \in Readers, Register(x)
      PROVE  FillStep(r)
  <2>1. CASE x = r
    BY <1>5, <2>1 DEF Register, TypeOK, FillStep
  <2>2. CASE x # r
    BY <1>5, <2>2 DEF Register, TypeOK, FillStep
  <2>3. QED
    BY <2>1, <2>2
<1>6. ASSUME NEW x \in Readers, Store(x)
      PROVE  FillStep(r)
  BY <1>6 DEF Store, TypeOK, FillStep
<1>7. ASSUME NEW x \in Readers, DropRead(x)
      PROVE  FillStep(r)
  BY <1>7 DEF DropRead, TypeOK, FillStep
<1>8. CASE UNCHANGED <<reader, loaded>>
  BY <1>8 DEF FillStep
<1>9. QED
  BY <1>1, <1>2, <1>3, <1>4, <1>5, <1>6, <1>7, <1>8 DEF Next, Read, Write, Commit, TakeTag,
     Invalidate, RemoveId, DropWrite, Expire, Evict, Forget, vars

\* Every registration a removal does not find is another's, or was overtaken.
LEMMA OwnedStep == Shape /\ Clocked /\ Owned /\ [Next]_vars => Owned'
<1> SUFFICES ASSUME Shape, Clocked, Owned, [Next]_vars
             PROVE  Owned'
  OBVIOUS
<1> USE DEF Shape
<1>1. Nobody \notin Readers /\ KeyOf \in [Readers -> Keys]
  BY KeysAssumption
<1>2. ASSUME NEW k \in Keys, Cached(k)'
      PROVE  index'[k] = entry'[k] \/ InHand(k, entry[k])' \/ entry'[k] \in overtaken'
  <2>1. EntryStep(k) /\ IndexStep(k) /\ overtaken \subseteq overtaken'
    BY EntrySteps, IndexSteps, OvertakenStep
  <2>2. CASE entry'[k] = entry[k] /\ (k \in expired => k \in expired')
    <3> DEFINE f == entry[k]
    <3>1. Cached(k) /\ f \in Readers
      BY <1>2, <2>2 DEF Cached, TypeOK
    <3>2. CASE f \in overtaken
      BY <2>1, <2>2, <3>2
    <3>3. CASE InHand(k, f)
      <4>1. InHand(k, entry[k])'
        BY <2>2, <3>1, <3>3, <1>1, HandStep DEF InHand
      <4>2. QED
        BY <4>1
    <3>4. CASE index[k] = f
      <4>1. CASE index'[k] = index[k]
        BY <2>2, <3>4, <4>1
      <4>2. ASSUME NEW w \in Writers, TakeTag(w)
            PROVE  InHand(k, entry[k])'
        <5>1. <<k, f>> \in left'[w] /\ entry'[k] = f
          BY <1>1, <2>2, <3>1, <3>4, <4>2 DEF TakeTag, TypeOK
        <5>2. QED
          BY <5>1 DEF InHand
      <4>3. ASSUME <<k, index[k]>> \in removed
            PROVE  FALSE
        BY <3>1, <3>4, <4>3 DEF Stored
      <4>4. ASSUME NEW r \in Readers, Register(r), KeyOf[r] = k
            PROVE  FALSE
        BY <1>1, <3>1, <4>4 DEF Register, Alone, Runs, Refilling
      <4>5. QED
        BY <2>1, <4>1, <4>2, <4>3, <4>4 DEF IndexStep
    <3>5. QED
      BY <3>1, <3>2, <3>3, <3>4 DEF Owned
  <2>3. ASSUME NEW r \in Readers, Store(r), KeyOf[r] = k, entry'[k] = r
        PROVE  index'[k] = entry'[k] \/ entry'[k] \in overtaken'
    BY <2>1, <2>3 DEF Store, Owned
  <2>4. QED
    BY <1>2, <2>1, <2>2, <2>3 DEF EntryStep, Cached
<1>3. ASSUME NEW r \in Readers, reader'[r] = "registered"
      PROVE  index'[KeyOf[r]] = r \/ r \in overtaken'
  <2>1. IndexStep(KeyOf[r]) /\ overtaken \subseteq overtaken'
    BY <1>1, IndexSteps, OvertakenStep
  <2>2. CASE Register(r)
    BY <1>1, <2>2 DEF Register, TypeOK
  <2>3. CASE reader[r] = "registered"
    <3>1. CASE r \in overtaken
      BY <2>1, <3>1
    <3>2. CASE index[KeyOf[r]] = r
      <4>1. ASSUME NEW w \in Writers, TakeTag(w)
            PROVE  r \in overtaken'
        BY <2>3, <4>1, OvertakenStep
      <4>2. ASSUME <<KeyOf[r], r>> \in removed
            PROVE  FALSE
        BY <1>1, <2>3, <4>2 DEF Stored
      <4>3. ASSUME NEW x \in Readers, Register(x), KeyOf[x] = KeyOf[r]
            PROVE  FALSE
        BY <2>3, <4>3 DEF Register, Alone, Runs
      <4>4. QED
        BY <2>1, <3>2, <4>1, <4>2, <4>3 DEF IndexStep
    <3>3. QED
      BY <2>3, <3>1, <3>2 DEF Owned
  <2>4. QED
    BY <1>3, <2>2, <2>3, FillSteps DEF FillStep
<1>4. QED
  BY <1>2, <1>3 DEF Owned, InHand

\* Only a request that takes the tag adds to the commits owed.
LEMMA OwedStep ==
    ASSUME TypeOK, Clocked, [Next]_vars, ~ \E w \in Writers : TakeTag(w)
    PROVE  Owed' \subseteq Owed
<1> USE DEF storeVars, readVars, writeVars
<1>1. ASSUME NEW w \in Writers, Commit(w)
      PROVE  Owed' \subseteq Owed
  <2>1. invalidated' = invalidated
    BY <1>1 DEF Commit
  <2>2. \A x \in Writers : writer'[x] = "dropping" =>
           writer[x] = "dropping" /\ mark'[x] = mark[x]
    BY <1>1 DEF Commit, TypeOK
  <2>3. QED
    BY <2>1, <2>2 DEF Owed
<1>2. ASSUME NEW w \in Writers, RemoveId(w)
      PROVE  Owed' \subseteq Owed
  <2>1. mark[w] \in Owed /\ invalidated \in Owed
    BY <1>2 DEF RemoveId, Owed
  <2>2. invalidated' \in Owed /\ mark' = mark
    BY <1>2, <2>1 DEF RemoveId
  <2>3. \A x \in Writers : writer'[x] = "dropping" => writer[x] = "dropping"
    BY <1>2 DEF RemoveId, TypeOK
  <2>4. QED
    BY <2>2, <2>3 DEF Owed
<1>3. ASSUME NEW w \in Writers, DropWrite(w)
      PROVE  Owed' \subseteq Owed
  BY <1>3 DEF DropWrite, TypeOK, Owed
<1>4. CASE UNCHANGED <<invalidated, mark, writer>>
  BY <1>4 DEF Owed
<1>5. QED
  BY <1>1, <1>2, <1>3, <1>4 DEF Next, Read, Write, Get, Join, Load, FailLoad, Register,
     Store, DropRead, Invalidate, Expire, Evict, Forget, vars

\* Nothing is owed beyond the last commit.
LEMMA OwedBound == Clocked => \A n \in Owed : n <= version
BY DEF Clocked, Owed

\* A removal leaves no live entry behind but the ones it or another request
\* will drop, and those it overtook; whatever else lives on owes no more.
LEMMA FreshStep == IInv /\ [Next]_vars => Fresh'
<1> SUFFICES ASSUME Shape, Clocked, Owned, Fresh, [Next]_vars
             PROVE  Fresh'
  BY DEF IInv
<1> USE DEF Shape
<1>1. Owned' /\ Clocked' /\ overtaken \subseteq overtaken'
  BY OwnedStep, ClockedStep, OvertakenStep
<1>2. ASSUME NEW r \in Readers, reader'[r] \in {"loaded", "registered"}
      PROVE  r \in overtaken' \/ \A n \in Owed' : loaded'[r] >= n
  <2>1. CASE Load(r)
    <3>1. loaded'[r] = version /\ Owed' = Owed
      BY <2>1 DEF Load, writeVars, Owed, TypeOK
    <3>2. QED
      BY <3>1, OwedBound DEF TypeOK, Clocked, Owed
  <2>2. CASE reader[r] \in {"loaded", "registered"} /\ ~ Load(r)
    <3>1. loaded'[r] = loaded[r]
      BY <2>2, FillSteps DEF FillStep
    <3>2. CASE \E w \in Writers : TakeTag(w)
      BY <2>2, <3>2, OvertakenStep
    <3>3. CASE ~ \E w \in Writers : TakeTag(w)
      BY <1>1, <2>2, <3>1, <3>3, OwedStep DEF Fresh
    <3>4. QED
      BY <3>2, <3>3
  <2>3. Register(r) => reader[r] = "loaded"
    BY DEF Register
  <2>4. QED
    BY <1>2, <2>1, <2>2, <2>3, FillSteps DEF FillStep
<1>3. ASSUME NEW k \in Keys, Cached(k)'
      PROVE  \/ entry'[k] \in overtaken'
             \/ InHand(k, entry[k])'
             \/ \A n \in Owed' : loaded'[entry'[k]] >= n
  <2>1. EntryStep(k)
    BY EntrySteps
  <2>2. CASE entry'[k] = entry[k] /\ (k \in expired => k \in expired')
    <3>1. Cached(k) /\ entry[k] \in Readers /\ reader[entry[k]] = "done"
      BY <1>3, <2>2 DEF Cached, TypeOK, Stored
    <3>2. loaded'[entry[k]] = loaded[entry[k]]
      BY <3>1, FillSteps DEF FillStep, Load
    <3>3. CASE entry[k] \in overtaken
      BY <1>1, <2>2, <3>3
    <3>4. CASE InHand(k, entry[k])
      <4>1. InHand(k, entry[k])'
        BY <2>2, <3>1, <3>4, KeysAssumption, HandStep DEF InHand
      <4>2. QED
        BY <4>1
    <3>5. ASSUME NEW w \in Writers, TakeTag(w)
          PROVE  entry'[k] \in overtaken' \/ InHand(k, entry[k])'
      <4>1. index'[k] # entry'[k]
        BY <2>2, <3>1, <3>5, KeysAssumption DEF TakeTag
      <4>2. QED
        BY <1>1, <1>3, <4>1 DEF Owned
    <3>6. CASE ~ (\E w \in Writers : TakeTag(w)) /\ \A n \in Owed : loaded[entry[k]] >= n
      BY <2>2, <3>2, <3>6, OwedStep
    <3>7. QED
      BY <3>1, <3>3, <3>4, <3>5, <3>6 DEF Fresh
  <2>3. ASSUME NEW r \in Readers, Store(r), entry'[k] = r
        PROVE  entry'[k] \in overtaken' \/ \A n \in Owed' : loaded'[entry'[k]] >= n
    <3>1. reader[r] = "registered" /\ loaded' = loaded /\ Owed' = Owed
      BY <2>3 DEF Store, writeVars, Owed
    <3>2. QED
      BY <1>1, <2>3, <3>1 DEF Fresh
  <2>4. QED
    BY <1>3, <2>1, <2>2, <2>3 DEF EntryStep, Cached
<1>4. QED
  BY <1>2, <1>3 DEF Fresh, InHand

\* The whole invariant.
THEOREM InductiveInvariant == Spec => []IInv
<1>1. Init => Clocked /\ Owned /\ Fresh
  BY KeysAssumption DEF Init, Clocked, Owned, Fresh, Owed, Cached
<1>2. Shape /\ Clocked /\ Owned /\ Fresh /\ Shape' /\ [Next]_vars
         => Clocked' /\ Owned' /\ Fresh'
  BY ClockedStep, OwnedStep, FreshStep DEF IInv, Shape
<1>3. QED
  BY <1>1, <1>2, ShapeInvariant, PTL DEF IInv, Spec

\* An answer shows every invalidation before its call, or is one of the two
\* exceptions.
Answers(r) ==
    LET f == answer'[r]
    IN  f # answer[r] =>
          \/ loaded[f] >= due'[r]
          \/ f \in overtaken
          \/ InHand(KeyOf[r], f)

\* What the cache holds live may be answered with.
LEMMA HitAnswers ==
    ASSUME IInv, NEW r \in Readers, Hit(r), due'[r] <= invalidated, due'[r] \in Nat
    PROVE  Answers(r)
<1>1. KeyOf[r] \in Keys /\ Cached(KeyOf[r]) /\ answer'[r] = entry[KeyOf[r]]
  BY KeysAssumption DEF Hit, IInv, Shape, TypeOK
<1>2. entry[KeyOf[r]] \in Readers
  BY <1>1 DEF Cached, IInv, Shape, TypeOK
<1>3. CASE \A n \in Owed : loaded[entry[KeyOf[r]]] >= n
  <2>1. loaded[entry[KeyOf[r]]] >= invalidated
    BY <1>3 DEF Owed
  <2>2. loaded[entry[KeyOf[r]]] \in Nat /\ invalidated \in Nat
    BY <1>2 DEF IInv, Shape, TypeOK
  <2>3. QED
    BY <1>1, <2>1, <2>2 DEF Answers
<1>4. QED
  BY <1>1, <1>3 DEF Answers, IInv, Fresh

\* Every step answers so.
LEMMA AnswerSteps == IInv /\ [Next]_vars => \A r \in Readers : Answers(r)
<1> SUFFICES ASSUME IInv, [Next]_vars, NEW r \in Readers
             PROVE  Answers(r)
  OBVIOUS
<1> USE DEF storeVars, readVars, writeVars
<1>1. TypeOK /\ Clocked /\ Fresh
  BY DEF IInv, Shape
<1>2. ASSUME NEW x \in Readers, Get(x)
      PROVE  Answers(r)
  <2>1. CASE x = r /\ Hit(r)
    BY <1>1, <1>2, <2>1, HitAnswers DEF Get, TypeOK
  <2>2. CASE ~ (x = r /\ Hit(r))
    <3>1. answer'[r] = answer[r]
      BY <1>1, <1>2, <2>2 DEF Get, Hit, TypeOK
    <3>2. QED
      BY <3>1 DEF Answers
  <2>3. QED
    BY <2>1, <2>2
<1>3. ASSUME NEW x \in Readers, Join(x)
      PROVE  Answers(r)
  <2>1. CASE x = r /\ Hit(r)
    BY <1>1, <1>3, <2>1, HitAnswers DEF Join, TypeOK, Clocked
  <2>2. CASE ~ (x = r /\ Hit(r))
    <3>1. answer'[r] = answer[r]
      BY <1>1, <1>3, <2>2 DEF Join, Hit, TypeOK
    <3>2. QED
      BY <3>1 DEF Answers
  <2>3. QED
    BY <2>1, <2>2
<1>4. ASSUME NEW x \in Readers, Store(x)
      PROVE  Answers(r)
  <2>1. /\ reader[x] = "registered" /\ due' = due
        /\ answer'[r] = answer[r] \/ answer'[r] = x
    BY <1>1, <1>4 DEF Store, TypeOK
  <2>2. CASE \A n \in Owed : loaded[x] >= n
    <3>1. loaded[x] >= invalidated /\ due[r] <= invalidated
      BY <1>1, <2>2 DEF Owed, Clocked
    <3>2. loaded[x] >= due[r]
      BY <1>1, <3>1 DEF TypeOK
    <3>3. QED
      BY <2>1, <3>2 DEF Answers
  <2>3. QED
    BY <1>1, <2>1, <2>2 DEF Fresh, Answers
<1>5. CASE UNCHANGED answer
  BY <1>5 DEF Answers
<1>6. QED
  BY <1>2, <1>3, <1>4, <1>5 DEF Next, Read, Write, Load, FailLoad, Register, DropRead,
     Commit, TakeTag, Invalidate, RemoveId, DropWrite, Expire, Evict, Forget, vars

\* remove_by_tag keeps its promise to readers: whoever calls after a request
\* has invalidated sees its commit, but for a fill the removal overtook and an
\* entry whose registration another request took and has not dropped.
THEOREM FollowsInvalidation == Spec => ReadsFollowInvalidation
<1>1. IInv /\ [Next]_vars => [\A r \in Readers : Answers(r)]_answer
  BY AnswerSteps
<1>2. QED
  BY <1>1, InductiveInvariant, PTL DEF Spec, ReadsFollowInvalidation, Answers

-----------------------------------------------------------------------------
(* Cached answers *)

\* A query reads the tables its entity is invalidated for, and others only
\* that never change.
LEMMA QueryFrame ==
    ASSUME NEW k \in ReadKeys,
           k.entity = "genre" => UNCHANGED genre,
           k.entity = "invoice" => UNCHANGED invoice
    PROVE  Query(k)' = Query(k)
<1>1. CASE k.entity = "genre"
  BY <1>1, ReadKeysAssumption DEF Query, GetGenreById, GetAllGenres
<1>2. CASE k.entity = "invoice"
  BY <1>2, ReadKeysAssumption DEF Query, GetInvoiceById, GetAllInvoices,
                                  GetInvoicesByCustomerId
<1>3. CASE k.entity \in {"album", "artist", "track"}
  BY <1>3, ReadKeysAssumption DEF Query
<1>4. CASE k.entity \in {"playlist", "customer", "employee", "mediatype", "invoiceline"}
  BY <1>4, ReadKeysAssumption DEF Query
<1>5. QED
  BY <1>1, <1>2, <1>3, <1>4, ReadKeysAssumption

\* The cache holds current answers to the reads that are made.
Current ==
    /\ DOMAIN cache \subseteq ReadKeys
    /\ CachedReadsAreCurrent

\* What an invalidation leaves in the cache is what it was, of other entities.
LEMMA WithoutEntity ==
    ASSUME Current, NEW entity, NEW id, cache' = Without(Invalidated(entity, id)),
           NEW k \in DOMAIN cache'
    PROVE  k \in DOMAIN cache /\ cache'[k] = cache[k] /\ k.entity # entity
BY DEF Without, Invalidated, Current

\* A write drops every answer of the one entity whose table it changes.
LEMMA CurrentStep == Current /\ [RecordsNext]_recordsVars => Current'
<1> SUFFICES ASSUME Current, [RecordsNext]_recordsVars
             PROVE  Current'
  OBVIOUS
<1> USE DEF tableVars
<1>1. ASSUME NEW entity \in {"genre", "invoice"}, NEW id,
             cache' = Without(Invalidated(entity, id)),
             entity # "genre" => UNCHANGED genre,
             entity # "invoice" => UNCHANGED invoice
      PROVE  Current'
  <2> SUFFICES ASSUME NEW k \in DOMAIN cache'
               PROVE  k \in ReadKeys /\ cache'[k] = Query(k)'
    BY DEF Current, CachedReadsAreCurrent
  <2>1. k \in DOMAIN cache /\ cache'[k] = cache[k] /\ k.entity # entity
    BY <1>1, WithoutEntity
  <2>2. k \in ReadKeys /\ cache[k] = Query(k)
    BY <2>1 DEF Current, CachedReadsAreCurrent
  <2>3. Query(k)' = Query(k)
    BY <1>1, <2>1, <2>2, QueryFrame
  <2>4. QED
    BY <2>1, <2>2, <2>3
<1>2. ASSUME NEW x \in ReadKeys, Fetch(x)
      PROVE  Current'
  <2> SUFFICES ASSUME NEW k \in DOMAIN cache'
               PROVE  k \in ReadKeys /\ cache'[k] = Query(k)'
    BY DEF Current, CachedReadsAreCurrent
  <2>1. k \in ReadKeys /\ cache'[k] = Query(k)
    BY <1>2 DEF Fetch, Current, CachedReadsAreCurrent
  <2>2. QED
    BY <1>2, <2>1, QueryFrame DEF Fetch
<1>3. ASSUME NEW x \in ReadKeys, Lapse(x)
      PROVE  Current'
  BY <1>3, QueryFrame DEF Lapse, Without, Current, CachedReadsAreCurrent
<1>4. CASE UNCHANGED <<genre, invoice, cache>>
  BY <1>4, QueryFrame DEF Current, CachedReadsAreCurrent
<1>5. ASSUME NEW name \in Names, CreateGenre(name)
      PROVE  Current'
  BY <1>1, <1>5 DEF CreateGenre
<1>6. ASSUME NEW id \in 1..MaxGenres, NEW name \in Names, UpdateGenre(id, name)
      PROVE  Current'
  BY <1>1, <1>6 DEF UpdateGenre
<1>7. ASSUME NEW id \in 1..MaxGenres, DeleteGenre(id)
      PROVE  Current'
  BY <1>1, <1>7 DEF DeleteGenre
<1>8. ASSUME NEW id, FinalizeInvoice(id)
      PROVE  Current'
  BY <1>1, <1>8 DEF FinalizeInvoice
<1>9. ASSUME NEW p, Handle(p)
      PROVE  Current'
  BY <1>4, <1>9 DEF Handle
<1>10. QED
  BY <1>2, <1>3, <1>4, <1>5, <1>6, <1>7, <1>8, <1>9 DEF RecordsNext, recordsVars

\* Every write of the services invalidates every cached answer it makes untrue.
THEOREM CachesCurrentAnswers == RecordsSpec => []CachedReadsAreCurrent
<1>1. RecordsInit => Current
  BY DEF RecordsInit, Current, CachedReadsAreCurrent
<1>2. Current => CachedReadsAreCurrent
  BY DEF Current
<1>3. QED
  BY <1>1, <1>2, CurrentStep, PTL DEF RecordsSpec

-----------------------------------------------------------------------------
(* Invoices in heap order *)

\* A table of any number of rows has finitely many.
LEMMA RangeFinite ==
    ASSUME NEW S, NEW s \in Seq(S)
    PROVE  IsFiniteSet(Range(s))
<1>1. IsFiniteSet(1..Len(s)) /\ DOMAIN s = 1..Len(s)
  BY FS_Interval
<1>2. s \in Surjection(1..Len(s), Range(s))
  BY <1>1 DEF Surjection, Range
<1>3. QED
  BY <1>1, <1>2, FS_Surjection

\* A row taken out: those behind it move up.
LEMMA RemovedAt ==
    ASSUME NEW S, NEW s \in Seq(S), NEW n \in DOMAIN s
    PROVE  /\ RemoveAt(s, n) \in Seq(S) /\ Len(RemoveAt(s, n)) = Len(s) - 1
           /\ \A m \in 1..Len(s) - 1 : RemoveAt(s, n)[m] = IF m < n THEN s[m] ELSE s[m + 1]
<1> DEFINE a == SubSeq(s, 1, n - 1)
           b == SubSeq(s, n + 1, Len(s))
<1>1. n \in 1..Len(s) /\ Len(s) \in Nat
  OBVIOUS
<1>2. a \in Seq(S) /\ Len(a) = n - 1 /\ \A m \in 1..n - 1 : a[m] = s[m]
  BY <1>1
<1>3. b \in Seq(S) /\ Len(b) = Len(s) - n /\ \A m \in 1..Len(s) - n : b[m] = s[n + m]
  BY <1>1
<1> HIDE DEF a, b
<1>4. /\ a \o b \in Seq(S) /\ Len(a \o b) = Len(s) - 1
      /\ \A m \in 1..Len(s) - 1 : (a \o b)[m] = IF m <= n - 1 THEN a[m] ELSE b[m - (n - 1)]
  <2>1. /\ a \o b \in Seq(S) /\ Len(a \o b) = Len(a) + Len(b)
        /\ \A m \in 1..Len(a) + Len(b) :
              (a \o b)[m] = IF m <= Len(a) THEN a[m] ELSE b[m - Len(a)]
    BY <1>2, <1>3
  <2>2. Len(a) + Len(b) = Len(s) - 1
    BY <1>1, <1>2, <1>3
  <2>3. QED
    BY <1>2, <2>1, <2>2
<1>5. \A m \in 1..Len(s) - 1 : (a \o b)[m] = IF m < n THEN s[m] ELSE s[m + 1]
  <2> SUFFICES ASSUME NEW m \in 1..Len(s) - 1
               PROVE  (a \o b)[m] = IF m < n THEN s[m] ELSE s[m + 1]
    OBVIOUS
  <2>1. CASE m < n
    <3>1. m \in 1..n - 1 /\ m <= n - 1
      BY <2>1, <1>1
    <3>2. QED
      BY <2>1, <3>1, <1>2, <1>4
  <2>2. CASE ~(m < n)
    <3>1. m - (n - 1) \in 1..Len(s) - n /\ n + (m - (n - 1)) = m + 1 /\ ~(m <= n - 1)
      BY <2>2, <1>1
    <3>2. QED
      BY <2>2, <3>1, <1>3, <1>4
  <2>3. QED
    BY <2>1, <2>2
<1>6. QED
  BY <1>4, <1>5 DEF RemoveAt, a, b

\* A row put in: those from its place on move down.
LEMMA InsertedAt ==
    ASSUME NEW S, NEW s \in Seq(S), NEW place \in 1..Len(s) + 1, NEW e \in S
    PROVE  /\ InsertAt(s, place, e) \in Seq(S) /\ Len(InsertAt(s, place, e)) = Len(s) + 1
           /\ InsertAt(s, place, e)[place] = e
           /\ \A m \in 1..place - 1 : InsertAt(s, place, e)[m] = s[m]
           /\ \A m \in place..Len(s) : InsertAt(s, place, e)[m + 1] = s[m]
<1> DEFINE a == SubSeq(s, 1, place - 1)
           b == SubSeq(s, place, Len(s))
           c == a \o <<e>>
<1>1. Len(s) \in Nat /\ DOMAIN s = 1..Len(s)
  OBVIOUS
<1>2. a \in Seq(S) /\ Len(a) = place - 1 /\ \A m \in 1..place - 1 : a[m] = s[m]
  BY <1>1
<1>3. b \in Seq(S) /\ Len(b) = Len(s) + 1 - place
      /\ \A m \in 1..Len(s) + 1 - place : b[m] = s[place + m - 1]
  BY <1>1
<1>4. <<e>> \in Seq(S) /\ Len(<<e>>) = 1 /\ <<e>>[1] = e
  OBVIOUS
<1> HIDE DEF a, b
<1>5. /\ c \in Seq(S) /\ Len(c) = place
      /\ \A m \in 1..place - 1 : c[m] = s[m]
      /\ c[place] = e
  BY <1>1, <1>2, <1>4
<1> HIDE DEF c
<1>6. /\ c \o b \in Seq(S) /\ Len(c \o b) = Len(s) + 1
      /\ \A m \in 1..Len(s) + 1 : (c \o b)[m] = IF m <= place THEN c[m] ELSE b[m - place]
  <2>1. /\ c \o b \in Seq(S) /\ Len(c \o b) = Len(c) + Len(b)
        /\ \A m \in 1..Len(c) + Len(b) :
              (c \o b)[m] = IF m <= Len(c) THEN c[m] ELSE b[m - Len(c)]
    BY <1>3, <1>5
  <2>2. Len(c) + Len(b) = Len(s) + 1
    BY <1>1, <1>3, <1>5
  <2>3. QED
    BY <1>5, <2>1, <2>2
<1>7. ASSUME NEW m \in place..Len(s)
      PROVE  (c \o b)[m + 1] = s[m]
  <2>1. /\ m + 1 - place \in 1..Len(s) + 1 - place /\ place + (m + 1 - place) - 1 = m
        /\ m + 1 \in 1..Len(s) + 1 /\ ~(m + 1 <= place)
    BY <1>1
  <2>2. QED
    BY <2>1, <1>3, <1>6
<1>8. (c \o b)[place] = e /\ \A m \in 1..place - 1 : (c \o b)[m] = s[m]
  BY <1>1, <1>5, <1>6
<1>9. QED
  BY <1>6, <1>7, <1>8 DEF InsertAt, a, b, c

\* Where the row at m comes from when the one at n is written at place, and
\* where the one at m goes.
From(m, n, place) == IF m < place THEN IF m < n THEN m ELSE m + 1
                     ELSE IF m - 1 < n THEN m - 1 ELSE m
To(m, n, place) == LET k == IF m < n THEN m ELSE m - 1 IN IF k < place THEN k ELSE k + 1

\* An UPDATE moves the rows between the two places, and no other.
LEMMA RewrittenAt ==
    ASSUME NEW S, NEW s \in Seq(S), NEW n \in DOMAIN s, NEW place \in DOMAIN s, NEW e \in S
    PROVE  LET t == Rewritten(s, n, place, e)
           IN  /\ t \in Seq(S) /\ DOMAIN t = DOMAIN s
               /\ t[place] = e
               /\ \A m \in DOMAIN s : m # place => /\ From(m, n, place) \in DOMAIN s
                                                  /\ From(m, n, place) # n
                                                  /\ t[m] = s[From(m, n, place)]
<1> DEFINE r == RemoveAt(s, n)
           t == InsertAt(r, place, e)
<1>1. /\ r \in Seq(S) /\ Len(r) = Len(s) - 1
      /\ \A m \in 1..Len(s) - 1 : r[m] = IF m < n THEN s[m] ELSE s[m + 1]
  BY RemovedAt
<1>2. Len(s) \in Nat /\ DOMAIN s = 1..Len(s)
  OBVIOUS
<1>3. place \in 1..Len(r) + 1
  BY <1>1, <1>2
<1>4. /\ t \in Seq(S) /\ Len(t) = Len(s) /\ DOMAIN t = DOMAIN s
      /\ t[place] = e
      /\ \A m \in 1..place - 1 : t[m] = r[m]
      /\ \A m \in place..Len(s) - 1 : t[m + 1] = r[m]
  <2> HIDE DEF r
  <2>1. r \in Seq(S)
    BY <1>1
  <2>2. t \in Seq(S) /\ Len(t) = Len(r) + 1
    BY <2>1, <1>3, InsertedAt
  <2>3. t[place] = e
    BY <2>1, <1>3, InsertedAt
  <2>4. \A m \in 1..place - 1 : t[m] = r[m]
    BY <2>1, <1>3, InsertedAt
  <2>5. \A m \in place..Len(r) : t[m + 1] = r[m]
    BY <2>1, <1>3, InsertedAt
  <2> HIDE DEF t
  <2>6. QED
    BY <2>2, <2>3, <2>4, <2>5, <1>1, <1>2
<1> HIDE DEF r, t
<1>5. /\ t[place] = e
      /\ \A m \in DOMAIN s : m # place => /\ From(m, n, place) \in DOMAIN s
                                         /\ From(m, n, place) # n
                                         /\ t[m] = s[From(m, n, place)]
  <2>1. t[place] = e
    BY <1>2, <1>4
  <2>2. ASSUME NEW m \in DOMAIN s, m # place
        PROVE  /\ From(m, n, place) \in DOMAIN s /\ From(m, n, place) # n
               /\ t[m] = s[From(m, n, place)]
    <3>1. CASE m < place
      <4>1. m \in 1..place - 1 /\ m \in 1..Len(s) - 1
        BY <1>2, <3>1
      <4>2. QED
        BY <1>1, <1>2, <1>4, <3>1, <4>1 DEF From
    <3>2. CASE m > place
      <4>1. m - 1 \in place..Len(s) - 1 /\ m - 1 \in 1..Len(s) - 1 /\ m - 1 + 1 = m
        BY <1>2, <3>2
      <4>2. QED
        BY <1>1, <1>2, <1>4, <3>2, <4>1 DEF From
    <3>3. QED
      <4>1. m < place \/ m > place
        BY <2>2, <1>2
      <4>2. QED
        BY <3>1, <3>2, <4>1, Zenon
  <2>3. QED
    BY <2>1, <2>2
<1>6. QED
  BY <1>4, <1>5 DEF Rewritten, r, t

\* An UPDATE that keeps the primary key takes the old row out of the table
\* and the new one in.
LEMMA RewrittenRows ==
    ASSUME NEW S, NEW s \in Seq(S), UniqueIds(s), NEW n \in DOMAIN s, NEW place \in DOMAIN s,
           NEW e \in S, e.id = s[n].id
    PROVE  /\ Rewritten(s, n, place, e) \in Seq(S)
           /\ UniqueIds(Rewritten(s, n, place, e))
           /\ Range(Rewritten(s, n, place, e)) = (Range(s) \ {s[n]}) \cup {e}
<1> DEFINE t == Rewritten(s, n, place, e)
           f(m) == From(m, n, place)
           g(m) == To(m, n, place)
<1>4. t \in Seq(S) /\ DOMAIN t = DOMAIN s
  BY RewrittenAt
<1>5. /\ t[place] = e
      /\ \A m \in DOMAIN s : m # place => f(m) \in DOMAIN s /\ f(m) # n /\ t[m] = s[f(m)]
  BY RewrittenAt
<1>2. Len(s) \in Nat /\ DOMAIN s = 1..Len(s)
  OBVIOUS
<1>6. \A m \in DOMAIN s : m # n => g(m) \in DOMAIN s /\ g(m) # place /\ f(g(m)) = m
  BY <1>2 DEF From, To
<1>7. \A m, k \in DOMAIN s : m # place /\ k # place /\ f(m) = f(k) => m = k
  BY <1>2 DEF From
<1> HIDE DEF f, g, t
<1>8. UniqueIds(t)
  <2> SUFFICES ASSUME NEW m \in DOMAIN s, NEW k \in DOMAIN s, t[m].id = t[k].id
               PROVE  m = k
    BY <1>4 DEF UniqueIds
  <2>1. CASE m # place /\ k # place
    <3>1. f(m) = f(k)
      BY <2>1, <1>5 DEF UniqueIds
    <3>2. QED
      BY <2>1, <3>1, <1>7
  <2>2. CASE m = place /\ k # place
    BY <2>2, <1>5 DEF UniqueIds
  <2>3. CASE m # place /\ k = place
    BY <2>3, <1>5 DEF UniqueIds
  <2>4. QED
    BY <2>1, <2>2, <2>3
<1>9. Range(t) = (Range(s) \ {s[n]}) \cup {e}
  <2>1. ASSUME NEW x \in Range(t)
        PROVE  x \in (Range(s) \ {s[n]}) \cup {e}
    <3>1. PICK m \in DOMAIN s : t[m] = x
      BY <1>4 DEF Range
    <3>2. CASE m # place
      <4>1. x = s[f(m)] /\ f(m) \in DOMAIN s /\ f(m) # n
        BY <3>1, <3>2, <1>5
      <4>2. x # s[n]
        BY <4>1 DEF UniqueIds
      <4>3. QED
        BY <4>1, <4>2 DEF Range
    <3>3. QED
      BY <3>1, <3>2, <1>5
  <2>2. ASSUME NEW x \in Range(s), x # s[n]
        PROVE  x \in Range(t)
    <3>1. PICK m \in DOMAIN s : s[m] = x
      BY DEF Range
    <3>2. m # n
      BY <3>1, <2>2
    <3>3. t[g(m)] = x /\ g(m) \in DOMAIN t
      BY <3>1, <3>2, <1>4, <1>5, <1>6
    <3>4. QED
      BY <3>3 DEF Range
  <2>3. e \in Range(t)
    BY <1>4, <1>5 DEF Range
  <2>4. QED
    BY <2>1, <2>2, <2>3
<1>10. QED
  BY <1>4, <1>8, <1>9 DEF t

-----------------------------------------------------------------------------
(* Counters *)

\* An invoice that is not finalized is as it was seeded.
InvoicesAsSeeded ==
    /\ invoice \in Seq(InvoiceRow) /\ UniqueIds(invoice)
    /\ \A i \in Range(invoice) : i.status = "Finalized" \/ i \in Range(SeededInvoice)

\* An event is a finalized invoice's.
EventsAreFinalized ==
    /\ IsFiniteSet(pending)
    /\ pending \subseteq [event : {EventOf(i) : i \in Finalized},
                          handler : {"catalog", "administration"}]

\* What is counted is counted in integers.
CountersTyped ==
    /\ \A c \in DOMAIN summary : summary[c].spent \in Int
    /\ \A t \in DOMAIN sales : sales[t].times \in Int

\* The two halves of CountersAddUp, of whatever is not null.
SpentIs(c) ==
    PurchasesOf(c).spent + Outstanding("administration", LAMBDA e : Paid(c, e))
      = Total(Finalized, LAMBDA i : Paid(c, i))

SoldIs(t) ==
    SalesOf(t).times + Outstanding("catalog", LAMBDA e : Units(e.lines, t))
      = Total(Finalized, LAMBDA i : Units(LinesOf(i.id), t))

\* The inductive invariant.
Books ==
    /\ InvoicesAsSeeded /\ EventsAreFinalized /\ CountersTyped
    /\ \A c \in Int : SpentIs(c)
    /\ \A t \in Int : SoldIs(t)

\* A finite number of rows, each of integers or null, adds up to an integer.
LEMMA UnitsType ==
    ASSUME NEW lines, lines \subseteq Range(InvoiceLine), NEW t
    PROVE  Units(lines, t) \in Int
<1> DEFINE mine == {l \in lines : l.track = t}
           f == [l \in mine |-> Quantity(l)]
<1>1. IsFiniteSet(Range(InvoiceLine))
  BY SeedAssumption, RangeFinite
<1>2. IsFiniteSet(mine)
  BY <1>1, FS_Subset
<1>3. \A l \in mine : f[l] \in Int
  <2>1. InvoiceLine \in Seq(LineRow)
    BY SeedAssumption DEF LineRow
  <2>2. \A l \in Range(InvoiceLine) : l \in LineRow
    BY <2>1 DEF Range
  <2>3. \A l \in LineRow : Quantity(l) \in Int
    BY DEF LineRow, Quantity
  <2>4. QED
    BY <2>2, <2>3
<1> HIDE DEF f
<1>4. SumOf(f, mine) \in Int
  BY <1>2, <1>3, SumType
<1>5. QED
  BY <1>4 DEF Units, Total, f

\* An event says of a track what the invoice's lines do.
LEMMA EventUnits ==
    ASSUME NEW i, NEW t \in Int
    PROVE  /\ EventOf(i).invoice = i.id
           /\ \A c : Paid(c, EventOf(i)) = Paid(c, i)
           /\ EventOf(i).lines \subseteq Range(InvoiceLine)
           /\ Units(EventOf(i).lines, t) = Units(LinesOf(i.id), t)
<1>1. EventOf(i).lines = {l \in LinesOf(i.id) : l.track # Null}
  BY DEF EventOf
<1>2. {l \in EventOf(i).lines : l.track = t} = {l \in LinesOf(i.id) : l.track = t}
  BY <1>1, RecordsAssumption
<1>3. QED
  BY <1>1, <1>2 DEF EventOf, Paid, LinesOf, Units

\* Rows of invoices are finitely many, and so are the finalized ones; each has
\* paid and sold an integer.
LEMMA FinalizedFinite ==
    ASSUME InvoicesAsSeeded
    PROVE  /\ IsFiniteSet(Finalized) /\ Finalized \subseteq Range(invoice)
           /\ \A i \in Range(invoice) : i \in InvoiceRow
           /\ \A i \in Range(invoice) : \A c : Paid(c, i) \in Int
<1>1. IsFiniteSet(Range(invoice)) /\ \A i \in Range(invoice) : i \in InvoiceRow
  BY RangeFinite DEF InvoicesAsSeeded, Range
<1>2. Finalized \subseteq Range(invoice)
  BY DEF Finalized
<1>3. \A i \in InvoiceRow : \A c : Paid(c, i) \in Int
  BY DEF InvoiceRow, Paid
<1>4. QED
  BY <1>1, <1>2, <1>3, FS_Subset

\* The events a handler has still to apply, and what each adds for a customer
\* or a track; the finalized invoices, and what each adds.
For(h) == {p \in pending : p.handler = h}
SpentDue(c)  == [p \in For("administration") |-> Paid(c, p.event)]
SpentDone(c) == [i \in Finalized |-> Paid(c, i)]
SoldDue(t)   == [p \in For("catalog") |-> Units(p.event.lines, t)]
SoldDone(t)  == [i \in Finalized |-> Units(LinesOf(i.id), t)]

\* The equations, told of the sums themselves.
LEMMA SpentSums ==
    ASSUME NEW c
    PROVE  SpentIs(c) <=> PurchasesOf(c).spent + SumOf(SpentDue(c), For("administration"))
                            = SumOf(SpentDone(c), Finalized)
BY DEF SpentIs, Outstanding, Total, For, SpentDue, SpentDone

\* So of a track's.
LEMMA SoldSums ==
    ASSUME NEW t
    PROVE  SoldIs(t) <=> SalesOf(t).times + SumOf(SoldDue(t), For("catalog"))
                           = SumOf(SoldDone(t), Finalized)
BY DEF SoldIs, Outstanding, Total, For, SoldDue, SoldDone

\* What is due is an integer of each of finitely many events.
LEMMA DueTyped ==
    ASSUME InvoicesAsSeeded, EventsAreFinalized, NEW h
    PROVE  /\ IsFiniteSet(For(h)) /\ IsFiniteSet(Finalized)
           /\ \A p \in pending : /\ \A c : Paid(c, p.event) \in Int
                                 /\ \A t \in Int : Units(p.event.lines, t) \in Int
           /\ \A i \in Finalized : /\ \A c : Paid(c, i) \in Int
                                   /\ \A t \in Int : Units(LinesOf(i.id), t) \in Int
<1>1. IsFiniteSet(For(h))
  BY FS_Subset DEF For, EventsAreFinalized
<1>2. ASSUME NEW i \in Finalized
      PROVE  /\ \A c : Paid(c, i) \in Int
             /\ \A t \in Int : Units(LinesOf(i.id), t) \in Int
  BY FinalizedFinite, UnitsType DEF LinesOf
<1>3. ASSUME NEW p \in pending
      PROVE  /\ \A c : Paid(c, p.event) \in Int
             /\ \A t \in Int : Units(p.event.lines, t) \in Int
  <2>1. PICK i \in Finalized : p.event = EventOf(i)
    BY DEF EventsAreFinalized
  <2>2. QED
    BY <2>1, <1>2, EventUnits
<1>4. QED
  BY <1>1, <1>2, <1>3, FinalizedFinite

\* A finalized row is the row but for its status.
LEMMA FinalizedRow ==
    ASSUME NEW old \in InvoiceRow
    PROVE  LET new == [old EXCEPT !.status = "Finalized"]
           IN  /\ new \in InvoiceRow /\ new.id = old.id /\ new.status = "Finalized"
               /\ new.customer = old.customer /\ new.date = old.date /\ new.total = old.total
<1> DEFINE new == [old EXCEPT !.status = "Finalized"]
<1>1. /\ DOMAIN old = {"id", "customer", "date", "total", "status"}
      /\ old.id \in Int /\ old.customer \in Int \cup {Null} /\ old.date \in Int /\ old.total \in Int
  BY DEF InvoiceRow
<1>2. /\ new.id = old.id /\ new.status = "Finalized"
      /\ new.customer = old.customer /\ new.date = old.date /\ new.total = old.total
  BY <1>1
<1>3. new \in InvoiceRow
  <2>1. old = [id |-> old.id, customer |-> old.customer, date |-> old.date, total |-> old.total,
               status |-> old.status]
    BY DEF InvoiceRow
  <2>2. new = [id |-> old.id, customer |-> old.customer, date |-> old.date, total |-> old.total,
               status |-> "Finalized"]
    BY <2>1
  <2>3. QED
    BY <1>1, <2>2 DEF InvoiceRow
<1>4. QED
  BY <1>2, <1>3

\* Finalizing takes one invoice that was not, and an event of it no handler has.
LEMMA OneMore ==
    ASSUME InvoicesAsSeeded, EventsAreFinalized, NEW id, FinalizeInvoice(id)
    PROVE  /\ InvoicesAsSeeded'
           /\ \E i \in InvoiceRow :
                 /\ i \notin Finalized /\ Finalized' = Finalized \cup {i}
                 /\ \A p \in pending : p.event # EventOf(i)
                 /\ pending' = pending \cup {[event |-> EventOf(i), handler |-> h]
                                                : h \in {"catalog", "administration"}}
<1>1. PICK n \in DOMAIN invoice, place \in DOMAIN invoice :
         /\ invoice[n].id = id /\ invoice[n].status # "Finalized"
         /\ invoice' = Rewritten(invoice, n, place, [invoice[n] EXCEPT !.status = "Finalized"])
         /\ pending' = pending \cup {[event |-> EventOf(invoice[n]), handler |-> h]
                                        : h \in {"catalog", "administration"}}
  BY DEF FinalizeInvoice
<1> DEFINE old == invoice[n]
           new == [old EXCEPT !.status = "Finalized"]
<1>2. invoice \in Seq(InvoiceRow) /\ UniqueIds(invoice)
  BY DEF InvoicesAsSeeded
<1>3. old \in InvoiceRow /\ old \in Range(invoice)
  BY <1>2 DEF Range
<1>4. /\ new \in InvoiceRow /\ new.id = old.id /\ new.status = "Finalized"
      /\ new.customer = old.customer /\ new.date = old.date /\ new.total = old.total
  BY <1>3, FinalizedRow
<1>5. EventOf(new) = EventOf(old)
  BY <1>4 DEF EventOf
<1>6. old.status # "Finalized"
  BY <1>1
<1>7. /\ invoice' \in Seq(InvoiceRow) /\ UniqueIds(invoice')
      /\ Range(invoice') = (Range(invoice) \ {old}) \cup {new}
  <2>1. invoice' = Rewritten(invoice, n, place, new) /\ new.id = invoice[n].id /\ new \in InvoiceRow
    BY <1>1, <1>4
  <2> HIDE DEF new
  <2>2. QED
    BY <2>1, <1>2, RewrittenRows
<1> HIDE DEF old, new
<1>8. old \in Range(SeededInvoice)
  BY <1>3, <1>6 DEF InvoicesAsSeeded
<1>9. Find(SeededInvoice, old.id) = old
  <2>1. \A a, b \in Range(SeededInvoice) : a.id = b.id => a = b
    BY SeedAssumption DEF UniqueIds, Range
  <2>2. QED
    BY <1>8, <2>1 DEF Find, Ids
<1>10. \A a, b \in Range(invoice) : a.id = b.id => a = b
  BY <1>2 DEF UniqueIds, Range
<1>11. new \notin Range(invoice) /\ old \notin Finalized
  BY <1>3, <1>4, <1>6, <1>10 DEF Finalized
<1>12. Finalized' = {i \in Range(invoice') : i.status = "Finalized"
                                      /\ Find(SeededInvoice, i.id).status # "Finalized"}
  BY DEF Finalized
<1>13. Finalized' = Finalized \cup {new}
  BY <1>4, <1>6, <1>7, <1>9, <1>11, <1>12 DEF Finalized
<1>14. new \notin Finalized
  BY <1>11 DEF Finalized
<1>15. ASSUME NEW p \in pending
       PROVE  p.event # EventOf(new)
  <2>1. PICK i \in Finalized : p.event = EventOf(i)
    BY DEF EventsAreFinalized
  <2>2. i \in Range(invoice) /\ i.status = "Finalized"
    BY DEF Finalized
  <2>3. i.id # new.id
    BY <2>2, <1>3, <1>4, <1>6, <1>10
  <2>4. EventOf(i).invoice = i.id /\ EventOf(new).invoice = new.id
    BY DEF EventOf
  <2>5. QED
    BY <2>1, <2>3, <2>4
<1>16. InvoicesAsSeeded'
  <2>1. \A i \in Range(invoice') : i.status = "Finalized" \/ i \in Range(SeededInvoice)
    BY <1>4, <1>7 DEF InvoicesAsSeeded
  <2>2. QED
    BY <2>1, <1>7 DEF InvoicesAsSeeded, UniqueIds, Range
<1>17. pending' = pending \cup {[event |-> EventOf(new), handler |-> h]
                                   : h \in {"catalog", "administration"}}
  BY <1>1, <1>5 DEF old
<1>18. QED
  BY <1>4, <1>13, <1>14, <1>15, <1>16, <1>17

\* An invoice finalized is paid and sold in the books, and due to both handlers.
LEMMA FinalizeStep ==
    ASSUME Books, NEW id, FinalizeInvoice(id)
    PROVE  Books'
<1>1. InvoicesAsSeeded /\ EventsAreFinalized /\ CountersTyped
  BY DEF Books
<1>2. InvoicesAsSeeded'
  BY <1>1, OneMore
<1>3. PICK i \in InvoiceRow :
         /\ i \notin Finalized /\ Finalized' = Finalized \cup {i}
         /\ \A p \in pending : p.event # EventOf(i)
         /\ pending' = pending \cup {[event |-> EventOf(i), handler |-> h]
                                        : h \in {"catalog", "administration"}}
  BY <1>1, OneMore
<1> DEFINE new(h) == [event |-> EventOf(i), handler |-> h]
<1>4. pending' = (pending \cup {new("catalog")}) \cup {new("administration")}
  BY <1>3
<1>5. EventsAreFinalized'
  <2>1. IsFiniteSet(pending')
    BY <1>1, <1>4, FS_AddElement DEF EventsAreFinalized
  <2>2. pending' \subseteq [event : {EventOf(j) : j \in Finalized'},
                            handler : {"catalog", "administration"}]
    BY <1>1, <1>3, <1>4 DEF EventsAreFinalized
  <2>3. QED
    BY <2>1, <2>2 DEF EventsAreFinalized, EventOf
<1>6. summary' = summary /\ sales' = sales
  BY DEF FinalizeInvoice
<1>7. CountersTyped'
  BY <1>1, <1>6 DEF CountersTyped
<1>8. ASSUME NEW h \in {"catalog", "administration"}
      PROVE  new(h) \notin For(h) /\ For(h)' = For(h) \cup {new(h)}
  <2>1. For(h)' = {p \in pending' : p.handler = h}
    BY DEF For
  <2>2. new(h) \notin pending
    BY <1>3
  <2>3. QED
    BY <2>1, <2>2, <1>4, <1>8 DEF For
<1>9. ASSUME NEW c \in Int
      PROVE  SpentIs(c)'
  <2>1. PurchasesOf(c).spent + SumOf(SpentDue(c), For("administration"))
            = SumOf(SpentDone(c), Finalized)
    BY SpentSums DEF Books
  <2>2. Paid(c, i) \in Int /\ Paid(c, EventOf(i)) = Paid(c, i)
    BY EventUnits DEF InvoiceRow, Paid
  <2>3. SumOf(SpentDue(c)', For("administration")')
            = SumOf(SpentDue(c), For("administration")) + Paid(c, i)
    <3> DEFINE f == SpentDue(c)
               g == SpentDue(c)'
               S == For("administration")
               x == new("administration")
    <3>1. IsFiniteSet(S) /\ x \notin S /\ For("administration")' = S \cup {x}
      BY <1>1, <1>8, DueTyped
    <3>2. g = [p \in S \cup {x} |-> Paid(c, p.event)]
      BY <3>1 DEF SpentDue, Paid
    <3>3. \A y \in S : f[y] = g[y] /\ g[y] \in Int
      BY <3>2, <1>1, DueTyped DEF SpentDue, For
    <3>4. g[x] = Paid(c, i)
      BY <3>2, <2>2
    <3> HIDE DEF f, g, S, x
    <3>5. SumOf(g, S \cup {x}) = SumOf(f, S) + g[x]
      BY <3>1, <3>3, <3>4, <2>2, SumGrows
    <3>6. QED
      BY <3>1, <3>4, <3>5 DEF f, g, S
  <2>4. SumOf(SpentDone(c)', Finalized') = SumOf(SpentDone(c), Finalized) + Paid(c, i)
    <3> DEFINE f == SpentDone(c)
               g == SpentDone(c)'
               S == Finalized
    <3>1. g = [j \in S \cup {i} |-> Paid(c, j)]
      BY <1>3 DEF SpentDone, Paid
    <3>2. IsFiniteSet(S) /\ \A y \in S : f[y] = g[y] /\ g[y] \in Int
      BY <3>1, <1>1, DueTyped DEF SpentDone
    <3>3. g[i] = Paid(c, i) /\ i \notin S /\ Finalized' = S \cup {i}
      BY <3>1, <1>3
    <3> HIDE DEF f, g, S
    <3>4. SumOf(g, S \cup {i}) = SumOf(f, S) + g[i]
      BY <3>2, <3>3, <2>2, SumGrows
    <3>5. QED
      BY <3>3, <3>4 DEF f, g, S
  <2>5. PurchasesOf(c)' = PurchasesOf(c) /\ PurchasesOf(c).spent \in Int
    BY <1>1, <1>6 DEF PurchasesOf, CountersTyped
  <2>6. SumOf(SpentDue(c), For("administration")) \in Int
    BY <1>1, DueTyped, SumType DEF SpentDue, For
  <2>7. PurchasesOf(c)'.spent + SumOf(SpentDue(c)', For("administration")')
            = SumOf(SpentDone(c)', Finalized')
    BY <2>1, <2>2, <2>3, <2>4, <2>5, <2>6
  <2>8. QED
    BY <2>7 DEF SpentIs, Outstanding, Total, For, SpentDue, SpentDone, Paid
<1>10. ASSUME NEW t \in Int
       PROVE  SoldIs(t)'
  <2>1. SalesOf(t).times + SumOf(SoldDue(t), For("catalog")) = SumOf(SoldDone(t), Finalized)
    BY SoldSums DEF Books
  <2>2. Units(LinesOf(i.id), t) \in Int /\ Units(EventOf(i).lines, t) = Units(LinesOf(i.id), t)
    BY EventUnits, UnitsType DEF LinesOf
  <2>3. SumOf(SoldDue(t)', For("catalog")')
            = SumOf(SoldDue(t), For("catalog")) + Units(LinesOf(i.id), t)
    <3> DEFINE f == SoldDue(t)
               g == SoldDue(t)'
               S == For("catalog")
               x == new("catalog")
    <3>1. IsFiniteSet(S) /\ x \notin S /\ For("catalog")' = S \cup {x}
      BY <1>1, <1>8, DueTyped
    <3>2. g = [p \in S \cup {x} |-> Units(p.event.lines, t)]
      BY <3>1 DEF SoldDue, Units, Total, Quantity
    <3>3. \A y \in S : f[y] = g[y] /\ g[y] \in Int
      BY <3>2, <1>1, DueTyped DEF SoldDue, For
    <3>4. g[x] = Units(LinesOf(i.id), t)
      BY <3>2, <2>2
    <3> HIDE DEF f, g, S, x
    <3>5. SumOf(g, S \cup {x}) = SumOf(f, S) + g[x]
      BY <3>1, <3>3, <3>4, <2>2, SumGrows
    <3>6. QED
      BY <3>1, <3>4, <3>5 DEF f, g, S
  <2>4. SumOf(SoldDone(t)', Finalized')
            = SumOf(SoldDone(t), Finalized) + Units(LinesOf(i.id), t)
    <3> DEFINE f == SoldDone(t)
               g == SoldDone(t)'
               S == Finalized
    <3>1. g = [j \in S \cup {i} |-> Units(LinesOf(j.id), t)]
      BY <1>3 DEF SoldDone, Units, Total, Quantity, LinesOf
    <3>2. IsFiniteSet(S) /\ \A y \in S : f[y] = g[y] /\ g[y] \in Int
      BY <3>1, <1>1, DueTyped DEF SoldDone
    <3>3. g[i] = Units(LinesOf(i.id), t) /\ i \notin S /\ Finalized' = S \cup {i}
      BY <3>1, <1>3
    <3> HIDE DEF f, g, S
    <3>4. SumOf(g, S \cup {i}) = SumOf(f, S) + g[i]
      BY <3>2, <3>3, <2>2, SumGrows
    <3>5. QED
      BY <3>3, <3>4 DEF f, g, S
  <2>5. SalesOf(t)' = SalesOf(t) /\ SalesOf(t).times \in Int
    BY <1>1, <1>6 DEF SalesOf, CountersTyped
  <2>6. SumOf(SoldDue(t), For("catalog")) \in Int
    BY <1>1, DueTyped, SumType DEF SoldDue, For
  <2>7. SalesOf(t)'.times + SumOf(SoldDue(t)', For("catalog")')
            = SumOf(SoldDone(t)', Finalized')
    BY <2>1, <2>2, <2>3, <2>4, <2>5, <2>6
  <2>8. QED
    BY <2>7 DEF SoldIs, Outstanding, Total, For, SoldDue, SoldDone, Units
<1>11. QED
  BY <1>2, <1>5, <1>7, <1>9, <1>10 DEF Books

\* An event handled is taken out of what is due, and added to the counters.
LEMMA HandleStep ==
    ASSUME Books, NEW p, Handle(p)
    PROVE  Books'
<1>1. InvoicesAsSeeded /\ EventsAreFinalized /\ CountersTyped
  BY DEF Books
<1>2. /\ p \in pending /\ pending' = pending \ {p} /\ invoice' = invoice
      /\ \/ p.handler = "catalog" /\ HandleSale(p.event) /\ summary' = summary
         \/ p.handler = "administration" /\ HandlePurchase(p.event) /\ sales' = sales
  BY DEF Handle
<1>3. Finalized' = Finalized
  BY <1>2 DEF Finalized
<1>4. InvoicesAsSeeded'
  BY <1>1, <1>2 DEF InvoicesAsSeeded
<1>5. EventsAreFinalized'
  <2>1. IsFiniteSet(pending')
    BY <1>1, <1>2, FS_RemoveElement DEF EventsAreFinalized
  <2>2. pending' \subseteq [event : {EventOf(j) : j \in Finalized'},
                            handler : {"catalog", "administration"}]
    BY <1>1, <1>2, <1>3 DEF EventsAreFinalized
  <2>3. QED
    BY <2>1, <2>2 DEF EventsAreFinalized, EventOf
<1>6. /\ \A c : Paid(c, p.event) \in Int
      /\ \A t \in Int : Units(p.event.lines, t) \in Int
  BY <1>1, <1>2, DueTyped
<1>7. PICK i \in Finalized : p.event = EventOf(i)
  BY <1>1, <1>2 DEF EventsAreFinalized
<1>8. p.event.lines \subseteq Range(InvoiceLine)
  BY <1>7, EventUnits
\* What is due to a handler.
<1>9. ASSUME NEW h
      PROVE  For(h)' = IF p.handler = h THEN For(h) \ {p} ELSE For(h)
  <2>1. For(h)' = {q \in pending' : q.handler = h}
    BY DEF For
  <2>2. QED
    BY <2>1, <1>2 DEF For
\* Catalog's counters.
<1>10. CASE p.handler = "catalog" /\ HandleSale(p.event) /\ summary' = summary
  <2> DEFINE sold == {l.track : l \in p.event.lines}
  <2>1. sales' = [t \in DOMAIN sales \cup sold |->
                     IF t \in sold THEN [times |-> SalesOf(t).times + Units(p.event.lines, t),
                                         last  |-> Greatest(SalesOf(t).last, p.event.date)]
                     ELSE sales[t]]
    BY <1>10 DEF HandleSale
  <2>2. \A t : SalesOf(t).times \in Int
    BY <1>1 DEF SalesOf, CountersTyped
  <2>3. \A t : SalesOf(t)' = IF t \in DOMAIN sales' THEN sales'[t] ELSE [times |-> 0, last |-> Null]
    BY DEF SalesOf
  <2>4. ASSUME NEW t \in sold
        PROVE  SalesOf(t)'.times = SalesOf(t).times + Units(p.event.lines, t)
    BY <2>1, <2>3
  <2>5. ASSUME NEW t, t \notin sold
        PROVE  SalesOf(t)' = SalesOf(t) /\ Units(p.event.lines, t) = 0
    <3>1. SalesOf(t)' = SalesOf(t)
      BY <2>1, <2>3, <2>5 DEF SalesOf
    <3>2. {l \in p.event.lines : l.track = t} = {}
      BY <2>5
    <3>3. QED
      BY <3>1, <3>2, SumEmpty DEF Units, Total
  <2>6. \A t \in Int : SalesOf(t)'.times = SalesOf(t).times + Units(p.event.lines, t)
    <3> HIDE DEF sold
    <3>1. \A t \in Int : t \notin sold => SalesOf(t)'.times
              = SalesOf(t).times + Units(p.event.lines, t)
      BY <2>2, <2>5
    <3>2. QED
      BY <2>4, <3>1
  <2>7. \A t \in DOMAIN sales' : sales'[t].times \in Int
    <3> SUFFICES ASSUME NEW t \in DOMAIN sales'
                 PROVE  sales'[t].times \in Int
      OBVIOUS
    <3>1. CASE t \in sold
      <4>1. Units(p.event.lines, t) \in Int
        BY <1>8, UnitsType
      <4>2. sales'[t].times = SalesOf(t).times + Units(p.event.lines, t)
        BY <2>1, <3>1
      <4>3. QED
        BY <4>1, <4>2, <2>2
    <3>2. CASE t \notin sold
      BY <2>1, <3>2, <1>1 DEF CountersTyped
    <3>3. QED
      BY <3>1, <3>2
  <2>8. CountersTyped'
    BY <2>7, <1>1, <1>10 DEF CountersTyped
  <2>9. ASSUME NEW t \in Int
        PROVE  SoldIs(t)'
    <3>1. SalesOf(t).times + SumOf(SoldDue(t), For("catalog"))
              = SumOf(SoldDone(t), Finalized)
      BY SoldSums DEF Books
    <3>2. SumOf(SoldDue(t), For("catalog")) = Units(p.event.lines, t)
              + SumOf(SoldDue(t)', For("catalog")')
      <4> DEFINE f == SoldDue(t)
                 g == SoldDue(t)'
                 S == For("catalog")
      <4>1. IsFiniteSet(S) /\ p \in S /\ For("catalog")' = S \ {p}
        BY <1>1, <1>2, <1>9, <1>10, DueTyped DEF For
      <4>2. g = [q \in S \ {p} |-> Units(q.event.lines, t)]
        BY <4>1 DEF SoldDue, Units, Total, Quantity
      <4>3. \A y \in S : f[y] = Units(y.event.lines, t) /\ f[y] \in Int
        BY <1>1, DueTyped DEF SoldDue, For
      <4>4. \A y \in S \ {p} : f[y] = g[y]
        BY <4>2, <4>3
      <4> HIDE DEF f, g, S
      <4>5. IsFiniteSet(S) /\ p \in S /\ \A y \in S : f[y] \in Int
        BY <4>1, <4>3
      <4>6. SumOf(f, S) = f[p] + SumOf(g, S \ {p})
        BY <4>4, <4>5, SumShrinks
      <4>7. QED
        BY <4>1, <4>3, <4>6 DEF f, g, S
    <3>3. SumOf(SoldDue(t)', For("catalog")') \in Int
      <4>1. \A q \in For("catalog")' : SoldDue(t)'[q] = Units(q.event.lines, t) /\ q \in pending
        BY <1>9, <1>10 DEF SoldDue, For, Units, Total, Quantity
      <4>2. IsFiniteSet(For("catalog")')
        BY <1>1, <1>9, <1>10, DueTyped, FS_RemoveElement
      <4>3. QED
        BY <4>1, <4>2, <1>1, DueTyped, SumType
    <3>4. SalesOf(t)'.times + SumOf(SoldDue(t)', For("catalog")')
              = SumOf(SoldDone(t), Finalized)
      BY <3>1, <3>2, <3>3, <2>2, <2>6, <1>6
    <3>5. SoldDone(t)' = SoldDone(t)
      BY <1>3 DEF SoldDone, Units, Total, Quantity, LinesOf
    <3>6. QED
      BY <3>4, <3>5, <1>3 DEF SoldIs, Outstanding, Total, For, SoldDue, SoldDone, Units
  <2>10. ASSUME NEW c \in Int
         PROVE  SpentIs(c)'
    <3>1. For("administration")' = For("administration")
      BY <1>9, <1>10
    <3>2. SpentDue(c)' = SpentDue(c) /\ SpentDone(c)' = SpentDone(c)
          /\ PurchasesOf(c)' = PurchasesOf(c)
      BY <3>1, <1>3, <1>10 DEF SpentDue, SpentDone, PurchasesOf, Paid
    <3>3. PurchasesOf(c)'.spent + SumOf(SpentDue(c)', For("administration")')
              = SumOf(SpentDone(c)', Finalized')
      BY <3>1, <3>2, <1>3, SpentSums DEF Books
    <3>4. QED
      BY <3>3 DEF SpentIs, Outstanding, Total, For, SpentDue, SpentDone, Paid
  <2>11. QED
    BY <2>8, <2>9, <2>10, <1>4, <1>5 DEF Books
\* Administration's counters.
<1>11. CASE p.handler = "administration" /\ HandlePurchase(p.event) /\ sales' = sales
  <2>1. summary' = IF p.event.customer = Null THEN summary
                   ELSE [c \in DOMAIN summary \cup {p.event.customer} |->
                           IF c = p.event.customer THEN Spent(PurchasesOf(c), p.event)
                           ELSE summary[c]]
    BY <1>11 DEF HandlePurchase
  <2>2. \A c : PurchasesOf(c).spent \in Int
    BY <1>1 DEF PurchasesOf, CountersTyped
  <2>3. p.event.total \in Int
    <3>1. i \in InvoiceRow
      BY <1>1, FinalizedFinite
    <3>2. QED
      BY <3>1, <1>7 DEF EventOf, InvoiceRow
  <2>4. \A c : PurchasesOf(c)' = IF c \in DOMAIN summary' THEN summary'[c]
                                 ELSE [spent |-> 0, count |-> 0, last |-> Null]
    BY DEF PurchasesOf
  <2>5. ASSUME NEW c, c # Null
        PROVE  PurchasesOf(c)'.spent = PurchasesOf(c).spent + Paid(c, p.event)
    <3>1. CASE p.event.customer = c
      <4>1. PurchasesOf(c)' = Spent(PurchasesOf(c), p.event)
        BY <2>1, <2>4, <2>5, <3>1
      <4>2. QED
        BY <4>1, <3>1 DEF Spent, Paid
    <3>2. CASE p.event.customer # c
      <4>1. PurchasesOf(c)' = PurchasesOf(c)
        BY <2>1, <2>4, <3>2 DEF PurchasesOf
      <4>2. QED
        BY <4>1, <3>2, <2>2 DEF Paid
    <3>3. QED
      BY <3>1, <3>2
  <2>6. \A c \in DOMAIN summary' : summary'[c].spent \in Int
    <3>1. \A c : Spent(PurchasesOf(c), p.event).spent \in Int
      BY <2>2, <2>3 DEF Spent
    <3>2. QED
      BY <2>1, <3>1, <1>1 DEF CountersTyped
  <2>7. CountersTyped'
    BY <2>6, <1>1, <1>11 DEF CountersTyped
  <2>8. ASSUME NEW c \in Int
        PROVE  SpentIs(c)'
    <3>1. PurchasesOf(c).spent + SumOf(SpentDue(c), For("administration"))
              = SumOf(SpentDone(c), Finalized)
      BY SpentSums DEF Books
    <3>2. SumOf(SpentDue(c), For("administration")) = Paid(c, p.event)
              + SumOf(SpentDue(c)', For("administration")')
      <4> DEFINE f == SpentDue(c)
                 g == SpentDue(c)'
                 S == For("administration")
      <4>1. IsFiniteSet(S) /\ p \in S /\ For("administration")' = S \ {p}
        BY <1>1, <1>2, <1>9, <1>11, DueTyped DEF For
      <4>2. g = [q \in S \ {p} |-> Paid(c, q.event)]
        BY <4>1 DEF SpentDue, Paid
      <4>3. \A y \in S : f[y] = Paid(c, y.event) /\ f[y] \in Int
        BY <1>1, DueTyped DEF SpentDue, For
      <4>4. \A y \in S \ {p} : f[y] = g[y]
        BY <4>2, <4>3
      <4> HIDE DEF f, g, S
      <4>5. IsFiniteSet(S) /\ p \in S /\ \A y \in S : f[y] \in Int
        BY <4>1, <4>3
      <4>6. SumOf(f, S) = f[p] + SumOf(g, S \ {p})
        BY <4>4, <4>5, SumShrinks
      <4>7. QED
        BY <4>1, <4>3, <4>6 DEF f, g, S
    <3>3. SumOf(SpentDue(c)', For("administration")') \in Int
      <4>1. \A q \in For("administration")' : SpentDue(c)'[q] = Paid(c, q.event) /\ q \in pending
        BY <1>9, <1>11 DEF SpentDue, For, Paid
      <4>2. IsFiniteSet(For("administration")')
        BY <1>1, <1>9, <1>11, DueTyped, FS_RemoveElement
      <4>3. QED
        BY <4>1, <4>2, <1>1, DueTyped, SumType
    <3>4. c # Null
      BY RecordsAssumption
    <3>5. PurchasesOf(c)'.spent + SumOf(SpentDue(c)', For("administration")')
              = SumOf(SpentDone(c), Finalized)
      BY <3>1, <3>2, <3>3, <3>4, <2>2, <2>5, <1>6
    <3>6. SpentDone(c)' = SpentDone(c)
      BY <1>3 DEF SpentDone, Paid
    <3>7. QED
      BY <3>5, <3>6, <1>3 DEF SpentIs, Outstanding, Total, For, SpentDue, SpentDone, Paid
  <2>9. ASSUME NEW t \in Int
        PROVE  SoldIs(t)'
    <3>1. For("catalog")' = For("catalog")
      BY <1>9, <1>11
    <3>2. SoldDue(t)' = SoldDue(t) /\ SoldDone(t)' = SoldDone(t) /\ SalesOf(t)' = SalesOf(t)
      BY <3>1, <1>3, <1>11 DEF SoldDue, SoldDone, SalesOf, Units, Total, Quantity, LinesOf
    <3>3. SalesOf(t)'.times + SumOf(SoldDue(t)', For("catalog")')
              = SumOf(SoldDone(t)', Finalized')
      BY <3>1, <3>2, <1>3, SoldSums DEF Books
    <3>4. QED
      BY <3>3 DEF SoldIs, Outstanding, Total, For, SoldDue, SoldDone, Units
  <2>10. QED
    BY <2>7, <2>8, <2>9, <1>4, <1>5 DEF Books
<1>12. QED
  BY <1>2, <1>10, <1>11

\* The books are about invoices, events and counters only.
LEMMA BooksFrame == Books /\ UNCHANGED <<invoice, pending, sales, summary>> => Books'
BY DEF Books, InvoicesAsSeeded, EventsAreFinalized, CountersTyped, SpentIs, SoldIs,
       PurchasesOf, SalesOf, Outstanding, Finalized, Total, Paid, Units

\* Whatever the program does, the books balance.
LEMMA BooksStep == Books /\ [RecordsNext]_recordsVars => Books'
<1> SUFFICES ASSUME Books, [RecordsNext]_recordsVars
             PROVE  Books'
  OBVIOUS
<1>1. ASSUME NEW id, FinalizeInvoice(id)
      PROVE  Books'
  BY <1>1, FinalizeStep
<1>2. ASSUME NEW p, Handle(p)
      PROVE  Books'
  BY <1>2, HandleStep
<1>3. ASSUME NEW k \in ReadKeys, Fetch(k) \/ Lapse(k)
      PROVE  Books'
  BY <1>3, BooksFrame DEF Fetch, Lapse, tableVars
<1>4. ASSUME NEW id, NEW name, CreateGenre(name) \/ UpdateGenre(id, name) \/ DeleteGenre(id)
      PROVE  Books'
  BY <1>4, BooksFrame DEF CreateGenre, UpdateGenre, DeleteGenre
<1>5. CASE UNCHANGED recordsVars
  BY <1>5, BooksFrame DEF recordsVars, tableVars
<1>6. QED
  BY <1>1, <1>2, <1>3, <1>4, <1>5 DEF RecordsNext

\* As seeded, nothing is finalized by the program, and nothing counted.
LEMMA BooksInit == RecordsInit => Books
<1> SUFFICES ASSUME RecordsInit
             PROVE  Books
  OBVIOUS
<1>1. InvoicesAsSeeded
  BY SeedAssumption DEF RecordsInit, InvoicesAsSeeded, InvoiceRow
<1>2. \A a, b \in Range(SeededInvoice) : a.id = b.id => a = b
  BY SeedAssumption DEF UniqueIds, Range
<1>3. \A i \in Range(SeededInvoice) : Find(SeededInvoice, i.id) = i
  BY <1>2 DEF Find, Ids
<1>4. Finalized = {}
  BY <1>3 DEF Finalized, RecordsInit
<1>5. pending = {} /\ DOMAIN sales = {} /\ DOMAIN summary = {}
  BY DEF RecordsInit
<1>6. \A h : For(h) = {}
  BY <1>5 DEF For
<1>7. ASSUME NEW c \in Int
      PROVE  SpentIs(c)
  <2>1. PurchasesOf(c).spent = 0
    BY <1>5 DEF PurchasesOf
  <2>2. SumOf(SpentDue(c), For("administration")) = 0 /\ SumOf(SpentDone(c), Finalized) = 0
    BY <1>4, <1>6, SumEmpty
  <2>3. QED
    BY <2>1, <2>2, SpentSums
<1>8. ASSUME NEW t \in Int
      PROVE  SoldIs(t)
  <2>1. SalesOf(t).times = 0
    BY <1>5 DEF SalesOf
  <2>2. SumOf(SoldDue(t), For("catalog")) = 0 /\ SumOf(SoldDone(t), Finalized) = 0
    BY <1>4, <1>6, SumEmpty
  <2>3. QED
    BY <2>1, <2>2, SoldSums
<1>9. EventsAreFinalized /\ CountersTyped
  BY <1>5, FS_EmptySet DEF EventsAreFinalized, CountersTyped
<1>10. QED
  BY <1>1, <1>7, <1>8, <1>9 DEF Books

\* Nothing a customer paid for, and no track sold, is counted twice or lost
\* between the modules.
THEOREM CountsAllThatIsPaid == RecordsSpec => []CountersAddUp
<1>1. Books => CountersAddUp
  <2> SUFFICES ASSUME Books
               PROVE  CountersAddUp
    OBVIOUS
  <2>1. Ids(Customer) \subseteq Int /\ Ids(Track) \subseteq Int
    BY SeedAssumption DEF IsTable, Ids
  <2>2. \A c \in Ids(Customer) : GetCustomerPurchases(c).spent = PurchasesOf(c).spent
    BY DEF GetCustomerPurchases
  <2>3. \A t \in Ids(Track) : GetTrackSales(t).times = SalesOf(t).times
    BY DEF GetTrackSales
  <2>4. \A c \in Ids(Customer) : SpentIs(c)
    BY <2>1 DEF Books
  <2>5. \A t \in Ids(Track) : SoldIs(t)
    BY <2>1 DEF Books
  <2>6. QED
    BY <2>2, <2>3, <2>4, <2>5 DEF CountersAddUp, SpentIs, SoldIs
<1>2. QED
  BY <1>1, BooksInit, BooksStep, PTL DEF RecordsSpec

-----------------------------------------------------------------------------
(* Answers composed of several tables *)

\* Integers in order: each is the n-th for one n.
LEMMA AscendingAll ==
    ASSUME NEW S, S \subseteq Int, IsFiniteSet(S)
    PROVE  /\ Cardinality(S) \in Nat /\ DOMAIN Ascending(S) = 1..Cardinality(S)
           /\ \A n \in 1..Cardinality(S) : Ascending(S)[n] \in S
           /\ \A x \in S : \E n \in 1..Cardinality(S) : Ascending(S)[n] = x
<1> DEFINE upTo(x) == {y \in S : y <= x}
           N == Cardinality(S)
           rank == [x \in S |-> Cardinality(upTo(x))]
<1>1. N \in Nat
  BY FS_CardinalityType
<1>2. \A x \in S : IsFiniteSet(upTo(x)) /\ Cardinality(upTo(x)) \in 1..N
  <2> SUFFICES ASSUME NEW x \in S PROVE IsFiniteSet(upTo(x)) /\ Cardinality(upTo(x)) \in 1..N
    OBVIOUS
  <2>1. upTo(x) \in SUBSET S /\ upTo(x) # {}
    OBVIOUS
  <2> HIDE DEF upTo
  <2>2. IsFiniteSet(upTo(x)) /\ Cardinality(upTo(x)) <= N
    BY <2>1, FS_Subset
  <2>3. Cardinality(upTo(x)) \in Nat /\ Cardinality(upTo(x)) # 0
    BY <2>1, <2>2, FS_CardinalityType, FS_EmptySet
  <2>4. QED
    BY <1>1, <2>2, <2>3
<1>3. ASSUME NEW x \in S, NEW y \in S, x < y
      PROVE  Cardinality(upTo(x)) < Cardinality(upTo(y))
  <2>0. x \in Int /\ y \in Int /\ \A z \in S : z \in Int
    OBVIOUS
  <2>a. \A z \in upTo(x) : z \in upTo(y)
    BY <1>3, <2>0
  <2>b. y \in upTo(y) /\ y \notin upTo(x)
    BY <1>3, <2>0
  <2>1. upTo(x) \in SUBSET upTo(y) /\ upTo(x) # upTo(y)
    BY <2>a, <2>b
  <2> HIDE DEF upTo
  <2>2. Cardinality(upTo(x)) <= Cardinality(upTo(y)) /\ Cardinality(upTo(y)) # Cardinality(upTo(x))
    BY <1>2, <2>1, FS_Subset
  <2>3. QED
    BY <1>2, <2>2
<1>4. rank \in Injection(S, 1..N)
  <2>1. rank \in [S -> 1..N]
    BY <1>2
  <2>2. \A x, y \in S : rank[x] = rank[y] => x = y
    BY <1>2, <1>3
  <2>3. QED
    BY <2>1, <2>2 DEF Injection, IsInjective
<1>5. rank \in Surjection(S, 1..N)
  <2>1. IsFiniteSet(1..N) /\ Cardinality(1..N) = N
    BY <1>1, FS_Interval
  <2> HIDE DEF rank
  <2>2. QED
    BY <1>4, <2>1, FS_Injection
<1>6. ASSUME NEW n \in 1..N
      PROVE  /\ Ascending(S)[n] \in S /\ Cardinality(upTo(Ascending(S)[n])) = n
  <2>1. \E x \in S : Cardinality(upTo(x)) = n
    BY <1>5 DEF Surjection
  <2>2. Ascending(S)[n] = CHOOSE x \in S : Cardinality(upTo(x)) = n
    BY DEF Ascending
  <2> HIDE DEF upTo
  <2>3. QED
    BY <2>1, <2>2
<1>7. ASSUME NEW x \in S
      PROVE  \E n \in 1..N : Ascending(S)[n] = x
  <2> DEFINE n == Cardinality(upTo(x))
  <2>1. n \in 1..N
    BY <1>2
  <2>2. Ascending(S)[n] \in S /\ Cardinality(upTo(Ascending(S)[n])) = n
    BY <1>6, <2>1
  <2>3. Ascending(S)[n] = x
    <3>1. rank[Ascending(S)[n]] = rank[x]
      BY <2>2
    <3>2. QED
      BY <1>4, <2>2, <3>1 DEF Injection, IsInjective
  <2>4. QED
    BY <2>1, <2>3
<1>8. DOMAIN Ascending(S) = 1..N
  BY DEF Ascending
<1>9. QED
  BY <1>1, <1>6, <1>7, <1>8

\* WHERE leaves the rows it names, each a row of the table.
LEMMA WhereRows ==
    ASSUME NEW table, NEW rows, table \in Seq(Range(table))
    PROVE  /\ Range(Where(table, rows)) = Range(table) \cap rows
           /\ Where(table, rows) \in Seq(Range(table))
<1> DEFINE P == {n \in DOMAIN table : table[n] \in rows}
           places == Ascending(P)
<1>1. DOMAIN table = 1..Len(table) /\ Len(table) \in Nat
  OBVIOUS
<1>2. P \subseteq Int /\ IsFiniteSet(P)
  <2>1. P \in SUBSET (1..Len(table)) /\ IsFiniteSet(1..Len(table))
    BY <1>1, FS_Interval
  <2> HIDE DEF P
  <2>2. QED
    <3>1. IsFiniteSet(P)
      BY <2>1, FS_Subset
    <3>2. 1..Len(table) \subseteq Int
      BY <1>1
    <3>3. QED
      BY <2>1, <3>1, <3>2
<1>3. Where(table, rows) = [n \in DOMAIN places |-> table[places[n]]]
  BY DEF Where
<1>4. /\ Cardinality(P) \in Nat /\ DOMAIN places = 1..Cardinality(P)
      /\ \A n \in 1..Cardinality(P) : places[n] \in P
      /\ \A x \in P : \E n \in 1..Cardinality(P) : places[n] = x
  <2> HIDE DEF P
  <2>1. QED
    BY <1>2, AscendingAll
<1> HIDE DEF places
<1>5. \A n \in DOMAIN places : places[n] \in DOMAIN table /\ table[places[n]] \in rows
  BY <1>4
<1>6. \A m \in DOMAIN table : table[m] \in rows => \E n \in DOMAIN places : places[n] = m
  BY <1>4
<1> HIDE DEF P
<1>7. Range(Where(table, rows)) \subseteq Range(table) \cap rows
  BY <1>3, <1>5 DEF Range
<1>8. Range(table) \cap rows \subseteq Range(Where(table, rows))
  BY <1>3, <1>6 DEF Range
<1>9. Where(table, rows) \in [1..Cardinality(P) -> Range(table)]
  BY <1>3, <1>4, <1>5 DEF Range
<1>10. Where(table, rows) \in Seq(Range(table))
  BY <1>4, <1>9
<1>11. QED
  BY <1>7, <1>8, <1>10

\* ORDER BY "Id" leaves out no row and adds none.
LEMMA ByIdRows ==
    ASSUME NEW table, IsFiniteSet(Range(table)),
           \A a, b \in Range(table) : a.id = b.id => a = b,
           \A a \in Range(table) : a.id \in Int
    PROVE  /\ Range(ById(table)) = Range(table)
           /\ ById(table) \in Seq(Range(table))
<1> DEFINE ids == Ascending(Ids(table))
<1>1. Ids(table) \subseteq Int /\ IsFiniteSet(Ids(table))
  <2> DEFINE f == [row \in Range(table) |-> row.id]
  <2>1. f \in Surjection(Range(table), Ids(table))
    BY DEF Surjection, Ids
  <2> HIDE DEF f
  <2>2. IsFiniteSet(Ids(table))
    BY <2>1, FS_Surjection
  <2>3. QED
    BY <2>2 DEF Ids
<1>2. /\ Cardinality(Ids(table)) \in Nat /\ DOMAIN ids = 1..Cardinality(Ids(table))
      /\ \A n \in 1..Cardinality(Ids(table)) : ids[n] \in Ids(table)
      /\ \A x \in Ids(table) : \E n \in 1..Cardinality(Ids(table)) : ids[n] = x
  BY <1>1, AscendingAll
<1>3. ById(table) = [n \in DOMAIN ids |-> Find(table, ids[n])]
  BY DEF ById
<1> HIDE DEF ids
<1>4. \A x \in Ids(table) : Find(table, x) \in Range(table) /\ Find(table, x).id = x
  BY DEF Find, Ids
<1>5. \A row \in Range(table) : row.id \in Ids(table) /\ Find(table, row.id) = row
  BY DEF Find, Ids
<1>6. Range(ById(table)) \subseteq Range(table)
  BY <1>2, <1>3, <1>4 DEF Range
<1>7. ASSUME NEW row \in Range(table)
      PROVE  row \in Range(ById(table))
  <2>1. PICK n \in DOMAIN ids : ids[n] = row.id
    BY <1>2, <1>5
  <2>2. ById(table)[n] = row /\ n \in DOMAIN ById(table)
    BY <1>3, <1>5, <2>1
  <2>3. QED
    BY <2>2 DEF Range
<1>8. ById(table) \in [1..Cardinality(Ids(table)) -> Range(table)]
  BY <1>2, <1>3, <1>4
<1>9. ById(table) \in Seq(Range(table))
  BY <1>2, <1>8
<1>10. Range(table) \subseteq Range(ById(table))
  BY <1>7
<1>11. QED
  BY <1>6, <1>9, <1>10

\* A row's columns are its own, whatever other tables add.
LEMMA WithColumns ==
    ASSUME NEW row, NEW columns
    PROVE  /\ \A c \in DOMAIN row : With(row, columns)[c] = row[c]
           /\ \A c \in DOMAIN columns \ DOMAIN row : With(row, columns)[c] = columns[c]
BY DEF With

\* An id names one row.
LEMMA FoundRow ==
    ASSUME NEW table, UniqueIds(table)
    PROVE  /\ \A a, b \in Range(table) : a.id = b.id => a = b
           /\ \A row \in Range(table) : Find(table, row.id) = row
           /\ \A id \in Ids(table) : Find(table, id) \in Range(table) /\ Find(table, id).id = id
<1>1. \A a, b \in Range(table) : a.id = b.id => a = b
  BY DEF UniqueIds, Range
<1>2. \A row \in Range(table) : Find(table, row.id) = row
  BY <1>1 DEF Find, Ids
<1>3. \A id \in Ids(table) : Find(table, id) \in Range(table) /\ Find(table, id).id = id
  BY DEF Find, Ids
<1>4. QED
  BY <1>1, <1>2, <1>3

\* Some of a table's rows, in the order of their ids.
LEMMA SomeById ==
    ASSUME NEW table, NEW columns, IsTable(table, columns), NEW rows
    PROVE  /\ Range(ById(Where(table, rows))) = Range(table) \cap rows
           /\ ById(Where(table, rows)) \in Seq(Range(table))
<1> DEFINE some == Where(table, rows)
<1>1. Range(some) = Range(table) \cap rows /\ some \in Seq(Range(table))
  BY WhereRows DEF IsTable
<1>2. \A a, b \in Range(table) : a.id = b.id => a = b
  BY FoundRow DEF IsTable
<1>3. IsFiniteSet(Range(table))
  BY RangeFinite DEF IsTable
<1> HIDE DEF some
<1>4. /\ IsFiniteSet(Range(some))
      /\ \A a, b \in Range(some) : a.id = b.id => a = b
      /\ \A a \in Range(some) : a.id \in Int
  <2>1. Range(some) \in SUBSET Range(table)
    BY <1>1
  <2>2. IsFiniteSet(Range(some))
    BY <1>3, <2>1, FS_Subset
  <2>3. QED
    BY <1>2, <2>1, <2>2 DEF IsTable
<1>5. Range(ById(some)) = Range(some) /\ ById(some) \in Seq(Range(some))
  BY <1>4, ByIdRows
<1>6. ById(some) \in Seq(Range(table))
  BY <1>1, <1>5
<1>7. QED
  BY <1>1, <1>5, <1>6 DEF some

\* A genre's units in the report are those of the tracks listed under it.
LEMMA GenreUnits ==
    ASSUME CountersTyped, NEW id
    PROVE  Total({t \in Range(Track) : t.genre = id}, Times)
             = Total(Range(GetTracksByGenreId(id)), LAMBDA t : GetTrackSales(t.id).times)
<1> DEFINE mine == {t \in Range(Track) : t.genre = id}
           answered == Range(GetTracksByGenreId(id))
           f == [t \in mine |-> Times(t)]
           g == [t \in answered |-> GetTrackSales(t.id).times]
           h == [t \in mine |-> With(t, [albumName |-> Null])]
<1>1. IsTable(Track, {"id", "name", "album", "genre", "mediaType"})
  BY SeedAssumption
<1>2. Range(Where(Track, mine)) = mine
  <2>1. Range(Where(Track, mine)) = Range(Track) \cap mine
    BY <1>1, WhereRows DEF IsTable
  <2>2. QED
    BY <2>1
<1>3. answered = {h[t] : t \in mine}
  <2> DEFINE rows == Where(Track, mine)
  <2>1. answered = Range([i \in DOMAIN rows |-> With(rows[i], [albumName |-> Null])])
    BY DEF GetTracksByGenreId, Plain
  <2> HIDE DEF rows, mine
  <2>2. Range(rows) = mine
    BY <1>2 DEF rows
  <2>3. QED
    BY <2>1, <2>2 DEF Range
<1>4. IsFiniteSet(mine)
  <2>1. IsFiniteSet(Range(Track)) /\ mine \in SUBSET Range(Track)
    BY <1>1, RangeFinite DEF IsTable
  <2>2. QED
    BY <2>1, FS_Subset
<1>5. \A t \in mine : h[t].id = t.id
  <2>1. \A t \in mine : "id" \in DOMAIN t
    BY <1>1 DEF IsTable
  <2>2. QED
    BY <2>1, WithColumns
<1>6. \A s, t \in mine : h[s] = h[t] => s = t
  <2>1. \A s, t \in mine : s.id = t.id => s = t
    BY <1>1, FoundRow DEF IsTable
  <2>2. QED
    BY <1>5, <2>1
<1>7. \A t \in mine : t.id \in Ids(Track)
  BY DEF Ids
<1>8. \A t \in mine : GetTrackSales(t.id).times = Times(t) /\ Times(t) \in Int
  BY <1>7 DEF GetTrackSales, SalesOf, Times, CountersTyped
<1>9. \A t \in mine : g[h[t]] = f[t] /\ f[t] \in Int
  <2>1. \A t \in mine : h[t] \in answered
    BY <1>3
  <2> HIDE DEF mine, h, answered
  <2>2. \A t \in mine : g[h[t]] = GetTrackSales(t.id).times
    BY <1>5, <2>1
  <2>3. QED
    BY <1>8, <2>2
<1>10. SumOf(g, answered) = SumOf(f, mine)
  <2> HIDE DEF f, g, h, mine, answered
  <2>1. SumOf(g, {h[t] : t \in mine}) = SumOf(f, mine)
    BY <1>4, <1>6, <1>9, SumImage
  <2>2. QED
    BY <1>3, <2>1
<1>11. QED
  BY <1>10 DEF Total

\* An invoice's lines in the report are the ones Orders answers.
LEMMA ReportedLines ==
    ASSUME InvoicesAsSeeded, NEW id \in Ids(invoice)
    PROVE  {l.id : l \in Range(InvoiceLinesWithNames(id))}
             = {l.id : l \in Range(GetInvoiceById(id).lines)}
<1> DEFINE i == Find(invoice, id)
           lines == ById(GetInvoiceLinesByInvoiceId(id))
           names(n) == [trackName    |-> Column(Find(Track, lines[n].track), LAMBDA t : t.name),
                        customer     |-> i.customer,
                        customerName |-> FullName(Find(Customer, i.customer))]
<1>1. i \in InvoiceRow /\ i # Null
  <2>1. i \in Range(invoice)
    BY FoundRow DEF InvoicesAsSeeded
  <2>2. i \in InvoiceRow
    BY <2>1 DEF InvoicesAsSeeded, Range
  <2>3. QED
    BY <2>2, SeedAssumption
<1>2. InvoiceLinesWithNames(id) = [n \in DOMAIN lines |-> With(lines[n], names(n))]
  BY <1>1 DEF InvoiceLinesWithNames
<1>3. GetInvoiceById(id).lines = lines
  <2>1. GetInvoiceById(id) = With(i, [lines |-> lines])
    BY <1>1 DEF GetInvoiceById
  <2>2. "lines" \notin DOMAIN i
    BY <1>1 DEF InvoiceRow
  <2> HIDE DEF i, lines
  <2>3. QED
    BY <2>1, <2>2, WithColumns
<1>4. \A n \in DOMAIN lines : "id" \in DOMAIN lines[n]
  <2> DEFINE rows == {l \in Range(InvoiceLine) : l.invoice = id}
  <2>1. IsTable(InvoiceLine, {"id", "invoice", "track", "price", "quantity"})
    <3>1. InvoiceLine \in Seq(LineRow) /\ UniqueIds(InvoiceLine) /\ Null \notin LineRow
      BY SeedAssumption
    <3>2. InvoiceLine \in Seq(Range(InvoiceLine))
      BY <3>1 DEF Range
    <3>3. \A l \in Range(InvoiceLine) : l \in LineRow
      BY <3>1 DEF Range
    <3>4. \A l \in LineRow : /\ DOMAIN l = {"id", "invoice", "track", "price", "quantity"}
                             /\ l.id \in Int /\ l # Null
      BY <3>1 DEF LineRow
    <3>5. QED
      BY <3>1, <3>2, <3>3, <3>4 DEF IsTable
  <2>2. lines = ById(Where(InvoiceLine, rows))
    BY DEF GetInvoiceLinesByInvoiceId
  <2> HIDE DEF lines, rows
  <2>3. lines \in Seq(Range(InvoiceLine))
    BY <2>1, <2>2, SomeById
  <2>4. \A n \in DOMAIN lines : lines[n] \in Range(InvoiceLine)
    BY <2>3
  <2>5. QED
    BY <2>1, <2>4 DEF IsTable
<1> HIDE DEF lines, names, i
<1>5. \A n \in DOMAIN lines : InvoiceLinesWithNames(id)[n].id = lines[n].id
  BY <1>2, <1>4, WithColumns
<1>6. DOMAIN InvoiceLinesWithNames(id) = DOMAIN lines
  BY <1>2
<1>7. QED
  BY <1>3, <1>5, <1>6 DEF Range

\* An artist's albums nest exactly the tracks listed under the artist: a track
\* of an album of the artist's is nested there, and in no other.
LEMMA NestedTracks ==
    ASSUME NEW id \in Ids(Artist)
    PROVE  UNION {{t.id : t \in Range(a.tracks)} : a \in Range(GetArtistById(id).albums)}
             = {t.id : t \in Range(GetTracksByArtistId(id))}
<1> DEFINE artist == Find(Artist, id)
           albums == {a \in Range(Album) : a.artist = id}
           listed == {t \in Range(Track) : Column(Find(Album, t.album), LAMBDA a : a.artist) = id}
           mine   == ById(Where(Album, albums))
           tracks == WithAlbum(ById(OfArtist(id)))
           under(i) == Where(tracks, {t \in Range(tracks) : t.album = mine[i].id})
           answered == [i \in DOMAIN mine |->
                            With(mine[i], [artistName |-> artist.name, tracks |-> under(i)])]
<1>1. /\ IsTable(Artist, {"id", "name"}) /\ IsTable(Album, {"id", "title", "artist"})
      /\ IsTable(Track, {"id", "name", "album", "genre", "mediaType"})
  BY SeedAssumption
<1>2. GetArtistById(id).albums = answered
  <2>1. artist \in Range(Artist)
    BY <1>1, FoundRow DEF IsTable
  <2>2. artist # Null /\ "albums" \notin DOMAIN artist
    <3> HIDE DEF artist
    <3>1. artist # Null /\ DOMAIN artist = {"id", "name"}
      BY <1>1, <2>1 DEF IsTable
    <3>2. QED
      BY <3>1
  <2>3. GetArtistById(id) = With(artist, [albums |-> answered])
    BY <2>2 DEF GetArtistById
  <2> HIDE DEF artist, answered
  <2>4. QED
    BY <2>2, <2>3, WithColumns
<1>3. Range(mine) = albums /\ mine \in Seq(Range(Album))
  <2>1. Range(mine) = Range(Album) \cap albums /\ mine \in Seq(Range(Album))
    BY <1>1, SomeById
  <2>2. QED
    BY <2>1
<1>4. \A i \in DOMAIN mine : mine[i] \in albums
  <2> HIDE DEF mine, albums
  <2>1. QED
    BY <1>3 DEF Range
<1>5. \A i \in DOMAIN answered : answered[i].tracks = under(i)
  <2>1. \A i \in DOMAIN mine : "tracks" \notin DOMAIN mine[i]
    <3> HIDE DEF mine
    <3>1. QED
      BY <1>1, <1>4 DEF IsTable
  <2> HIDE DEF mine, under, artist
  <2>2. QED
    BY <2>1, WithColumns
<1>6. Range(ById(OfArtist(id))) = listed /\ ById(OfArtist(id)) \in Seq(Range(Track))
  <2>1. OfArtist(id) = Where(Track, listed)
    BY DEF OfArtist
  <2> HIDE DEF listed
  <2>2. /\ Range(ById(OfArtist(id))) = Range(Track) \cap listed
        /\ ById(OfArtist(id)) \in Seq(Range(Track))
    BY <1>1, <2>1, SomeById
  <2>3. QED
    BY <2>2 DEF listed
<1>7. /\ tracks \in Seq(Range(tracks))
      /\ \A t \in Range(tracks) : \E s \in listed : s.id = t.id /\ s.album = t.album
      /\ \A s \in listed : \E t \in Range(tracks) : s.id = t.id /\ s.album = t.album
  <2> DEFINE rows == ById(OfArtist(id))
             with(n) == With(rows[n], [albumName |-> AlbumTitle(rows[n])])
  <2>1. tracks = [n \in DOMAIN rows |-> with(n)]
    BY DEF WithAlbum
  <2>2. \A s \in listed : "id" \in DOMAIN s /\ "album" \in DOMAIN s
    BY <1>1 DEF IsTable
  <2> HIDE DEF listed, rows, tracks
  <2>3. DOMAIN tracks = 1..Len(rows) /\ Len(rows) \in Nat /\ DOMAIN rows = 1..Len(rows)
    BY <1>6, <2>1 DEF rows
  <2>4. tracks \in Seq(Range(tracks))
    <3>1. tracks \in [1..Len(rows) -> Range(tracks)]
      BY <2>1, <2>3 DEF Range
    <3>2. QED
      BY <2>3, <3>1
  <2>5. \A n \in DOMAIN rows : rows[n] \in listed
    BY <1>6 DEF Range, rows
  <2>6. \A n \in DOMAIN rows : tracks[n].id = rows[n].id /\ tracks[n].album = rows[n].album
    BY <2>1, <2>2, <2>5, WithColumns
  <2>7. \A t \in Range(tracks) : \E n \in DOMAIN rows : t = tracks[n]
    BY <2>1 DEF Range
  <2>8. \A s \in listed : \E n \in DOMAIN rows : s = rows[n]
    BY <1>6 DEF Range, rows
  <2>9. \A n \in DOMAIN rows : tracks[n] \in Range(tracks)
    BY <2>1 DEF Range
  <2>10. \A t \in Range(tracks) : \E s \in listed : s.id = t.id /\ s.album = t.album
    BY <2>5, <2>6, <2>7
  <2>11. \A s \in listed : \E t \in Range(tracks) : s.id = t.id /\ s.album = t.album
    BY <2>6, <2>8, <2>9
  <2>12. QED
    BY <2>4, <2>10, <2>11
<1>8. \A i \in DOMAIN mine : Range(under(i)) = {t \in Range(tracks) : t.album = mine[i].id}
  <2> HIDE DEF tracks, mine
  <2>1. QED
    BY <1>7, WhereRows
<1>9. Range(GetTracksByArtistId(id)) = {With(s, [albumName |-> Null]) : s \in listed}
  <2> DEFINE rows == OfArtist(id)
  <2>1. Range(rows) = listed
    <3>1. rows = Where(Track, listed)
      BY DEF OfArtist
    <3> HIDE DEF rows, listed
    <3>2. Range(rows) = Range(Track) \cap listed
      BY <1>1, <3>1, WhereRows DEF IsTable
    <3>3. QED
      BY <3>2 DEF listed
  <2>2. GetTracksByArtistId(id) = [n \in DOMAIN rows |-> With(rows[n], [albumName |-> Null])]
    BY DEF GetTracksByArtistId, Plain
  <2> HIDE DEF rows, listed
  <2>3. QED
    BY <2>1, <2>2 DEF Range
<1>10. {t.id : t \in Range(GetTracksByArtistId(id))} = {s.id : s \in listed}
  <2>1. \A s \in listed : "id" \in DOMAIN s
    BY <1>1 DEF IsTable
  <2> HIDE DEF listed
  <2>2. \A s \in listed : With(s, [albumName |-> Null]).id = s.id
    BY <2>1, WithColumns
  <2>3. QED
    BY <1>9, <2>2
<1>11. ASSUME NEW s \in listed
       PROVE  \E i \in DOMAIN mine : s.album = mine[i].id
  <2>1. Find(Album, s.album) # Null /\ Find(Album, s.album).artist = id
    <3>1. id # Null
      BY <1>1, RecordsAssumption DEF IsTable, Ids
    <3>2. QED
      BY <3>1 DEF Column
  <2>2. s.album \in Ids(Album)
    BY <2>1 DEF Find
  <2>3. Find(Album, s.album) \in albums /\ Find(Album, s.album).id = s.album
    BY <1>1, <2>1, <2>2, FoundRow DEF IsTable
  <2> HIDE DEF mine, albums, listed
  <2>4. QED
    BY <1>3, <2>3 DEF Range
<1> HIDE DEF mine, tracks, listed, albums, artist
<1>12. ASSUME NEW x
       PROVE  x \in UNION {{t.id : t \in Range(a.tracks)} : a \in Range(answered)}
                <=> x \in {s.id : s \in listed}
  <2>1. x \in UNION {{t.id : t \in Range(a.tracks)} : a \in Range(answered)}
          <=> \E i \in DOMAIN mine : \E t \in Range(answered[i].tracks) : x = t.id
    <3> DEFINE nested == answered
    <3>1. DOMAIN nested = DOMAIN mine
      OBVIOUS
    <3> HIDE DEF nested
    <3>2. x \in UNION {{t.id : t \in Range(a.tracks)} : a \in Range(nested)}
            <=> \E i \in DOMAIN mine : \E t \in Range(nested[i].tracks) : x = t.id
      BY <3>1 DEF Range
    <3>3. QED
      BY <3>2 DEF nested
  <2>2. ASSUME NEW i \in DOMAIN mine
        PROVE  Range(answered[i].tracks) = {t \in Range(tracks) : t.album = mine[i].id}
    BY <1>5, <1>8
  <2> HIDE DEF answered
  <2>3. ASSUME NEW i \in DOMAIN mine, NEW t \in Range(answered[i].tracks), x = t.id
        PROVE  x \in {s.id : s \in listed}
    BY <1>7, <2>2, <2>3
  <2>4. ASSUME NEW s \in listed, x = s.id
        PROVE  \E i \in DOMAIN mine : \E t \in Range(answered[i].tracks) : x = t.id
    <3>1. PICK t \in Range(tracks) : s.id = t.id /\ s.album = t.album
      BY <1>7
    <3>2. PICK i \in DOMAIN mine : s.album = mine[i].id
      BY <1>11
    <3>3. QED
      BY <2>2, <2>4, <3>1, <3>2
  <2>5. QED
    BY <2>1, <2>3, <2>4
<1> HIDE DEF answered
<1>13. UNION {{t.id : t \in Range(a.tracks)} : a \in Range(answered)} = {s.id : s \in listed}
  BY <1>12
<1>14. QED
  BY <1>2, <1>10, <1>13

\* The answers of different modules agree, whatever is sold and finalized
\* meanwhile: each composes its own of the same rows.
THEOREM ModulesAgree == RecordsSpec => []AnswersAgree
<1>1. Books => AnswersAgree
  <2> SUFFICES ASSUME Books
               PROVE  AnswersAgree
    OBVIOUS
  <2>1. CountersTyped /\ InvoicesAsSeeded
    BY DEF Books
  <2>2. ASSUME NEW row \in SalesByGenre
        PROVE  row.units = Total(Range(GetTracksByGenreId(row.genre)),
                                 LAMBDA t : GetTrackSales(t.id).times)
    <3>1. PICK g \in Range(genre) :
            LET mine == {t \in Range(Track) : t.genre = g.id}
            IN  row = [genre |-> g.id, name |-> g.name, tracks |-> Cardinality(mine),
                       units |-> Total(mine, Times)]
      BY DEF SalesByGenre
    <3>2. row.genre = g.id /\ row.units = Total({t \in Range(Track) : t.genre = g.id}, Times)
      BY <3>1
    <3>3. QED
      BY <2>1, <3>2, GenreUnits
  <2>3. QED
    BY <2>1, <2>2, ReportedLines, NestedTracks DEF AnswersAgree
<1>2. QED
  BY <1>1, BooksInit, BooksStep, PTL DEF RecordsSpec
=============================================================================
