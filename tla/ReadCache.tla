----------------------------- MODULE ReadCache -----------------------------
(***************************************************************************)
(* One module's CacheFacade (shared-kernel/src/caching/facade.rs) between   *)
(* the reads of its services and the writes that invalidate them:           *)
(*                                                                         *)
(*   - a read goes through try_get_or_add: the cached entry, or one factory *)
(*     run shared by everyone who missed, which registers its key under the *)
(*     entity's tag before the entry is in the cache;                       *)
(*   - a write commits, then calls remove_by_tag with the entity's tag and  *)
(*     remove with its by-id key (finalize_invoice, Store::invalidate);     *)
(*   - an entry expires, is evicted, invalidated or replaced, and moka tells *)
(*     the eviction listener afterwards.                                    *)
(*                                                                         *)
(* A factory runs at most once per read, so the fill of a read stands for   *)
(* its generation, its CachedEntry and its tag registration.  What it read  *)
(* is kept as the number of writes committed by then.  Only tags[0] is      *)
(* modelled: nothing calls remove_by_tag with a by-id tag.  `set` has no    *)
(* caller outside the tests and is left out.                                *)
(*                                                                         *)
(* Requests are dropped when their client goes away, at any await.          *)
(*                                                                         *)
(* A definition named X_Something is X with a bug: replacing X by it breaks *)
(* a property below, which shows that the property depends on X.           *)
(***************************************************************************)
EXTENDS Naturals, FiniteSets

CONSTANTS
    Keys,       \* the cache keys of one entity's queries
    Readers,    \* the calls of try_get_or_add
    KeyOf,      \* [Readers -> Keys]: what each asks for
    Writers,    \* the requests that change the entity
    IdKey,      \* the by-id key of what they change
    Impatient,  \* the requests whose client may go away
    Nobody      \* no reader

ASSUME KeysAssumption ==
    /\ IdKey \in Keys
    /\ KeyOf \in [Readers -> Keys]
    /\ Nobody \notin Readers

VARIABLES
    version,   \* the writes committed
    entry,     \* [Keys -> the fill in the cache, or Nobody]
    expired,   \* the keys whose entry is past its deadline, still stored
    index,     \* the tag's keys: [Keys -> the fill registered, or Nobody]
    removed,   \* entries gone of which the listener has yet to be told
    flight,    \* [Keys -> the reader running the factory, or Nobody]
    reader,    \* [Readers -> where the call stands]
    loaded,    \* [Readers -> Nat]: the writes its factory saw
    answer,    \* [Readers -> the fill the call was answered with]
    writer,    \* [Writers -> where the request stands]
    left,      \* [Writers -> the registrations taken, keys still to drop]
    \* What happened, for the properties to speak of:
    mark,        \* [Writers -> Nat]: `version` at the request's commit
    invalidated, \* the latest commit of a request that has invalidated
    due,         \* [Readers -> Nat]: `invalidated` when the call was made
    overtaken,   \* fills that had read, not stored, when a tag was removed
    abandoned    \* fills dropped after registering

storeVars  == <<entry, expired, index, removed>>
readVars   == <<flight, reader, loaded, answer, due, abandoned>>
writeVars  == <<version, writer, left, mark, invalidated>>
vars       == <<storeVars, readVars, writeVars, overtaken>>

-----------------------------------------------------------------------------

Init ==
    /\ version = 0
    /\ entry = [k \in Keys |-> Nobody]
    /\ expired = {}
    /\ index = [k \in Keys |-> Nobody]
    /\ removed = {}
    /\ flight = [k \in Keys |-> Nobody]
    /\ reader = [r \in Readers |-> "new"]
    /\ loaded = [r \in Readers |-> 0]
    /\ answer = [r \in Readers |-> Nobody]
    /\ writer = [w \in Writers |-> "new"]
    /\ left = [w \in Writers |-> {}]
    /\ mark = [w \in Writers |-> 0]
    /\ invalidated = 0
    /\ due = [r \in Readers |-> 0]
    /\ overtaken = {}
    /\ abandoned = {}

Cached(k) == entry[k] # Nobody /\ k \notin expired

\* What the listener is told when the entry under k goes.
Gone(k) == IF entry[k] = Nobody THEN {} ELSE {<<k, entry[k]>>}

\* Those who wait for the factory run under k.
Waiting(k) == {r \in Readers : reader[r] = "waiting" /\ KeyOf[r] = k}

-----------------------------------------------------------------------------
(* CacheFacade::try_get_or_add *)

Hit(r) ==
    /\ Cached(KeyOf[r])
    /\ answer' = [answer EXCEPT ![r] = entry[KeyOf[r]]]
    /\ reader' = [reader EXCEPT ![r] = "done"]

\* entries.get: a hit, or a miss.
Get(r) ==
    /\ reader[r] = "new"
    /\ due' = [due EXCEPT ![r] = invalidated]
    /\ \/ Hit(r)
       \/ /\ ~ Cached(KeyOf[r])
          /\ reader' = [reader EXCEPT ![r] = "missed"]
          /\ UNCHANGED answer
    /\ UNCHANGED <<storeVars, writeVars, flight, loaded, overtaken, abandoned>>

\* entries.try_get_with: the entry if there is one by now, or the factory run
\* under way, or this caller's own.
Join(r) ==
    LET k == KeyOf[r]
    IN  /\ reader[r] = "missed"
        /\ \/ Hit(r) /\ UNCHANGED flight
           \/ /\ ~ Cached(k) /\ flight[k] = Nobody
              /\ flight' = [flight EXCEPT ![k] = r]
              /\ reader' = [reader EXCEPT ![r] = "loading"]
              /\ UNCHANGED answer
           \/ /\ ~ Cached(k) /\ flight[k] # Nobody
              /\ reader' = [reader EXCEPT ![r] = "waiting"]
              /\ UNCHANGED <<flight, answer>>
        /\ UNCHANGED <<storeVars, writeVars, loaded, due, overtaken, abandoned>>

\* The factory has read the database.
Load(r) ==
    /\ reader[r] = "loading"
    /\ loaded' = [loaded EXCEPT ![r] = version]
    /\ reader' = [reader EXCEPT ![r] = "loaded"]
    /\ UNCHANGED <<storeVars, writeVars, flight, answer, due, overtaken,
                   abandoned>>

\* Only the caller that ran the factory learns of the failure.
FailLoad_OneCaller(r) ==
    /\ reader[r] = "loading"
    /\ reader' = [reader EXCEPT ![r] = "failed"]
    /\ UNCHANGED <<storeVars, writeVars, flight, loaded, answer, due, overtaken,
                   abandoned>>

\* The factory failed or found nothing: nothing is stored, and every coalesced
\* caller gets that outcome.
FailLoad(r) ==
    /\ reader[r] = "loading"
    /\ flight' = [flight EXCEPT ![KeyOf[r]] = Nobody]
    /\ reader' = [x \in Readers |->
                    IF x = r \/ x \in Waiting(KeyOf[r]) THEN "failed"
                    ELSE reader[x]]
    /\ UNCHANGED <<storeVars, writeVars, loaded, answer, due, overtaken,
                   abandoned>>

\* register_tags, over whatever was registered before.
Register(r) ==
    /\ reader[r] = "loaded"
    /\ index' = [index EXCEPT ![KeyOf[r]] = r]
    /\ reader' = [reader EXCEPT ![r] = "registered"]
    /\ UNCHANGED <<entry, expired, removed, writeVars, flight, loaded, answer,
                   due, overtaken, abandoned>>

\* moka stores the entry and answers everyone who waits for it.
Store(r) ==
    LET k == KeyOf[r]
    IN  /\ reader[r] = "registered"
        /\ entry' = [entry EXCEPT ![k] = r]
        /\ removed' = removed \cup Gone(k)
        /\ expired' = expired \ {k}
        /\ flight' = [flight EXCEPT ![k] = Nobody]
        /\ reader' = [x \in Readers |-> IF x = r \/ x \in Waiting(k) THEN "done"
                                        ELSE reader[x]]
        /\ answer' = [x \in Readers |-> IF x = r \/ x \in Waiting(k) THEN r
                                        ELSE answer[x]]
        /\ UNCHANGED <<index, writeVars, loaded, due, overtaken, abandoned>>

\* The client of a read goes away.  If it ran the factory, those who waited
\* for it try again; a registration it made stays.
DropRead(r) ==
    LET k == KeyOf[r]
    IN  /\ r \in Impatient
        /\ reader[r] \in {"missed", "waiting", "loading", "registered"}
        /\ flight' = [flight EXCEPT ![k] = IF flight[k] = r THEN Nobody
                                           ELSE flight[k]]
        /\ reader' = [x \in Readers |->
                        IF x = r THEN "dropped"
                        ELSE IF flight[k] = r /\ x \in Waiting(k) THEN "missed"
                        ELSE reader[x]]
        /\ abandoned' = IF reader[r] = "registered" THEN abandoned \cup {r}
                        ELSE abandoned
        /\ UNCHANGED <<storeVars, writeVars, loaded, answer, due, overtaken>>

-----------------------------------------------------------------------------
(* moka, and the eviction listener *)

Expire(k) ==
    /\ Cached(k)
    /\ expired' = expired \cup {k}
    /\ UNCHANGED <<entry, index, removed, readVars, writeVars, overtaken>>

\* Maintenance takes an expired entry out, or one too many.
Evict(k) ==
    /\ entry[k] # Nobody
    /\ entry' = [entry EXCEPT ![k] = Nobody]
    /\ removed' = removed \cup Gone(k)
    /\ expired' = expired \ {k}
    /\ UNCHANGED <<index, readVars, writeVars, overtaken>>

\* The listener forgets the key outright, whoever registered it.
Forget_AnyGeneration(k, r) ==
    /\ <<k, r>> \in removed
    /\ removed' = removed \ {<<k, r>>}
    /\ index' = [index EXCEPT ![k] = Nobody]
    /\ UNCHANGED <<entry, expired, readVars, writeVars, overtaken>>

\* The listener forgets nothing.
Forget_Never(k, r) ==
    /\ <<k, r>> \in removed
    /\ removed' = removed \ {<<k, r>>}
    /\ UNCHANGED <<entry, expired, index, readVars, writeVars, overtaken>>

\* forget_tags: the registration goes, unless a newer entry owns it.
Forget(k, r) ==
    /\ <<k, r>> \in removed
    /\ removed' = removed \ {<<k, r>>}
    /\ index' = [index EXCEPT ![k] = IF index[k] = r THEN Nobody ELSE index[k]]
    /\ UNCHANGED <<entry, expired, readVars, writeVars, overtaken>>

-----------------------------------------------------------------------------
(* A write, remove_by_tag, remove *)

Commit(w) ==
    /\ writer[w] = "new"
    /\ writer' = [writer EXCEPT ![w] = "committed"]
    /\ version' = version + 1
    /\ mark' = [mark EXCEPT ![w] = version + 1]
    /\ UNCHANGED <<storeVars, readVars, left, invalidated, overtaken>>

\* tags.remove(tag): the registrations are taken out, all at once.
TakeTag(w) ==
    /\ writer[w] = "committed"
    /\ left' = [left EXCEPT ![w] = {<<k, index[k]>> : k \in
                                    {x \in Keys : index[x] # Nobody}}]
    /\ index' = [k \in Keys |-> Nobody]
    /\ writer' = [writer EXCEPT ![w] = "dropping"]
    /\ overtaken' = overtaken \cup
                    {r \in Readers : reader[r] \in {"loaded", "registered"}}
    /\ UNCHANGED <<entry, expired, removed, readVars, version, mark, invalidated>>

\* entries.invalidate, one key after another.
Invalidate(w) ==
    /\ writer[w] = "dropping"
    /\ \E taken \in left[w] :
          LET k == taken[1]
          IN  /\ left' = [left EXCEPT ![w] = left[w] \ {taken}]
              /\ entry' = [entry EXCEPT ![k] = Nobody]
              /\ removed' = removed \cup Gone(k)
              /\ expired' = expired \ {k}
    /\ UNCHANGED <<index, readVars, version, writer, mark, invalidated, overtaken>>

\* The request's last step, remove: the by-id entry goes.
RemoveId(w) ==
    /\ writer[w] = "dropping"
    /\ left[w] = {}
    /\ entry' = [entry EXCEPT ![IdKey] = Nobody]
    /\ removed' = removed \cup Gone(IdKey)
    /\ expired' = expired \ {IdKey}
    /\ writer' = [writer EXCEPT ![w] = "done"]
    /\ invalidated' = IF mark[w] > invalidated THEN mark[w] ELSE invalidated
    /\ UNCHANGED <<index, readVars, version, left, mark, overtaken>>

\* The client of a write goes away after the commit: what is left to drop
\* stays in the cache, and a taken registration is not put back.
DropWrite(w) ==
    /\ w \in Impatient
    /\ writer[w] \in {"committed", "dropping"}
    /\ writer' = [writer EXCEPT ![w] = "dropped"]
    /\ UNCHANGED <<storeVars, readVars, version, left, mark, invalidated,
                   overtaken>>

-----------------------------------------------------------------------------

Read(r) == Join(r) \/ Load(r) \/ FailLoad(r) \/ Register(r) \/ Store(r)

Write(w) == Commit(w) \/ TakeTag(w) \/ Invalidate(w) \/ RemoveId(w)

Next ==
    \/ \E r \in Readers : Get(r) \/ Read(r) \/ DropRead(r)
    \/ \E w \in Writers : Write(w) \/ DropWrite(w)
    \/ \E k \in Keys : Expire(k) \/ Evict(k)
    \/ \E gone \in removed : Forget(gone[1], gone[2])

Spec == Init /\ [][Next]_vars

-----------------------------------------------------------------------------
(* Properties *)

\* Single flight: no two callers run a factory for one key at a time, and the
\* one that does is the one the waiters are waiting for, whoever fails or goes
\* away.
SingleFlight ==
    \A k \in Keys :
        LET running == {r \in Readers :
                          /\ KeyOf[r] = k
                          /\ reader[r] \in {"loading", "loaded", "registered"}}
        IN  /\ running = IF flight[k] = Nobody THEN {} ELSE {flight[k]}
            /\ Waiting(k) # {} => flight[k] # Nobody

\* The registration of f under k is in a request's hands: it took the tag and
\* has not dropped the entry, or never will.
InHand(k, f) == \E w \in Writers : <<k, f>> \in left[w]

\* What remove_by_tag promises a reader: once a request has invalidated, later
\* reads see its write.  The exceptions are exactly two: a fill the removal
\* overtook between its query and its insertion, and an entry another request
\* has taken the registration of and not dropped yet.  Expiry, eviction,
\* refills and late listeners never add one.
ReadsFollowInvalidation ==
    [][\A r \in Readers :
          LET f == answer'[r]
          IN  f # answer[r] =>
                \/ loaded[f] >= due'[r]
                \/ f \in overtaken
                \/ InHand(KeyOf[r], f)]_answer

\* The tag index does not accumulate keys: every registration belongs to an
\* entry in the cache, to one the listener has yet to forget, to a fill under
\* way, or to one dropped before it stored anything.
IndexIsTidy ==
    \A k \in Keys :
        index[k] # Nobody =>
            \/ entry[k] = index[k]
            \/ <<k, index[k]>> \in removed
            \/ flight[k] = index[k]
            \/ index[k] \in abandoned
=============================================================================
