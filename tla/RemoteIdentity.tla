--------------------------- MODULE RemoteIdentity ---------------------------
(***************************************************************************)
(* The catalog host checks Identity's tokens against a key set it fetches  *)
(* over HTTP (samples/catalog-host/src/remote_identity.rs).  One mutex     *)
(* guards the cached set and is held while it is fetched, so the requests  *)
(* behind a fetch wait for it, in order.  The set is fetched again when it *)
(* is RefreshInterval old, and for a token that names a key it lacks, but  *)
(* for that no sooner than MissInterval after the last such fetch.         *)
(*                                                                         *)
(* Identity publishes one key, which it may replace at any time.  A fetch  *)
(* takes time: the set it brings is the one published when the server      *)
(* answered, and the instants the cache keeps were read before it began.   *)
(* A client may go away while its request waits or fetches: its future is  *)
(* dropped, and the mutex with it.                                         *)
(*                                                                         *)
(* Time is kept as ages, which stop at the interval they are compared to.  *)
(* The tokens are well formed and in date; what is left to decide is the   *)
(* key.                                                                    *)
(***************************************************************************)
EXTENDS Integers, Sequences, FiniteSets, SequencesExt

CONSTANTS
    Keys,
    Callers,         \* slots for requests in flight
    RefreshInterval, \* REFRESH_INTERVAL, in ticks
    MissInterval,    \* MISS_REFRESH_INTERVAL
    FetchTimeout,    \* the HTTP client's timeout
    NotYet, Nobody

ASSUME IntervalsAssumption ==
    /\ RefreshInterval \in Nat \ {0} /\ MissInterval \in Nat \ {0} /\ FetchTimeout \in Nat
    /\ NotYet \notin Nat /\ Nobody \notin Callers

VARIABLES
    current, \* the key Identity publishes
    kept,    \* ticks since Identity began to publish it
    gone,    \* [Keys -> ticks since Identity last published the key]
    keys,    \* KeyCache.keys
    fetched, \* the age of KeyCache.fetched_at
    missed,  \* the age of KeyCache.last_miss_refresh
    lost,    \* the fetch last_miss_refresh stands for did not bring a set
    queue,   \* the requests waiting for the mutex
    holder,  \* the request that holds it across a fetch
    elapsed, \* the age of the holder's `now`
    reply,   \* the set the server has answered the holder with
    request  \* [Callers -> Request]

publicVars   == <<current, kept, gone>>
fetchVars    == <<holder, elapsed, reply>>
identityVars == <<publicVars, keys, fetched, missed, lost, queue, fetchVars, request>>

\* kid: the key that signed the token; named: its header says so; late: at the
\* request's turn Identity had not published the key for RefreshInterval, and
\* has not since; known: it had published it for MissInterval, the last fetch for
\* an unknown key was not lost, and Identity published the key to the end of the
\* request's fetch (history variables).
Request == [stage : {"idle", "waiting", "fetching", "accepted", "refused"},
            kid : Keys, named : BOOLEAN, late : BOOLEAN, known : BOOLEAN,
            fetch : {"none", "ok", "failed"}]

Idle == [stage |-> "idle", kid |-> CHOOSE k \in Keys : TRUE, named |-> TRUE,
         late |-> FALSE, known |-> FALSE, fetch |-> "none"]

Age(age, limit) == IF age = NotYet \/ age >= limit THEN age ELSE age + 1

Stale == fetched = NotYet \/ fetched >= RefreshInterval

Missing(r) == request[r].named /\ request[r].kid \notin keys

\* One refresh for an unknown key, ever.
MissRefreshAllowed_Once == missed = NotYet

MissRefreshAllowed == missed = NotYet \/ missed >= MissInterval

-----------------------------------------------------------------------------

IdentityInit ==
    /\ current \in Keys
    /\ kept = 0
    /\ gone = [k \in Keys |-> 0]
    /\ keys = {} /\ fetched = NotYet /\ missed = NotYet /\ lost = FALSE
    /\ queue = <<>> /\ holder = Nobody /\ elapsed = 0 /\ reply = {}
    /\ request = [r \in Callers |-> Idle]

Pass ==
    /\ holder = Nobody \/ elapsed < FetchTimeout
    /\ kept' = Age(kept, MissInterval)
    /\ gone' = [k \in Keys |-> IF k = current THEN 0 ELSE Age(gone[k], RefreshInterval)]
    /\ fetched' = Age(fetched, RefreshInterval)
    /\ missed' = Age(missed, MissInterval)
    /\ elapsed' = IF holder = Nobody THEN 0 ELSE elapsed + 1
    /\ UNCHANGED <<current, keys, lost, queue, holder, reply, request>>

\* Identity starts to sign with another key, and publishes that one.
Rotate(k) ==
    /\ k # current
    /\ current' = k /\ kept' = 0
    /\ gone' = [gone EXCEPT ![k] = 0]
    /\ request' = [r \in Callers |->
                      [request[r] EXCEPT !.late = @ /\ request[r].kid # k,
                                         !.known = @ /\ request[r].stage # "fetching"]]
    /\ UNCHANGED <<keys, fetched, missed, lost, queue, fetchVars>>

\* keys_for: the request asks for the mutex.
Arrive(r, k, named) ==
    /\ request[r].stage = "idle"
    /\ request' = [request EXCEPT ![r] = [Idle EXCEPT !.stage = "waiting", !.kid = k,
                                                      !.named = named]]
    /\ queue' = Append(queue, r)
    /\ UNCHANGED <<publicVars, keys, fetched, missed, lost, fetchVars>>

\* At its turn, what Identity has published so far is noted.
Noted(r) ==
    [request[r] EXCEPT
        !.late = request[r].kid # current /\ gone[request[r].kid] >= RefreshInterval,
        !.known = request[r].kid = current /\ kept >= MissInterval /\ ~lost]

\* The request's token is checked with the keys cached by then.
Decide(req, cached, outcome) ==
    [req EXCEPT !.stage = IF req.kid \in cached THEN "accepted" ELSE "refused",
                !.fetch = outcome]

\* It has the mutex.  With nothing to fetch it is answered at once, and the
\* mutex given back; otherwise it starts to fetch.  A refresh for an unknown
\* key is noted before its fetch, whatever comes of it.
Lock(r) ==
    /\ holder = Nobody /\ queue # <<>> /\ Head(queue) = r
    /\ queue' = Tail(queue)
    /\ IF Stale \/ (Missing(r) /\ MissRefreshAllowed)
       THEN /\ holder' = r /\ elapsed' = 0 /\ reply' = {}
            /\ missed' = IF Stale THEN missed ELSE 0
            /\ lost' = IF Stale THEN lost ELSE TRUE
            /\ request' = [request EXCEPT ![r] = [Noted(r) EXCEPT !.stage = "fetching"]]
       ELSE /\ request' = [request EXCEPT ![r] = Decide(Noted(r), keys, "none")]
            /\ UNCHANGED <<missed, lost, fetchVars>>
    /\ UNCHANGED <<publicVars, keys, fetched>>

\* The server answers with the set it publishes.
Serve(r) ==
    /\ holder = r /\ reply = {}
    /\ reply' = {current}
    /\ UNCHANGED <<publicVars, keys, fetched, missed, lost, queue, holder, elapsed, request>>

\* fetched_at is the instant the answer came.
FetchedAge_AtTheEnd == 0

\* fetched_at is the instant read before the fetch.
FetchedAge == elapsed

Unlock == holder' = Nobody /\ reply' = {} /\ elapsed' = 0

FetchOk(r) ==
    /\ holder = r /\ reply # {}
    /\ keys' = reply
    /\ fetched' = FetchedAge
    /\ lost' = FALSE
    /\ request' = [request EXCEPT ![r] = Decide(request[r], reply, "ok")]
    /\ Unlock
    /\ UNCHANGED <<publicVars, missed, queue>>

\* No connection, the timeout, an error status, or no key set: the cache stays.
FetchFailed(r) ==
    /\ holder = r
    /\ request' = [request EXCEPT ![r] = Decide(request[r], keys, "failed")]
    /\ Unlock
    /\ UNCHANGED <<publicVars, keys, fetched, missed, lost, queue>>

\* The client closes its connection.
Leave(r) ==
    /\ \/ /\ request[r].stage = "waiting"
          /\ \E i \in DOMAIN queue : queue[i] = r /\ queue' = RemoveAt(queue, i)
          /\ UNCHANGED fetchVars
       \/ request[r].stage = "fetching" /\ Unlock /\ UNCHANGED queue
    /\ request' = [request EXCEPT ![r] = Idle]
    /\ UNCHANGED <<publicVars, keys, fetched, missed, lost>>

\* The answer is sent.
Finish(r) ==
    /\ request[r].stage \in {"accepted", "refused"}
    /\ request' = [request EXCEPT ![r] = Idle]
    /\ UNCHANGED <<publicVars, keys, fetched, missed, lost, queue, fetchVars>>

IdentityNext ==
    \/ Pass
    \/ \E k \in Keys : Rotate(k)
    \/ \E r \in Callers :
          \/ \E k \in Keys, named \in BOOLEAN : Arrive(r, k, named)
          \/ Lock(r) \/ Serve(r) \/ FetchOk(r) \/ FetchFailed(r) \/ Leave(r) \/ Finish(r)

IdentitySpec == IdentityInit /\ [][IdentityNext]_identityVars

-----------------------------------------------------------------------------
(* Properties *)

IdentityTypeOK ==
    /\ current \in Keys
    /\ kept \in 0..MissInterval
    /\ lost \in BOOLEAN
    /\ gone \in [Keys -> 0..RefreshInterval]
    /\ keys \subseteq Keys /\ reply \subseteq Keys
    /\ fetched \in Nat \cup {NotYet}
    /\ missed \in Nat \cup {NotYet}
    /\ queue \in Seq(Callers)
    /\ holder \in Callers \cup {Nobody}
    /\ elapsed \in 0..FetchTimeout
    /\ request \in [Callers -> Request]

\* A token signed by a key Identity gave up RefreshInterval ago is refused,
\* unless the request tried to fetch the set and could not: a cached set never
\* outlives its interval because of the time its fetch took, of a request that
\* waited behind another one's, or of a client that left in the middle.
WithdrawnKeysExpire ==
    \A r \in Callers : request[r].stage = "accepted" /\ request[r].late
                            => request[r].fetch = "failed"

\* A token that names the key Identity has published for MissInterval and more
\* is refused only because a fetch was lost: the request's own, or the one for
\* an unknown key that keeps it from fetching, which began less than
\* MissInterval before and failed or was given up by its client.
CurrentKeyIsLearned ==
    \A r \in Callers :
        request[r].stage = "refused" /\ request[r].named /\ request[r].known
            => request[r].fetch = "failed"
=============================================================================
