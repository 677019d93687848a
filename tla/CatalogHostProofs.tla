--------------------------- MODULE CatalogHostProofs ---------------------------
(***************************************************************************)
(* What holds of the catalog host for any keys, events, feeds and          *)
(* dispatchers, any number of requests, and any intervals and timeouts.    *)
(*                                                                         *)
(* The key set.  The two properties speak of a request that has been       *)
(* answered; what they rest on is what is known of the cache in between.   *)
(* Ages tells how old a cached or answered key can be: a set is no older   *)
(* than the instant kept with it, which was read before its fetch.         *)
(* Fetching tells of the one request that fetches: what was noted of its   *)
(* key at its turn still holds of the set it will be answered with.        *)
(* Learning tells why a key that was there long enough is in the cache     *)
(* once a fetch for an unknown key has come home.                          *)
(*                                                                         *)
(* The feed.  The cursor skips nothing because a batch has no gaps         *)
(* (Batches) and is passed in order (InTurn), and because no row can still *)
(* commit behind it (Committing).  An event counts once because its inbox  *)
(* key is held by one transaction at a time (Keyed).                       *)
(*                                                                         *)
(* The sales.  A transaction holds the row of every track it has upserted  *)
(* (Locked), so what it lands is the sums of the committed events and its  *)
(* own (Exact), one event's units more (SumAdd).                           *)
(***************************************************************************)
EXTENDS RemoteIdentity, OutboxFeed, SumsProofs

-----------------------------------------------------------------------------
(* The key set *)

Types == IdentityTypeOK

\* A published key is of age 0, a cached one no older than the set, one just
\* answered no older than the fetch.
Ages ==
    /\ gone[current] = 0
    /\ \A k \in keys : fetched # NotYet /\ gone[k] <= fetched
    /\ \A k \in reply : gone[k] <= elapsed

\* The request that holds the mutex across a fetch.
Fetching ==
    /\ holder = Nobody => reply = {}
    /\ \A r \in Callers : holder = r =>
          /\ request[r].stage = "fetching"
          /\ request[r].late => request[r].kid # current /\ request[r].kid \notin reply
          /\ request[r].known => /\ request[r].kid = current
                                 /\ reply = {} \/ current \in reply

\* An unknown key's refresh that came home brought the key that was published
\* when it began, and a set answered since lacks only a younger one.
Learning ==
    /\ kept <= MissInterval
    /\ missed # NotYet /\ ~lost /\ missed < kept => current \in keys
    /\ reply # {} /\ current \notin reply => kept <= elapsed
    /\ holder # Nobody /\ missed # NotYet => missed >= elapsed \/ missed >= MissInterval

IInv == Types /\ Ages /\ Fetching /\ Learning
        /\ WithdrawnKeysExpire /\ CurrentKeyIsLearned

-----------------------------------------------------------------------------

LEMMA IdleIsRequest == ASSUME Keys # {} PROVE Idle \in Request
<1>1. (CHOOSE k \in Keys : TRUE) \in Keys
  OBVIOUS
<1> QED BY <1>1 DEF Idle, Request

LEMMA Limits ==
    /\ RefreshInterval \in Nat /\ MissInterval \in Nat /\ FetchTimeout \in Nat
    /\ 0 < RefreshInterval /\ 0 < MissInterval
    /\ NotYet \notin Nat /\ Nobody \notin Callers
BY IntervalsAssumption

LEMMA InitInv == ASSUME IdentityInit PROVE IInv
<1>1. Idle \in Request
  BY IdleIsRequest DEF IdentityInit
<1>2. Types
  <2>1. current \in Keys /\ kept \in 0..MissInterval
    BY Limits DEF IdentityInit
  <2>7. lost \in BOOLEAN
    BY DEF IdentityInit
  <2>2. gone \in [Keys -> 0..RefreshInterval]
    BY Limits DEF IdentityInit
  <2>3. keys \subseteq Keys /\ reply \subseteq Keys /\ holder \in Callers \cup {Nobody}
    BY DEF IdentityInit
  <2>4. fetched \in Nat \cup {NotYet} /\ missed \in Nat \cup {NotYet}
        /\ elapsed \in 0..FetchTimeout
    BY Limits DEF IdentityInit
  <2>5. queue \in Seq(Callers)
    BY DEF IdentityInit
  <2>6. request \in [Callers -> Request]
    BY <1>1 DEF IdentityInit
  <2> QED BY <2>1, <2>2, <2>3, <2>4, <2>5, <2>6, <2>7 DEF Types, IdentityTypeOK
<1>3. Ages /\ Fetching /\ Learning
  BY Limits DEF Ages, Fetching, Learning, IdentityInit
<1>4. WithdrawnKeysExpire /\ CurrentKeyIsLearned
  BY DEF WithdrawnKeysExpire, CurrentKeyIsLearned, Idle, IdentityInit
<1> QED BY <1>2, <1>3, <1>4 DEF IInv

-----------------------------------------------------------------------------
(* The steps *)

\* An age goes up by one until it reaches its limit, or was beyond it.
LEMMA Ageing ==
    ASSUME NEW age \in Nat, NEW limit \in Nat
    PROVE  Age(age, limit) = IF age >= limit THEN age ELSE age + 1
BY Limits DEF Age

LEMMA Unaged == ASSUME NEW limit PROVE Age(NotYet, limit) = NotYet
BY DEF Age

LEMMA PassInv == ASSUME IInv, Pass PROVE IInv'
<1>0. Types /\ Ages /\ Fetching /\ Learning /\ WithdrawnKeysExpire /\ CurrentKeyIsLearned
  BY DEF IInv
<1>1. /\ kept \in Nat /\ kept <= MissInterval
      /\ kept' = IF kept >= MissInterval THEN kept ELSE kept + 1
  <2>1. kept \in Nat /\ kept <= MissInterval /\ kept' = Age(kept, MissInterval)
    BY <1>0, Limits DEF Types, IdentityTypeOK, Pass
  <2> QED BY <2>1, Ageing, Limits
<1>2. \/ missed = NotYet /\ missed' = NotYet
      \/ /\ missed \in Nat
         /\ missed' = IF missed >= MissInterval THEN missed ELSE missed + 1
  <2>1. (missed = NotYet \/ missed \in Nat) /\ missed' = Age(missed, MissInterval)
    BY <1>0 DEF Types, IdentityTypeOK, Pass
  <2> QED BY <2>1, Ageing, Unaged, Limits
<1>3. \/ fetched = NotYet /\ fetched' = NotYet
      \/ /\ fetched \in Nat
         /\ fetched' = IF fetched >= RefreshInterval THEN fetched ELSE fetched + 1
  <2>1. (fetched = NotYet \/ fetched \in Nat) /\ fetched' = Age(fetched, RefreshInterval)
    BY <1>0 DEF Types, IdentityTypeOK, Pass
  <2> QED BY <2>1, Ageing, Unaged, Limits
<1>4. /\ elapsed \in Nat
      /\ elapsed' = IF holder = Nobody THEN 0 ELSE elapsed + 1
      /\ elapsed' \in 0..FetchTimeout
  BY <1>0, Limits DEF Types, IdentityTypeOK, Pass
<1>5. /\ current \in Keys /\ gone'[current] = 0 /\ gone[current] = 0
      /\ \A k \in Keys : /\ gone[k] \in Nat /\ gone[k] <= RefreshInterval
                         /\ \/ gone'[k] = 0
                            \/ gone'[k] = IF gone[k] >= RefreshInterval THEN gone[k]
                                          ELSE gone[k] + 1
  <2>1. current \in Keys /\ gone[current] = 0 /\ gone'[current] = 0
    BY <1>0 DEF Types, IdentityTypeOK, Ages, Pass
  <2>2. ASSUME NEW k \in Keys
        PROVE  /\ gone[k] \in Nat /\ gone[k] <= RefreshInterval
               /\ gone'[k] = 0 \/ gone'[k] = Age(gone[k], RefreshInterval)
    BY <1>0, Limits DEF Types, IdentityTypeOK, Pass
  <2> QED BY <2>1, <2>2, Ageing, Limits
<1>6. UNCHANGED <<current, keys, lost, queue, holder, reply, request>>
  BY DEF Pass
<1>7. Types'
  <2>1. kept' \in 0..MissInterval /\ missed' \in Nat \cup {NotYet}
        /\ fetched' \in Nat \cup {NotYet}
    BY <1>1, <1>2, <1>3, Limits
  <2>2. \A k \in Keys : gone'[k] \in 0..RefreshInterval
    BY <1>5, Limits
  <2>3. gone' \in [Keys -> 0..RefreshInterval]
    <3>1. gone' = [k \in Keys |-> gone'[k]]
      BY DEF Pass
    <3> QED BY <3>1, <2>2
  <2> QED BY <2>1, <2>3, <1>4, <1>6, <1>0 DEF Types, IdentityTypeOK
<1>8. Ages'
  <2>1. ASSUME NEW k \in keys' PROVE fetched' # NotYet /\ gone'[k] <= fetched'
    <3>1. k \in Keys /\ fetched # NotYet /\ gone[k] <= fetched
      BY <1>0, <1>6 DEF Ages, Types, IdentityTypeOK
    <3> QED BY <3>1, <1>3, <1>5, Limits
  <2>2. ASSUME NEW k \in reply' PROVE gone'[k] <= elapsed'
    <3>1. k \in Keys /\ gone[k] <= elapsed /\ holder # Nobody
      BY <1>0, <1>6 DEF Ages, Fetching, Types, IdentityTypeOK
    <3> QED BY <3>1, <1>4, <1>5, Limits
  <2> QED BY <2>1, <2>2, <1>5, <1>6 DEF Ages
<1>9. Fetching'
  BY <1>0, <1>6 DEF Fetching
<1>10. Learning'
  <2>1. kept' <= MissInterval
    BY <1>1, Limits
  <2>2. ASSUME missed' # NotYet, ~lost', missed' < kept' PROVE current' \in keys'
    <3>1. missed # NotYet /\ missed < kept /\ ~lost
      BY <1>1, <1>2, <1>6, <2>2, Limits
    <3> QED BY <3>1, <1>0, <1>6 DEF Learning
  <2>3. ASSUME reply' # {}, current' \notin reply' PROVE kept' <= elapsed'
    <3>1. holder # Nobody /\ kept <= elapsed
      BY <1>0, <1>6, <2>3 DEF Learning, Fetching
    <3> QED BY <3>1, <1>1, <1>4, Limits
  <2>4. ASSUME holder' # Nobody, missed' # NotYet
        PROVE  missed' >= elapsed' \/ missed' >= MissInterval
    <3>1. holder # Nobody /\ missed # NotYet /\ missed \in Nat
      BY <1>2, <1>6, <2>4, Limits
    <3>2. missed >= elapsed \/ missed >= MissInterval
      BY <3>1, <1>0 DEF Learning
    <3> QED BY <3>1, <3>2, <1>2, <1>4, Limits
  <2> QED BY <2>1, <2>2, <2>3, <2>4 DEF Learning
<1>11. WithdrawnKeysExpire' /\ CurrentKeyIsLearned'
  BY <1>0, <1>6 DEF WithdrawnKeysExpire, CurrentKeyIsLearned
<1> QED BY <1>7, <1>8, <1>9, <1>10, <1>11 DEF IInv

-----------------------------------------------------------------------------
(* Requests *)

\* What an update leaves of a request, and what it sets.
LEMMA Fields ==
    ASSUME NEW req \in Request
    PROVE  /\ req.stage \in {"idle", "waiting", "fetching", "accepted", "refused"}
           /\ req.kid \in Keys /\ req.named \in BOOLEAN
           /\ req.late \in BOOLEAN /\ req.known \in BOOLEAN
           /\ req.fetch \in {"none", "ok", "failed"}
BY DEF Request

LEMMA Decided ==
    ASSUME NEW req \in Request, NEW cached, NEW outcome \in {"none", "ok", "failed"}
    PROVE  LET d == Decide(req, cached, outcome)
           IN  /\ d \in Request
               /\ d.kid = req.kid /\ d.named = req.named /\ d.late = req.late
               /\ d.known = req.known /\ d.fetch = outcome
               /\ d.stage = "accepted" <=> req.kid \in cached
               /\ d.stage = "refused" <=> req.kid \notin cached
<1> DEFINE answer == IF req.kid \in cached THEN "accepted" ELSE "refused"
           d == [req EXCEPT !.stage = answer, !.fetch = outcome]
<1>1. answer \in {"accepted", "refused"} /\ (answer = "accepted" <=> req.kid \in cached)
  OBVIOUS
<1> HIDE DEF answer
<1>2. /\ d \in Request /\ d.stage = answer /\ d.fetch = outcome
      /\ d.kid = req.kid /\ d.named = req.named /\ d.late = req.late /\ d.known = req.known
  BY <1>1 DEF Request
<1>3. Decide(req, cached, outcome) = d
  BY DEF Decide, answer
<1> HIDE DEF d
<1> QED BY <1>1, <1>2, <1>3

LEMMA Notes ==
    ASSUME Types, NEW r \in Callers
    PROVE  /\ Noted(r) \in Request
           /\ [Noted(r) EXCEPT !.stage = "fetching"] \in Request
           /\ Noted(r).kid = request[r].kid /\ Noted(r).named = request[r].named
           /\ Noted(r).late <=> /\ request[r].kid # current
                                /\ gone[request[r].kid] >= RefreshInterval
           /\ Noted(r).known <=> request[r].kid = current /\ kept >= MissInterval /\ ~lost
<1>1. request[r] \in Request /\ lost \in BOOLEAN
  BY DEF Types, IdentityTypeOK
<1>2. Noted(r) \in Request
  BY <1>1 DEF Noted, Request
<1>3. [Noted(r) EXCEPT !.stage = "fetching"] \in Request
  BY <1>2 DEF Request
<1>4. Noted(r).kid = request[r].kid /\ Noted(r).named = request[r].named
  BY <1>1 DEF Noted, Request
<1>5. Noted(r).late <=> request[r].kid # current /\ gone[request[r].kid] >= RefreshInterval
  BY <1>1 DEF Noted, Request
<1>6. Noted(r).known <=> request[r].kid = current /\ kept >= MissInterval /\ ~lost
  BY <1>1 DEF Noted, Request
<1> QED BY <1>2, <1>3, <1>4, <1>5, <1>6

\* All that an action which moves one request, and neither time nor the cache,
\* has to show.
LEMMA OneRequest ==
    ASSUME IInv, NEW r \in Callers, NEW req \in Request,
           request' = [request EXCEPT ![r] = req],
           queue' \in Seq(Callers),
           UNCHANGED <<publicVars, keys, fetched, missed, lost>>,
           \/ UNCHANGED fetchVars /\ holder # r
           \/ Unlock,
           req.stage = "accepted" /\ req.late => req.fetch = "failed",
           req.stage = "refused" /\ req.named /\ req.known => req.fetch = "failed"
    PROVE  IInv'
<1>0. Types /\ Ages /\ Fetching /\ Learning /\ WithdrawnKeysExpire /\ CurrentKeyIsLearned
  BY DEF IInv
<1>1. /\ request \in [Callers -> Request] /\ request' \in [Callers -> Request]
      /\ request'[r] = req /\ \A o \in Callers \ {r} : request'[o] = request[o]
  BY <1>0 DEF Types, IdentityTypeOK
<1>2. UNCHANGED <<current, kept, gone, keys, fetched, missed, lost>>
  BY DEF publicVars
<1>3. \/ UNCHANGED <<holder, elapsed, reply>> /\ holder # r
      \/ holder' = Nobody /\ reply' = {} /\ elapsed' = 0
  BY DEF fetchVars, Unlock
<1>4. Types'
  <2>1. holder' \in Callers \cup {Nobody} /\ reply' \subseteq Keys
        /\ elapsed' \in 0..FetchTimeout
    BY <1>0, <1>3, Limits DEF Types, IdentityTypeOK
  <2> QED BY <2>1, <1>0, <1>1, <1>2 DEF Types, IdentityTypeOK
<1>5. Ages'
  BY <1>0, <1>2, <1>3 DEF Ages
<1>6. Fetching'
  BY <1>0, <1>1, <1>2, <1>3, Limits DEF Fetching
<1>7. Learning'
  BY <1>0, <1>2, <1>3 DEF Learning
<1>8. WithdrawnKeysExpire' /\ CurrentKeyIsLearned'
  BY <1>0, <1>1 DEF WithdrawnKeysExpire, CurrentKeyIsLearned
<1> QED BY <1>4, <1>5, <1>6, <1>7, <1>8 DEF IInv

LEMMA NotFetching ==
    ASSUME IInv, NEW r \in Callers, request[r].stage # "fetching"
    PROVE  holder # r
BY DEF IInv, Fetching

LEMMA ArriveInv ==
    ASSUME IInv, NEW r \in Callers, NEW k \in Keys, NEW named \in BOOLEAN, Arrive(r, k, named)
    PROVE  IInv'
<1> DEFINE req == [Idle EXCEPT !.stage = "waiting", !.kid = k, !.named = named]
<1>1. req \in Request /\ req.stage = "waiting"
  BY DEF Idle, Request
<1>2. queue' \in Seq(Callers)
  BY DEF Arrive, IInv, Types, IdentityTypeOK
<1>3. holder # r
  BY NotFetching DEF Arrive
<1> HIDE DEF req
<1>4. request' = [request EXCEPT ![r] = req]
  BY DEF Arrive, req
<1> QED BY <1>1, <1>2, <1>3, <1>4, OneRequest DEF Arrive

LEMMA FinishInv == ASSUME IInv, NEW r \in Callers, Finish(r) PROVE IInv'
<1>1. Idle \in Request /\ Idle.stage = "idle"
  BY IdleIsRequest DEF Idle, IInv, Types, IdentityTypeOK
<1>2. queue' \in Seq(Callers)
  BY DEF Finish, IInv, Types, IdentityTypeOK
<1>3. holder # r
  BY NotFetching DEF Finish
<1> QED BY <1>1, <1>2, <1>3, OneRequest DEF Finish

LEMMA FetchFailedInv == ASSUME IInv, NEW r \in Callers, FetchFailed(r) PROVE IInv'
<1> DEFINE req == Decide(request[r], keys, "failed")
<1>1. req \in Request /\ req.fetch = "failed"
  BY Decided DEF IInv, Types, IdentityTypeOK
<1>2. queue' \in Seq(Callers)
  BY DEF FetchFailed, IInv, Types, IdentityTypeOK
<1> HIDE DEF req
<1>4. request' = [request EXCEPT ![r] = req]
  BY DEF FetchFailed, req
<1> QED BY <1>1, <1>2, <1>4, OneRequest DEF FetchFailed

LEMMA LeaveInv == ASSUME IInv, NEW r \in Callers, Leave(r) PROVE IInv'
<1>1. Idle \in Request /\ Idle.stage = "idle"
  BY IdleIsRequest DEF Idle, IInv, Types, IdentityTypeOK
<1>2. queue \in Seq(Callers)
  BY DEF IInv, Types, IdentityTypeOK
<1>3. CASE request[r].stage = "fetching" /\ Unlock /\ UNCHANGED queue
  BY <1>1, <1>2, <1>3, OneRequest DEF Leave
<1>4. CASE /\ request[r].stage = "waiting"
           /\ \E i \in DOMAIN queue : queue[i] = r /\ queue' = RemoveAt(queue, i)
           /\ UNCHANGED fetchVars
  <2>1. queue' \in Seq(Callers)
    BY <1>2, <1>4 DEF RemoveAt
  <2>2. holder # r
    BY <1>4, NotFetching
  <2> QED BY <1>1, <1>4, <2>1, <2>2, OneRequest DEF Leave
<1> QED BY <1>3, <1>4 DEF Leave

-----------------------------------------------------------------------------
(* The other steps *)

LEMMA RotateInv == ASSUME IInv, NEW k \in Keys, Rotate(k) PROVE IInv'
<1>0. Types /\ Ages /\ Fetching /\ Learning /\ WithdrawnKeysExpire /\ CurrentKeyIsLearned
  BY DEF IInv
<1>1. /\ k # current /\ current' = k /\ kept' = 0
      /\ gone' \in [Keys -> 0..RefreshInterval] /\ gone'[k] = 0
      /\ \A j \in Keys \ {k} : gone'[j] = gone[j]
  <2>1. gone \in [Keys -> 0..RefreshInterval] /\ 0 \in 0..RefreshInterval
    BY <1>0, Limits DEF Types, IdentityTypeOK
  <2>2. k # current /\ current' = k /\ kept' = 0 /\ gone' = [gone EXCEPT ![k] = 0]
    BY DEF Rotate
  <2> QED BY <2>1, <2>2
<1>2. UNCHANGED <<keys, fetched, missed, lost, queue, holder, elapsed, reply>>
  BY DEF Rotate, fetchVars
<1>3. ASSUME NEW r \in Callers
      PROVE  /\ request'[r] \in Request
             /\ request'[r].stage = request[r].stage /\ request'[r].kid = request[r].kid
             /\ request'[r].named = request[r].named /\ request'[r].fetch = request[r].fetch
             /\ request'[r].late => request[r].late /\ request[r].kid # k
             /\ request'[r].known => request[r].known /\ request[r].stage # "fetching"
  <2>1. /\ request[r] \in Request
        /\ request'[r] = [request[r] EXCEPT !.late = @ /\ request[r].kid # k,
                                            !.known = @ /\ request[r].stage # "fetching"]
    BY <1>0 DEF Rotate, Types, IdentityTypeOK
  <2> QED BY <2>1 DEF Request
<1>4. request' \in [Callers -> Request]
  <2>1. request' = [r \in Callers |-> request'[r]]
    BY DEF Rotate
  <2> QED BY <2>1, <1>3
<1>5. Types'
  BY <1>0, <1>1, <1>2, <1>4, Limits DEF Types, IdentityTypeOK
<1>6. Ages'
  <2>1. ASSUME NEW j \in keys PROVE fetched # NotYet /\ gone'[j] <= fetched
    <3>1. /\ j \in Keys /\ gone[j] <= fetched /\ fetched # NotYet /\ fetched \in Nat
      BY <1>0 DEF Ages, Types, IdentityTypeOK
    <3>2. gone'[j] = 0 \/ gone'[j] = gone[j]
      BY <1>1, <3>1
    <3> QED BY <3>1, <3>2
  <2>2. ASSUME NEW j \in reply PROVE gone'[j] <= elapsed
    <3>1. j \in Keys /\ gone[j] <= elapsed /\ elapsed \in Nat
      BY <1>0, Limits DEF Ages, Types, IdentityTypeOK
    <3>2. gone'[j] = 0 \/ gone'[j] = gone[j]
      BY <1>1, <3>1
    <3> QED BY <3>1, <3>2
  <2> QED BY <1>1, <1>2, <2>1, <2>2 DEF Ages
<1>7. Fetching'
  BY <1>0, <1>1, <1>2, <1>3 DEF Fetching
<1>8. Learning'
  BY <1>0, <1>1, <1>2, Limits DEF Learning, Types, IdentityTypeOK
<1>9. WithdrawnKeysExpire'
  BY <1>0, <1>3 DEF WithdrawnKeysExpire
<1>10. CurrentKeyIsLearned'
  BY <1>0, <1>3 DEF CurrentKeyIsLearned
<1> QED BY <1>5, <1>6, <1>7, <1>8, <1>9, <1>10 DEF IInv

\* With nothing to fetch, the cached set is good enough for every token.
LEMMA AnsweredFromCache ==
    ASSUME IInv, NEW r \in Callers, ~Stale, ~(Missing(r) /\ MissRefreshAllowed)
    PROVE  LET req == Decide(Noted(r), keys, "none")
           IN  /\ req \in Request
               /\ req.stage = "accepted" => ~req.late
               /\ req.stage = "refused" /\ req.named => ~req.known
<1> DEFINE req == Decide(Noted(r), keys, "none")
<1>0. Types /\ Ages /\ Learning
  BY DEF IInv
<1>1. /\ request[r] \in Request /\ request[r].kid \in Keys
      /\ request[r].named \in BOOLEAN
  BY <1>0, Fields DEF Types, IdentityTypeOK
<1>2. /\ req \in Request
      /\ req.kid = request[r].kid /\ req.named = request[r].named
      /\ req.late <=> request[r].kid # current /\ gone[request[r].kid] >= RefreshInterval
      /\ req.known <=> request[r].kid = current /\ kept >= MissInterval /\ ~lost
      /\ req.stage = "accepted" <=> request[r].kid \in keys
      /\ req.stage = "refused" <=> request[r].kid \notin keys
  <2>1. /\ Noted(r) \in Request
        /\ Noted(r).kid = request[r].kid /\ Noted(r).named = request[r].named
        /\ Noted(r).late <=> /\ request[r].kid # current
                             /\ gone[request[r].kid] >= RefreshInterval
        /\ Noted(r).known <=> request[r].kid = current /\ kept >= MissInterval /\ ~lost
    BY <1>0, Notes
  <2>2. /\ req \in Request
        /\ req.kid = Noted(r).kid /\ req.named = Noted(r).named
        /\ req.late = Noted(r).late /\ req.known = Noted(r).known
        /\ req.stage = "accepted" <=> Noted(r).kid \in keys
        /\ req.stage = "refused" <=> Noted(r).kid \notin keys
    BY <2>1, Decided
  <2> QED BY <2>1, <2>2
<1> HIDE DEF req
<1>3. ASSUME req.stage = "accepted", req.late PROVE FALSE
  <2>1. /\ fetched # NotYet /\ gone[request[r].kid] <= fetched
        /\ gone[request[r].kid] >= RefreshInterval
    BY <1>0, <1>2, <1>3 DEF Ages
  <2>2. fetched \in Nat /\ fetched < RefreshInterval
    BY <1>0, <2>1, Limits DEF Stale, Types, IdentityTypeOK
  <2>3. gone[request[r].kid] \in Nat
    BY <1>0, <1>1, Limits DEF Types, IdentityTypeOK
  <2> QED BY <2>1, <2>2, <2>3, Limits
<1>4. ASSUME req.stage = "refused", req.named, req.known PROVE FALSE
  <2>1. current \notin keys /\ kept >= MissInterval /\ ~lost
    BY <1>2, <1>4
  <2>2. ~MissRefreshAllowed
    BY <1>2, <1>4 DEF Missing
  <2>3. missed \in Nat /\ missed # NotYet /\ missed < MissInterval /\ kept \in Nat
    BY <1>0, <2>2, Limits DEF MissRefreshAllowed, Types, IdentityTypeOK
  <2>4. missed < kept
    BY <2>1, <2>3, Limits
  <2> QED BY <1>0, <2>1, <2>3, <2>4 DEF Learning
<1> QED BY <1>2, <1>3, <1>4 DEF req

LEMMA LockInv == ASSUME IInv, NEW r \in Callers, Lock(r) PROVE IInv'
<1>0. Types /\ Ages /\ Fetching /\ Learning /\ WithdrawnKeysExpire /\ CurrentKeyIsLearned
  BY DEF IInv
<1>1. queue' \in Seq(Callers) /\ holder = Nobody /\ holder # r
  BY <1>0, Limits DEF Lock, Types, IdentityTypeOK
<1>2. CASE ~(Stale \/ (Missing(r) /\ MissRefreshAllowed))
  <2> DEFINE req == Decide(Noted(r), keys, "none")
  <2>1. /\ req \in Request
        /\ req.stage = "accepted" => ~req.late
        /\ req.stage = "refused" /\ req.named => ~req.known
    BY <1>2, AnsweredFromCache
  <2> HIDE DEF req
  <2>2. request' = [request EXCEPT ![r] = req]
    BY <1>2 DEF Lock, req
  <2> QED BY <1>1, <1>2, <2>1, <2>2, OneRequest DEF Lock
<1>3. CASE Stale \/ (Missing(r) /\ MissRefreshAllowed)
  <2> DEFINE req == [Noted(r) EXCEPT !.stage = "fetching"]
  <2>1. /\ req \in Request /\ req.stage = "fetching"
        /\ req.late => req.kid # current
        /\ req.known => req.kid = current
    <3>1. Noted(r) \in Request
      BY <1>0, Notes
    <3>2. /\ req.stage = "fetching" /\ req.kid = Noted(r).kid
          /\ req.late = Noted(r).late /\ req.known = Noted(r).known
      BY <3>1 DEF Request
    <3> QED BY <1>0, <3>2, Notes
  <2> HIDE DEF req
  <2>2. /\ holder' = r /\ elapsed' = 0 /\ reply' = {}
        /\ \/ missed' = missed /\ lost' = lost
           \/ missed' = 0 /\ lost' = TRUE
        /\ UNCHANGED <<current, kept, gone, keys, fetched>>
    BY <1>3 DEF Lock, publicVars
  <2>3. /\ request' \in [Callers -> Request] /\ request'[r] = req
        /\ \A o \in Callers \ {r} : request'[o] = request[o]
    BY <1>0, <1>3, <2>1 DEF Lock, Types, IdentityTypeOK, req
  <2>4. Types'
    <3>1. /\ missed' \in Nat \cup {NotYet} /\ elapsed' \in 0..FetchTimeout
          /\ holder' \in Callers \cup {Nobody} /\ reply' \subseteq Keys
      BY <1>0, <2>2, Limits DEF Types, IdentityTypeOK
    <3>2. lost' \in BOOLEAN
      BY <1>0, <2>2 DEF Types, IdentityTypeOK
    <3> QED BY <1>0, <1>1, <2>2, <2>3, <3>1, <3>2 DEF Types, IdentityTypeOK
  <2>5. Ages'
    BY <1>0, <2>2 DEF Ages
  <2>6. Fetching'
    BY <2>1, <2>2, <2>3, Limits DEF Fetching
  <2>7. Learning'
    BY <1>0, <2>2, Limits DEF Learning, Types, IdentityTypeOK
  <2>8. WithdrawnKeysExpire' /\ CurrentKeyIsLearned'
    BY <1>0, <2>1, <2>3 DEF WithdrawnKeysExpire, CurrentKeyIsLearned
  <2> QED BY <2>4, <2>5, <2>6, <2>7, <2>8 DEF IInv
<1> QED BY <1>2, <1>3

LEMMA ServeInv == ASSUME IInv, NEW r \in Callers, Serve(r) PROVE IInv'
<1>0. Types /\ Ages /\ Fetching /\ Learning /\ WithdrawnKeysExpire /\ CurrentKeyIsLearned
  BY DEF IInv
<1>1. /\ holder = r /\ reply = {} /\ reply' = {current}
      /\ UNCHANGED <<current, kept, gone, keys, fetched, missed, lost, queue, holder,
                     elapsed, request>>
  BY DEF Serve, publicVars
<1>2. Types'
  BY <1>0, <1>1 DEF Types, IdentityTypeOK
<1>3. Ages'
  BY <1>0, <1>1 DEF Ages, Types, IdentityTypeOK
<1>4. Fetching'
  BY <1>0, <1>1, Limits DEF Fetching
<1>5. Learning'
  BY <1>0, <1>1 DEF Learning
<1>6. WithdrawnKeysExpire' /\ CurrentKeyIsLearned'
  BY <1>0, <1>1 DEF WithdrawnKeysExpire, CurrentKeyIsLearned
<1> QED BY <1>2, <1>3, <1>4, <1>5, <1>6 DEF IInv

LEMMA FetchOkInv == ASSUME IInv, NEW r \in Callers, FetchOk(r) PROVE IInv'
<1> DEFINE req == Decide(request[r], reply, "ok")
<1>0. Types /\ Ages /\ Fetching /\ Learning /\ WithdrawnKeysExpire /\ CurrentKeyIsLearned
  BY DEF IInv
<1>1. /\ holder = r /\ reply # {} /\ keys' = reply /\ fetched' = elapsed /\ lost' = FALSE
      /\ holder' = Nobody /\ reply' = {} /\ elapsed' = 0
      /\ UNCHANGED <<current, kept, gone, missed, queue>>
  BY DEF FetchOk, FetchedAge, Unlock, publicVars
<1>2. /\ req \in Request
      /\ req.late => req.stage # "accepted"
      /\ req.known => req.stage # "refused"
  <2>1. /\ request[r] \in Request
        /\ request[r].late => request[r].kid \notin reply
        /\ request[r].known => request[r].kid \in reply
    BY <1>0, <1>1 DEF Fetching, Types, IdentityTypeOK
  <2> QED BY <2>1, Decided
<1> HIDE DEF req
<1>3. /\ request' \in [Callers -> Request] /\ request'[r] = req
      /\ \A o \in Callers \ {r} : request'[o] = request[o]
  BY <1>0, <1>2 DEF FetchOk, Types, IdentityTypeOK, req
<1>4. Types'
  <2>1. /\ fetched' \in Nat \cup {NotYet} /\ elapsed' \in 0..FetchTimeout
        /\ holder' \in Callers \cup {Nobody} /\ reply' \subseteq Keys
    BY <1>0, <1>1, Limits DEF Types, IdentityTypeOK
  <2> QED BY <1>0, <1>1, <1>3, <2>1 DEF Types, IdentityTypeOK
<1>5. Ages'
  BY <1>0, <1>1, Limits DEF Ages, Types, IdentityTypeOK
<1>6. Fetching'
  BY <1>1, Limits DEF Fetching
<1>7. Learning'
  <2>1. ASSUME missed # NotYet, missed < kept, current \notin reply PROVE FALSE
    <3>1. /\ kept <= elapsed /\ kept <= MissInterval
          /\ missed >= elapsed \/ missed >= MissInterval
      BY <1>0, <1>1, <2>1, Limits DEF Learning
    <3>2. missed \in Nat /\ kept \in Nat /\ elapsed \in Nat
      BY <1>0, <2>1, Limits DEF Types, IdentityTypeOK
    <3> QED BY <3>1, <3>2, <2>1, Limits
  <2> QED BY <1>0, <1>1, <2>1 DEF Learning
<1>8. WithdrawnKeysExpire' /\ CurrentKeyIsLearned'
  BY <1>0, <1>2, <1>3 DEF WithdrawnKeysExpire, CurrentKeyIsLearned
<1> QED BY <1>4, <1>5, <1>6, <1>7, <1>8 DEF IInv

-----------------------------------------------------------------------------
(* The theorems *)

LEMMA NextInv == ASSUME IInv, [IdentityNext]_identityVars PROVE IInv'
<1>1. CASE Pass
  BY <1>1, PassInv
<1>2. ASSUME NEW k \in Keys, Rotate(k) PROVE IInv'
  BY <1>2, RotateInv
<1>3. ASSUME NEW r \in Callers, NEW k \in Keys, NEW named \in BOOLEAN, Arrive(r, k, named)
      PROVE  IInv'
  BY <1>3, ArriveInv
<1>4. ASSUME NEW r \in Callers, Lock(r) PROVE IInv'
  BY <1>4, LockInv
<1>5. ASSUME NEW r \in Callers, Serve(r) PROVE IInv'
  BY <1>5, ServeInv
<1>6. ASSUME NEW r \in Callers, FetchOk(r) PROVE IInv'
  BY <1>6, FetchOkInv
<1>7. ASSUME NEW r \in Callers, FetchFailed(r) PROVE IInv'
  BY <1>7, FetchFailedInv
<1>8. ASSUME NEW r \in Callers, Leave(r) PROVE IInv'
  BY <1>8, LeaveInv
<1>9. ASSUME NEW r \in Callers, Finish(r) PROVE IInv'
  BY <1>9, FinishInv
<1>10. CASE UNCHANGED identityVars
  BY <1>10 DEF identityVars, publicVars, fetchVars, IInv, Types, IdentityTypeOK, Ages,
               Fetching, Learning, WithdrawnKeysExpire, CurrentKeyIsLearned
<1> QED BY <1>1, <1>2, <1>3, <1>4, <1>5, <1>6, <1>7, <1>8, <1>9, <1>10 DEF IdentityNext

LEMMA AlwaysIInv == IdentitySpec => []IInv
<1>1. IdentityInit => IInv
  BY InitInv
<1>2. IInv /\ [IdentityNext]_identityVars => IInv'
  BY NextInv
<1> QED BY <1>1, <1>2, PTL DEF IdentitySpec

\* Every value the key set, its ages and the requests take is of its kind: an
\* age never passes the interval it is compared to, a fetch never its timeout.
THEOREM RemoteIdentityTypes == IdentitySpec => []IdentityTypeOK
<1>1. IInv => IdentityTypeOK
  BY DEF IInv, Types
<1> QED BY <1>1, AlwaysIInv, PTL

\* A token signed by a key given up RefreshInterval ago is refused unless the
\* set could not be fetched, for any number of requests, however long a fetch
\* takes and whoever leaves in the middle of one.
THEOREM WithdrawnKeysAlwaysExpire == IdentitySpec => []WithdrawnKeysExpire
<1>1. IInv => WithdrawnKeysExpire
  BY DEF IInv
<1> QED BY <1>1, AlwaysIInv, PTL

\* A token that names the key published for MissInterval is refused only for a
\* lost fetch: one refresh per MissInterval for unknown keys is enough, whatever
\* forged key ids come in between.
THEOREM CurrentKeyIsAlwaysLearned == IdentitySpec => []CurrentKeyIsLearned
<1>1. IInv => CurrentKeyIsLearned
  BY DEF IInv
<1> QED BY <1>1, AlwaysIInv, PTL
-----------------------------------------------------------------------------
(* The cursor *)

FeedTypes ==
    /\ now \in Nat
    /\ occurred \in [Events -> Nat \cup {Never}]
    /\ outbox \subseteq Events
    /\ cursor \in (Nat \cup {Never}) \X Nat
    /\ inbox \subseteq Events
    /\ rows \in [Feeds -> SUBSET Events]
    /\ stage \in [Workers -> {"idle", "claiming", "applying", "passing"}]
    /\ event \in [Workers -> Events \cup {0}]
    /\ \A w \in Workers : stage[w] # "idle" => event[w] \in Events

\* A row that has not committed yet was stamped inside the settle window, and
\* the cursor stands before it.
Committing ==
    /\ \A e \in Events : occurred[e] # Never => occurred[e] <= now
    /\ \A e \in Events \ outbox : occurred[e] # Never => now - occurred[e] <= CommitDelay
    /\ \A e \in outbox : occurred[e] # Never
    /\ cursor[1] = Never \/ cursor[1] <= now - Settle

\* Whatever comes before a row of the batch is applied, or is in the batch.
Batches ==
    \A f \in Feeds : \A d \in rows[f] :
        /\ d \in outbox /\ Settled(d)
        /\ \A e \in Events : occurred[e] # Never /\ After(Position(d), Position(e)) =>
              e \in inbox \cup Foreign \cup rows[f]

\* A feed has the first row of its batch in hand, and passes it when it is
\* applied or not Catalog's.
InTurn ==
    \A f \in Feeds :
        /\ stage[f] # "idle" => First(event[f], rows[f])
        /\ stage[f] = "passing" => event[f] \in inbox \cup Foreign

CursorInv == FeedTypes /\ Committing /\ Batches /\ InTurn /\ CursorSkipsNothing

LEMMA FeedConstants ==
    /\ Events \subseteq Nat \ {0} /\ Backlog \subseteq Events
    /\ Feeds \cap Dispatchers = {} /\ Settle \in Nat /\ CommitDelay \in Nat
    /\ CommitDelay < Settle /\ Never = -1
BY FeedEventsAssumption, FeedWorkersAssumption, FeedTimesAssumption, SettleAssumption DEF Never

\* Orders stamps a row, commits one, or time passes: nothing slips behind the
\* cursor or into a batch.
LEMMA OrdersStep ==
    ASSUME CursorInv, Tick \/ \E e \in Events : Finalize(e)
    PROVE  CursorInv'
<1> USE DEF boxVars, dbVars, workVars
<1>1. CASE Tick
  <2>1. FeedTypes' /\ Committing'
    BY <1>1, FeedConstants DEF Tick, CursorInv, FeedTypes, Committing
  <2>2. Batches' /\ InTurn' /\ CursorSkipsNothing'
    BY <1>1, FeedConstants DEF Tick, CursorInv, FeedTypes, Batches, InTurn, Settled,
       CursorSkipsNothing, First, After, Position
  <2>3. QED
    BY <2>1, <2>2 DEF CursorInv
<1>2. ASSUME NEW x \in Events, Stamp(x)
      PROVE  CursorInv'
  <2>1. /\ occurred[x] = Never /\ now' = now
        /\ \A e \in Events : occurred'[e] = IF e = x THEN now ELSE occurred[e]
        /\ UNCHANGED <<outbox, cursor, inbox, rows, stage, event>>
    BY <1>2 DEF Stamp, CursorInv, FeedTypes
  <2>2. FeedTypes' /\ Committing'
    BY <1>2, <2>1, FeedConstants DEF Stamp, CursorInv, FeedTypes, Committing
  <2>3. Batches'
    <3> SUFFICES ASSUME NEW f \in Feeds, NEW d \in rows[f]
                 PROVE  /\ d \in outbox /\ Settled(d)'
                        /\ \A e \in Events : occurred'[e] # Never /\ After(Position(d), Position(e))'
                              => e \in inbox \cup Foreign \cup rows[f]
      BY <2>1 DEF Batches
    <3>1. d \in outbox /\ Settled(d) /\ d # x /\ d \in Events
      BY <2>1 DEF CursorInv, Batches, Committing, FeedTypes
    <3>2. Settled(d)' /\ occurred'[d] < now /\ occurred'[d] \in Int /\ now \in Int
      BY <2>1, <3>1, FeedConstants DEF Settled, CursorInv, FeedTypes
    <3>3. ASSUME NEW e \in Events, occurred'[e] # Never, After(Position(d), Position(e))'
          PROVE  e \in inbox \cup Foreign \cup rows[f]
      <4>1. e # x
        BY <2>1, <3>2, <3>3 DEF After, Position
      <4>2. occurred[e] # Never /\ After(Position(d), Position(e))
        BY <2>1, <3>1, <3>3, <4>1 DEF After, Position
      <4>3. QED
        BY <4>2 DEF CursorInv, Batches
    <3>4. QED
      BY <3>1, <3>2, <3>3
  <2>4. InTurn'
    <3> SUFFICES ASSUME NEW f \in Feeds, stage[f] # "idle"
                 PROVE  First(event[f], rows[f])'
      BY <2>1 DEF InTurn, CursorInv
    <3>1. First(event[f], rows[f])
      BY DEF InTurn, CursorInv
    <3>2. \A d \in rows[f] : d # x /\ d \in Events
      BY <2>1 DEF CursorInv, Batches, Committing, FeedTypes
    <3>3. QED
      BY <2>1, <3>1, <3>2 DEF First, After, Position
  <2>5. CursorSkipsNothing'
    <3> SUFFICES ASSUME NEW e \in Events, occurred'[e] # Never, ~ After(Position(e), cursor)'
                 PROVE  e \in inbox \cup Foreign
      BY <2>1 DEF CursorSkipsNothing
    <3>1. After(<<now, x>>, cursor)
      BY FeedConstants DEF CursorInv, FeedTypes, Committing, After
    <3>2. e # x
      BY <2>1, <3>1 DEF After, Position
    <3>3. QED
      BY <2>1, <3>2 DEF After, Position, CursorInv, CursorSkipsNothing
  <2>6. QED
    BY <2>2, <2>3, <2>4, <2>5 DEF CursorInv
<1>3. ASSUME NEW x \in Events, CommitRow(x)
      PROVE  CursorInv'
  <2>1. FeedTypes' /\ Committing'
    BY <1>3, FeedConstants DEF CommitRow, worldVars, CursorInv, FeedTypes, Committing
  <2>2. Batches' /\ InTurn' /\ CursorSkipsNothing'
    BY <1>3 DEF CommitRow, worldVars, CursorInv, Batches, InTurn, Settled,
       CursorSkipsNothing, First, After, Position
  <2>3. QED
    BY <2>1, <2>2 DEF CursorInv
<1>4. QED
  BY <1>1, <1>2, <1>3 DEF Finalize

\* What the workers leave alone.
OrdersKept == UNCHANGED <<now, occurred, outbox>>

\* A worker's step that moves no cursor and starts no batch: its batch stays or
\* is given up, and it moves on with a row it has no reason to hold back.
WorkerStep(f) ==
    \/ rows'[f] = rows[f] /\ stage'[f] = stage[f] /\ event'[f] = event[f]
    \/ stage'[f] = "idle" /\ (rows'[f] = rows[f] \/ rows'[f] = {})
    \/ /\ rows'[f] = rows[f] /\ First(event'[f], rows[f])
       /\ stage'[f] = "passing" => event'[f] \in inbox' \cup Foreign

\* Such steps keep the order.
LEMMA WorkerStepKeeps ==
    ASSUME CursorInv, FeedTypes', OrdersKept, UNCHANGED cursor, inbox \subseteq inbox',
           \A f \in Feeds : WorkerStep(f)
    PROVE  CursorInv'
<1>1. Committing' /\ CursorSkipsNothing'
  BY DEF OrdersKept, CursorInv, Committing, CursorSkipsNothing, After, Position
<1>2. ASSUME NEW f \in Feeds, NEW d \in rows'[f]
      PROVE  /\ d \in outbox' /\ Settled(d)'
             /\ \A e \in Events : occurred'[e] # Never /\ After(Position(d), Position(e))'
                   => e \in inbox' \cup Foreign \cup rows'[f]
  <2>1. rows'[f] = rows[f]
    BY <1>2 DEF WorkerStep
  <2>2. QED
    BY <1>2, <2>1 DEF OrdersKept, CursorInv, Batches, Settled, After, Position
<1>3. ASSUME NEW f \in Feeds
      PROVE  /\ stage'[f] # "idle" => First(event[f], rows[f])'
             /\ stage'[f] = "passing" => event'[f] \in inbox' \cup Foreign
  BY <1>3 DEF WorkerStep, OrdersKept, CursorInv, InTurn, First, After, Position
<1>4. QED
  BY <1>1, <1>2, <1>3 DEF CursorInv, Batches, InTurn

\* A worker that gives up its batch.
LEMMA ForgetStep ==
    ASSUME FeedTypes, NEW w \in Workers, Forget(w)
    PROVE  /\ rows' \in [Feeds -> SUBSET Events]
           /\ stage' \in [Workers -> {"idle", "claiming", "applying", "passing"}]
           /\ event' \in [Workers -> Events \cup {0}]
           /\ \A v \in Workers : stage'[v] # "idle" => event'[v] \in Events
           /\ \A f \in Feeds : WorkerStep(f)
<1>1. /\ rows' \in [Feeds -> SUBSET Events]
      /\ stage' \in [Workers -> {"idle", "claiming", "applying", "passing"}]
      /\ event' \in [Workers -> Events \cup {0}]
      /\ \A v \in Workers : stage'[v] # "idle" => event'[v] \in Events
  BY DEF Forget, FeedTypes
<1>2. ASSUME NEW f \in Feeds
      PROVE  WorkerStep(f)
  BY DEF Forget, FeedTypes, WorkerStep, Workers
<1>3. QED
  BY <1>1, <1>2

\* The dispatchers and the handler.
LEMMA HandleStep ==
    ASSUME CursorInv,
           \/ \E d \in Dispatchers, e \in Events : Dispatch(d, e)
           \/ \E w \in Workers : Handle(w) \/ Fail(w) \/ CommitLost(w)
    PROVE  CursorInv'
<1> USE DEF worldVars, boxVars, dbVars
<1>0. FeedTypes /\ InTurn
  BY DEF CursorInv
<1>1. ASSUME NEW d \in Dispatchers, NEW e \in Events, Dispatch(d, e)
      PROVE  CursorInv'
  <2>1. FeedTypes'
    BY <1>0, <1>1 DEF Dispatch, FeedTypes, Workers
  <2>2. \A f \in Feeds : WorkerStep(f)
    BY <1>0, <1>1, FeedConstants DEF Dispatch, FeedTypes, Workers, WorkerStep
  <2>3. QED
    BY <1>1, <2>1, <2>2, WorkerStepKeeps DEF Dispatch, OrdersKept
<1>2. ASSUME NEW w \in Workers, Claim(w)
      PROVE  CursorInv'
  <2>1. FeedTypes'
    BY <1>0, <1>2 DEF Claim, AfterDelivery, FeedTypes
  <2>2. ASSUME NEW f \in Feeds
        PROVE  WorkerStep(f)
    <3>1. CASE f # w
      BY <1>0, <1>2, <3>1 DEF Claim, FeedTypes, Workers, WorkerStep
    <3>2. CASE f = w
      <4>1. rows' = rows /\ event'[f] = event[f] /\ First(event[f], rows[f])
        BY <1>0, <1>2, <3>2 DEF Claim, FeedTypes, InTurn
      <4>2. stage'[f] = "applying" \/ (stage'[f] = "passing" /\ event[f] \in inbox)
        BY <1>0, <1>2, <3>2 DEF Claim, AfterDelivery, FeedTypes
      <4>3. QED
        BY <1>2, <4>1, <4>2 DEF Claim, WorkerStep
    <3>3. QED
      BY <3>1, <3>2
  <2>3. QED
    BY <1>2, <2>1, <2>2, WorkerStepKeeps DEF Claim, OrdersKept
<1>3. ASSUME NEW w \in Workers, Upsert(w)
      PROVE  CursorInv'
  BY <1>0, <1>3, WorkerStepKeeps DEF Upsert, FeedTypes, WorkerStep, OrdersKept
<1>4. ASSUME NEW w \in Workers, Overflow(w) \/ DeadlockVictim(w) \/ Fail(w)
      PROVE  CursorInv'
  <2>1. Forget(w) /\ UNCHANGED <<now, occurred, outbox, cursor, inbox>>
    BY <1>4 DEF Overflow, DeadlockVictim, Fail
  <2>2. QED
    BY <1>0, <2>1, ForgetStep, WorkerStepKeeps DEF FeedTypes, OrdersKept
<1>5. ASSUME NEW w \in Workers, Commit(w)
      PROVE  CursorInv'
  <2>1. stage[w] = "applying" /\ event[w] \in Events /\ inbox' = inbox \cup {event[w]}
    BY <1>0, <1>5 DEF Commit, Land, FeedTypes
  <2>2. FeedTypes'
    BY <1>0, <1>5, <2>1 DEF Commit, AfterDelivery, FeedTypes
  <2>3. ASSUME NEW f \in Feeds
        PROVE  WorkerStep(f)
    <3>1. CASE f # w
      BY <1>0, <1>5, <3>1 DEF Commit, FeedTypes, Workers, WorkerStep
    <3>2. CASE f = w
      <4>1. rows' = rows /\ event'[f] = event[f] /\ First(event[f], rows[f])
        BY <1>0, <1>5, <2>1, <3>2 DEF Commit, FeedTypes, InTurn
      <4>2. QED
        BY <2>1, <3>2, <4>1 DEF WorkerStep
    <3>3. QED
      BY <3>1, <3>2
  <2>4. QED
    BY <1>5, <2>1, <2>2, <2>3, WorkerStepKeeps DEF Commit, OrdersKept
<1>6. ASSUME NEW w \in Workers, CommitLost(w)
      PROVE  CursorInv'
  <2>1. event[w] \in Events /\ inbox' = inbox \cup {event[w]}
    BY <1>0, <1>6 DEF CommitLost, Land, FeedTypes
  <2>2. Forget(w) /\ UNCHANGED <<now, occurred, outbox, cursor>>
    BY <1>6 DEF CommitLost
  <2>3. QED
    BY <1>0, <2>1, <2>2, ForgetStep, WorkerStepKeeps DEF FeedTypes, OrdersKept
<1>7. QED
  BY <1>1, <1>2, <1>3, <1>4, <1>5, <1>6 DEF Handle

\* A feed reads a batch, takes its next row, or moves the cursor past it.
LEMMA FeedStepKeeps ==
    ASSUME CursorInv, NEW f \in Feeds, FeedStep(f) \/ MoveLost(f)
    PROVE  CursorInv'
<1> USE DEF worldVars, boxVars, dbVars
<1>0. FeedTypes /\ Committing /\ Batches /\ InTurn /\ CursorSkipsNothing /\ f \in Workers
  BY DEF CursorInv, Workers
<1>1. ASSUME Poll(f)
      PROVE  CursorInv'
  <2>1. PICK S \in SUBSET Unread : Batch(S) /\ rows' = [rows EXCEPT ![f] = S]
    BY <1>1 DEF Poll
  <2>2. UNCHANGED <<now, occurred, outbox, cursor, inbox, stage, event>>
    BY <1>1 DEF Poll
  <2>3. S \subseteq Events
    BY <1>0 DEF Unread, FeedTypes
  <2>4. FeedTypes'
    BY <1>0, <2>1, <2>2, <2>3 DEF FeedTypes
  <2>5. Committing' /\ CursorSkipsNothing'
    BY <1>0, <2>2 DEF Committing, CursorSkipsNothing, After, Position
  <2>6. InTurn'
    BY <1>0, <1>1, <2>1, <2>2 DEF Poll, FeedTypes, InTurn, First, After, Position
  <2>7. ASSUME NEW d \in S, NEW e \in Events, occurred[e] # Never,
               After(Position(d), Position(e))
        PROVE  e \in inbox \cup Foreign \cup S
    <3>1. /\ d \in outbox /\ d \in Events /\ d \in Nat /\ e \in Nat
          /\ occurred[d] \in Nat /\ occurred[e] \in Nat /\ now \in Nat
          /\ occurred[d] <= now - Settle
      BY <1>0, <2>7, FeedConstants DEF Unread, Settled, FeedTypes, Committing
    <3>2. Settled(e)
      BY <2>7, <3>1, FeedConstants DEF After, Position, Settled
    <3>3. e \in outbox
      BY <1>0, <2>7, <3>1, <3>2, FeedConstants DEF Committing, Settled
    <3>4. CASE After(Position(e), cursor)
      <4>1. e \in Unread /\ ~ After(Position(e), Position(d))
        BY <2>7, <3>1, <3>2, <3>3, <3>4 DEF Unread, After, Position
      <4>2. QED
        BY <2>1, <2>7, <4>1 DEF Batch
    <3>5. CASE ~ After(Position(e), cursor)
      BY <1>0, <2>7, <3>5 DEF CursorSkipsNothing
    <3>6. QED
      BY <3>4, <3>5
  <2>8. Batches'
    <3>1. ASSUME NEW d \in S
          PROVE  d \in outbox /\ Settled(d)
      BY <2>1 DEF Unread
    <3>2. QED
      BY <1>0, <2>1, <2>2, <2>7, <3>1 DEF Batches, Settled, After, Position, FeedTypes
  <2>9. QED
    BY <2>4, <2>5, <2>6, <2>8 DEF CursorInv
<1>2. ASSUME NextRow(f)
      PROVE  CursorInv'
  <2>1. PICK e \in rows[f] :
          /\ First(e, rows[f])
          /\ event' = [event EXCEPT ![f] = e]
          /\ stage' = [stage EXCEPT ![f] = IF e \in Foreign THEN "passing" ELSE "claiming"]
    BY <1>2 DEF NextRow
  <2>2. FeedTypes'
    BY <1>0, <1>2, <2>1 DEF NextRow, FeedTypes
  <2>3. \A g \in Feeds : WorkerStep(g)
    BY <1>0, <1>2, <2>1 DEF NextRow, FeedTypes, WorkerStep, Workers
  <2>4. QED
    BY <1>2, <2>2, <2>3, WorkerStepKeeps DEF NextRow, OrdersKept
<1>3. ASSUME Unreadable(f)
      PROVE  CursorInv'
  BY <1>0, <1>3, ForgetStep, WorkerStepKeeps DEF Unreadable, FeedTypes, OrdersKept
<1>4. ASSUME stage[f] = "passing", cursor' = Position(event[f]), OrdersKept, UNCHANGED inbox
      PROVE  Committing' /\ CursorSkipsNothing' /\ cursor' \in (Nat \cup {Never}) \X Nat
  <2> DEFINE x == event[f]
  <2>1. First(x, rows[f]) /\ x \in inbox \cup Foreign /\ x \in Events
    BY <1>0, <1>4 DEF InTurn, FeedTypes
  <2>2. x \in rows[f] /\ x \in outbox /\ Settled(x)
    BY <1>0, <2>1 DEF First, Batches
  <2>3. Committing' /\ cursor' \in (Nat \cup {Never}) \X Nat
    BY <1>0, <1>4, <2>1, <2>2, FeedConstants DEF Committing, OrdersKept, Position, Settled,
       FeedTypes
  <2>4. ASSUME NEW e \in Events, occurred[e] # Never, ~ After(Position(e), Position(x))
        PROVE  e \in inbox \cup Foreign
    <3>0. occurred[e] \in Nat /\ occurred[x] \in Nat /\ e \in Nat /\ x \in Nat
      BY <1>0, <2>1, <2>2, <2>4, FeedConstants DEF FeedTypes, Committing
    <3>1. e = x \/ After(Position(x), Position(e))
      BY <2>4, <3>0 DEF After, Position
    <3>2. e # x => e \notin rows[f]
      BY <2>1, <2>4 DEF First
    <3>3. QED
      BY <1>0, <2>1, <2>2, <2>4, <3>1, <3>2 DEF Batches
  <2>5. CursorSkipsNothing'
    BY <1>4, <2>4 DEF CursorSkipsNothing, OrdersKept, After, Position
  <2>6. QED
    BY <2>3, <2>5
<1>5. ASSUME MoveCursor(f)
      PROVE  CursorInv'
  <2>1. /\ stage[f] = "passing" /\ OrdersKept /\ UNCHANGED inbox
        /\ rows' = [rows EXCEPT ![f] = rows[f] \ {event[f]}]
        /\ stage' = [stage EXCEPT ![f] = "idle"]
        /\ event' = [event EXCEPT ![f] = 0]
    BY <1>5 DEF MoveCursor, OrdersKept
  <2>2. Committing' /\ CursorSkipsNothing' /\ cursor' \in (Nat \cup {Never}) \X Nat
    BY <1>4, <1>5, <2>1 DEF MoveCursor
  <2>3. FeedTypes'
    BY <1>0, <2>1, <2>2 DEF FeedTypes, OrdersKept
  <2>4. event[f] \in inbox \cup Foreign
    BY <1>0, <2>1 DEF InTurn
  <2>5. Batches'
    BY <1>0, <2>1, <2>4 DEF Batches, OrdersKept, Settled, After, Position, FeedTypes
  <2>6. InTurn'
    BY <1>0, <2>1 DEF InTurn, OrdersKept, First, After, Position, FeedTypes
  <2>7. QED
    BY <2>2, <2>3, <2>5, <2>6 DEF CursorInv
<1>6. ASSUME MoveLost(f)
      PROVE  CursorInv'
  <2>1. stage[f] = "passing" /\ OrdersKept /\ UNCHANGED inbox /\ Forget(f)
    BY <1>6 DEF MoveLost, OrdersKept
  <2>2. Committing' /\ CursorSkipsNothing' /\ cursor' \in (Nat \cup {Never}) \X Nat
    BY <1>4, <1>6, <2>1 DEF MoveLost
  <2>3. FeedTypes'
    BY <1>0, <2>1, <2>2, ForgetStep DEF FeedTypes, OrdersKept
  <2>4. \A g \in Feeds : IF g = f THEN stage'[g] = "idle" /\ rows'[g] = {}
                          ELSE UNCHANGED <<rows[g], stage[g], event[g]>>
    BY <1>0, <2>1 DEF Forget, FeedTypes, Workers
  <2>5. Batches' /\ InTurn'
    BY <1>0, <2>1, <2>4 DEF Batches, InTurn, OrdersKept, Settled, First, After, Position
  <2>6. QED
    BY <2>2, <2>3, <2>5 DEF CursorInv
<1>7. QED
  BY <1>1, <1>2, <1>3, <1>5, <1>6 DEF FeedStep

\* The whole invariant.
LEMMA CursorInvariant == FeedSpec => []CursorInv
<1>1. ASSUME FeedInit
      PROVE  CursorInv
  <2>1. FeedTypes
    BY <1>1, FeedConstants DEF FeedInit, FeedTypes, Workers
  <2>2. Committing /\ Batches /\ InTurn
    BY <1>1, FeedConstants DEF FeedInit, Committing, Batches, InTurn, Workers
  <2>3. CursorSkipsNothing
    BY <1>1, FeedConstants DEF FeedInit, CursorSkipsNothing, After, Position
  <2>4. QED
    BY <2>1, <2>2, <2>3 DEF CursorInv
<1>2. CursorInv /\ [FeedNext]_feedVars => CursorInv'
  <2> SUFFICES ASSUME CursorInv, [FeedNext]_feedVars
               PROVE  CursorInv'
    OBVIOUS
  <2>1. CASE UNCHANGED feedVars
    BY <2>1 DEF feedVars, worldVars, boxVars, dbVars, workVars, CursorInv, FeedTypes,
       Committing, Batches, InTurn, CursorSkipsNothing, Settled, First, After, Position
  <2>2. QED
    BY <2>1, OrdersStep, HandleStep, FeedStepKeeps DEF FeedNext
<1>3. QED
  BY <1>1, <1>2, PTL DEF FeedSpec

\* The cursor passes only what is applied or not Catalog's, however many feeds
\* set it, whichever of them fail, whatever the dispatchers apply meanwhile.
THEOREM CursorNeverSkips == FeedSpec => []CursorSkipsNothing
<1>1. CursorInv => CursorSkipsNothing
  BY DEF CursorInv
<1>2. QED
  BY <1>1, CursorInvariant, PTL

-----------------------------------------------------------------------------
(* The inbox key *)

\* Whoever applies an event is alone, and nobody has before.
Keyed ==
    \A w \in Workers : stage[w] = "applying" =>
        event[w] \notin inbox /\ KeyHolders(event[w]) = {w}

\* The key is given up only with the transaction, and whoever commits leaves it
\* in the inbox.
LEMMA KeyedStep == FeedTypes /\ Keyed /\ [FeedNext]_feedVars => Keyed'
<1> SUFFICES ASSUME FeedTypes, Keyed, [FeedNext]_feedVars
             PROVE  Keyed'
  OBVIOUS
<1> USE DEF worldVars, boxVars, dbVars, workVars
<1>1. ASSUME NEW w \in Workers,
             \A v \in Workers \ {w} : UNCHANGED <<stage[v], event[v]>>,
             stage'[w] # "applying", UNCHANGED inbox
      PROVE  Keyed'
  BY <1>1 DEF Keyed, KeyHolders
<1>2. ASSUME NEW w \in Workers, Claim(w)
      PROVE  Keyed'
  <2>1. KeyHolders(event[w]) = {} /\ UNCHANGED inbox
    BY <1>2 DEF Claim, Blocker
  <2>2. CASE event[w] \notin inbox
    <3>1. event' = event /\ stage' = [stage EXCEPT ![w] = "applying"]
      BY <1>2, <2>2 DEF Claim
    <3>2. QED
      BY <2>1, <2>2, <3>1 DEF Keyed, KeyHolders, FeedTypes
  <2>3. CASE event[w] \in inbox
    BY <1>1, <1>2, <2>1, <2>3 DEF Claim, AfterDelivery, FeedTypes
  <2>4. QED
    BY <2>2, <2>3
<1>3. ASSUME NEW w \in Workers, Land(w), stage'[w] # "applying",
             \A v \in Workers \ {w} : UNCHANGED <<stage[v], event[v]>>
      PROVE  Keyed'
  <2>1. KeyHolders(event[w]) = {w} /\ inbox' = inbox \cup {event[w]}
    BY <1>3 DEF Land, Keyed
  <2>2. \A v \in Workers \ {w} : stage[v] = "applying" => event[v] # event[w]
    BY <2>1 DEF KeyHolders
  <2>3. QED
    BY <1>3, <2>1, <2>2 DEF Keyed, KeyHolders
<1>4. ASSUME NEW w \in Workers, Forget(w)
      PROVE  stage'[w] = "idle" /\ \A v \in Workers \ {w} : UNCHANGED <<stage[v], event[v]>>
  BY <1>4 DEF Forget, FeedTypes
<1>5. ASSUME NEW w \in Workers, Commit(w) \/ CommitLost(w)
      PROVE  Keyed'
  BY <1>3, <1>4, <1>5 DEF Commit, CommitLost, AfterDelivery, FeedTypes
<1>6. ASSUME NEW w \in Workers, Overflow(w) \/ DeadlockVictim(w) \/ Fail(w)
      PROVE  Keyed'
  BY <1>1, <1>4, <1>6 DEF Overflow, DeadlockVictim, Fail
<1>7. ASSUME NEW f \in Feeds, Unreadable(f) \/ MoveLost(f)
      PROVE  Keyed'
  BY <1>1, <1>4, <1>7 DEF Unreadable, MoveLost, Workers
<1>8. ASSUME NEW f \in Feeds, NextRow(f) \/ MoveCursor(f)
      PROVE  Keyed'
  BY <1>1, <1>8 DEF NextRow, MoveCursor, Workers, FeedTypes
<1>9. ASSUME NEW d \in Dispatchers, NEW e \in Events, Dispatch(d, e)
      PROVE  Keyed'
  BY <1>1, <1>9 DEF Dispatch, Workers, FeedTypes
<1>10. CASE UNCHANGED <<stage, event, inbox>>
  BY <1>10 DEF Keyed, KeyHolders
<1>11. QED
  BY <1>2, <1>5, <1>6, <1>7, <1>8, <1>9, <1>10 DEF FeedNext, Tick, Finalize, Stamp, CommitRow,
     FeedStep, Poll, Handle, Upsert, feedVars

-----------------------------------------------------------------------------
(* The row locks *)

SaleTypes ==
    /\ sales \in [Tracks -> [sold : Int, last : Int]]
    /\ owner \in [Tracks -> Workers \cup {Free}]
    /\ todo \in [Workers -> SUBSET Nat]

\* A transaction has locked the tracks of its invoice, but for those of the
\* lines it has still to do; nobody else has locks.
Locked ==
    \A w \in Workers :
        /\ stage[w] = "applying" =>
              \A t \in Tracks :
                  t \in Sold(event[w]) <=>
                      owner[t] = w \/ \E i \in todo[w] : Lines[event[w]][i].track = t
        /\ stage[w] = "applying" => todo[w] \subseteq DOMAIN Lines[event[w]]
        /\ stage[w] # "applying" => \A t \in Tracks : owner[t] # w

LEMMA LineTypes ==
    ASSUME NEW e \in Events
    PROVE  /\ DOMAIN Lines[e] \subseteq Nat
           /\ \A i \in DOMAIN Lines[e] : Lines[e][i].track \in Tracks
                                         /\ Lines[e][i].quantity \in Int
           /\ IsFiniteSet(DOMAIN Lines[e])
<1>1. Lines[e] \in Seq([track : Tracks, quantity : Int])
  BY InvoicesAssumption
<1>2. DOMAIN Lines[e] = 1..Len(Lines[e]) /\ Len(Lines[e]) \in Nat
  BY <1>1
<1>3. \A i \in DOMAIN Lines[e] : Lines[e][i] \in [track : Tracks, quantity : Int]
  <2>1. \A S, lines : lines \in Seq(S) => \A i \in DOMAIN lines : lines[i] \in S
    OBVIOUS
  <2>2. QED
    BY <1>1, <2>1
<1>4. IsFiniteSet(1..Len(Lines[e]))
  BY <1>2, FS_Interval
<1>5. QED
  BY <1>2, <1>3, <1>4

\* The least of some numbers is the one Min chooses.
LEMMA MinIs ==
    ASSUME NEW S, S \subseteq Nat, S # {}
    PROVE  Min(S) \in S /\ \A n \in S : Min(S) <= n
BY LeastNatural DEF Min

\* per_track has every track of the invoice.
LEMMA PerTrackNamesAll ==
    ASSUME NEW e \in Events, NEW t \in Tracks
    PROVE  /\ PerTrack[e] \subseteq DOMAIN Lines[e]
           /\ t \in Sold(e) <=> \E i \in PerTrack[e] : Lines[e][i].track = t
<1>1. PerTrack[e] \subseteq DOMAIN Lines[e]
  BY DEF PerTrack
<1>2. ASSUME t \in Sold(e)
      PROVE  \E i \in PerTrack[e] : Lines[e][i].track = t
  <2> DEFINE its == {i \in DOMAIN Lines[e] : Lines[e][i].track = t}
  <2>1. its \subseteq Nat /\ its # {}
    BY <1>2, LineTypes DEF Sold
  <2>2. PICK i \in its : \A j \in its : i <= j
    BY <2>1, LeastNatural
  <2>3. DOMAIN Lines[e] = 1..Len(Lines[e]) /\ Len(Lines[e]) \in Nat
    BY InvoicesAssumption
  <2>4. \A j \in 1..(i - 1) : j \in DOMAIN Lines[e] /\ ~(i <= j)
    BY <2>1, <2>3
  <2>5. i \in PerTrack[e]
    BY <2>2, <2>4 DEF PerTrack
  <2>6. QED
    BY <2>2, <2>5
<1>3. QED
  BY <1>1, <1>2 DEF Sold

\* What a worker that gives up its locks leaves of the others'.
LEMMA ReleaseLocks ==
    ASSUME FeedTypes, SaleTypes, Locked, NEW w \in Workers,
           owner' = Release(w), stage'[w] # "applying",
           \A v \in Workers \ {w} : UNCHANGED <<stage[v], event[v], todo[v]>>
    PROVE  Locked'
<1>1. \A t \in Tracks : owner'[t] = IF owner[t] = w THEN Free ELSE owner[t]
  BY DEF Release
<1>2. \A v \in Workers : v # Free
  BY FeedWorkersAssumption
<1>3. \A t \in Tracks, v \in Workers \ {w} : owner'[t] = v <=> owner[t] = v
  BY <1>1, <1>2
<1>4. \A t \in Tracks : owner'[t] # w
  BY <1>1, <1>2
<1>5. QED
  BY <1>3, <1>4 DEF Locked, Sold

\* A worker that holds no lock, and does not come to apply, changes nothing.
LEMMA NoLocks ==
    ASSUME Locked, NEW w \in Workers, stage[w] # "applying", stage'[w] # "applying",
           owner' = owner, \A v \in Workers \ {w} : UNCHANGED <<stage[v], event[v], todo[v]>>
    PROVE  Locked'
BY DEF Locked, Sold

LEMMA LockedStep ==
    ASSUME FeedTypes, SaleTypes, Locked, [FeedNext]_feedVars
    PROVE  Locked'
<1> USE DEF worldVars, boxVars, dbVars, workVars
<1>1. ASSUME NEW w \in Workers, Forget(w)
      PROVE  Locked'
  <2>1. /\ owner' = Release(w) /\ stage'[w] = "idle"
        /\ \A v \in Workers \ {w} : UNCHANGED <<stage[v], event[v], todo[v]>>
    BY <1>1 DEF Forget, FeedTypes, SaleTypes
  <2>2. QED
    BY <2>1, ReleaseLocks
<1>2. ASSUME NEW w \in Workers, Claim(w)
      PROVE  Locked'
  <2>1. CASE event[w] \in inbox
    <3>1. /\ stage[w] = "claiming" /\ stage'[w] = AfterDelivery(w) /\ owner' = owner
          /\ \A v \in Workers \ {w} : UNCHANGED <<stage[v], event[v], todo[v]>>
      BY <1>2, <2>1 DEF Claim, FeedTypes
    <3>2. QED
      BY <3>1, NoLocks DEF AfterDelivery
  <2>2. CASE event[w] \notin inbox
    <3>1. /\ stage[w] = "claiming" /\ stage'[w] = "applying" /\ UNCHANGED <<event, owner>>
          /\ todo'[w] = PerTrack[event[w]]
          /\ \A v \in Workers \ {w} : UNCHANGED <<stage[v], todo[v]>>
      BY <1>2, <2>2 DEF Claim, FeedTypes, SaleTypes
    <3>2. event[w] \in Events
      BY <3>1 DEF FeedTypes
    <3>3. \A t \in Tracks : owner[t] # w
      BY <3>1 DEF Locked
    <3>4. /\ \A t \in Tracks : t \in Sold(event[w]) <=>
                \E i \in todo'[w] : Lines[event[w]][i].track = t
          /\ todo'[w] \subseteq DOMAIN Lines[event[w]]
      <4>1. \A t \in Tracks : t \in Sold(event[w]) <=>
                  \E i \in PerTrack[event[w]] : Lines[event[w]][i].track = t
        BY <3>2, PerTrackNamesAll
      <4>2. PerTrack[event[w]] \subseteq DOMAIN Lines[event[w]]
        BY <3>2 DEF PerTrack
      <4>3. QED
        BY <3>1, <4>1, <4>2
    <3>5. QED
      BY <3>1, <3>3, <3>4 DEF Locked, Sold
  <2>3. QED
    BY <2>1, <2>2
<1>3. ASSUME NEW w \in Workers, Upsert(w)
      PROVE  Locked'
  <2> DEFINE i == Min(todo[w])
             track == Lines[event[w]][i].track
  <2>1. /\ stage[w] = "applying" /\ todo[w] # {} /\ Blocker(w) = {}
        /\ owner' = [owner EXCEPT ![track] = w]
        /\ todo' = [todo EXCEPT ![w] = todo[w] \ {i}]
        /\ UNCHANGED <<stage, event>>
    BY <1>3 DEF Upsert, NextTrack
  <2>2. event[w] \in Events /\ i \in todo[w] /\ i \in DOMAIN Lines[event[w]]
    BY <2>1, MinIs DEF FeedTypes, SaleTypes, Locked
  <2>3. track \in Tracks
    BY <2>2, LineTypes
  <2>4. owner[track] \in {Free, w}
    BY <2>1 DEF Blocker, NextTrack
  <2> HIDE DEF i, track
  <2>5. /\ \A t \in Tracks : owner'[t] = IF t = track THEN w ELSE owner[t]
        /\ \A v \in Workers : todo'[v] = IF v = w THEN todo[w] \ {i} ELSE todo[v]
    BY <2>1 DEF SaleTypes
  <2>6. \A v \in Workers \ {w} : \A t \in Tracks : owner'[t] = v <=> owner[t] = v
    BY <2>4, <2>5, FeedWorkersAssumption
  <2>7. \A t \in Tracks : t \in Sold(event[w]) <=>
            owner'[t] = w \/ \E j \in todo'[w] : Lines[event[w]][j].track = t
    BY <2>1, <2>2, <2>5 DEF Locked, track
  <2>8. ASSUME NEW v \in Workers
        PROVE  /\ stage[v] = "applying" =>
                    \A t \in Tracks : t \in Sold(event[v]) <=>
                        owner'[t] = v \/ \E j \in todo'[v] : Lines[event[v]][j].track = t
               /\ stage[v] = "applying" => todo'[v] \subseteq DOMAIN Lines[event[v]]
               /\ stage[v] # "applying" => \A t \in Tracks : owner'[t] # v
    <3>1. CASE v = w
      BY <2>1, <2>5, <2>7, <3>1 DEF Locked
    <3>2. CASE v # w
      BY <2>5, <2>6, <3>2 DEF Locked
    <3>3. QED
      BY <3>1, <3>2
  <2>9. stage' = stage /\ event' = event
    BY <2>1
  <2>10. QED
    BY <2>8, <2>9 DEF Locked, Sold
<1>4. ASSUME NEW w \in Workers, Commit(w)
      PROVE  Locked'
  <2>1. /\ owner' = Release(w) /\ stage'[w] = AfterDelivery(w)
        /\ \A v \in Workers \ {w} : UNCHANGED <<stage[v], event[v], todo[v]>>
    BY <1>4 DEF Commit, FeedTypes
  <2>2. QED
    BY <2>1, ReleaseLocks DEF AfterDelivery
<1>5. ASSUME NEW w \in Workers, Overflow(w) \/ DeadlockVictim(w) \/ Fail(w) \/ CommitLost(w)
      PROVE  Locked'
  BY <1>1, <1>5 DEF Overflow, DeadlockVictim, Fail, CommitLost
<1>6. ASSUME NEW f \in Feeds, Unreadable(f) \/ MoveLost(f)
      PROVE  Locked'
  BY <1>1, <1>6 DEF Unreadable, MoveLost, Workers
<1>7. ASSUME NEW f \in Feeds, NextRow(f) \/ MoveCursor(f)
      PROVE  Locked'
  <2>1. /\ stage[f] # "applying" /\ stage'[f] # "applying" /\ owner' = owner
        /\ \A v \in Workers \ {f} : UNCHANGED <<stage[v], event[v], todo[v]>>
    BY <1>7 DEF NextRow, MoveCursor, Workers, FeedTypes
  <2>2. QED
    BY <2>1, NoLocks DEF Workers
<1>8. ASSUME NEW d \in Dispatchers, NEW e \in Events, Dispatch(d, e)
      PROVE  Locked'
  <2>1. /\ stage[d] # "applying" /\ stage'[d] # "applying" /\ owner' = owner
        /\ \A v \in Workers \ {d} : UNCHANGED <<stage[v], event[v], todo[v]>>
    BY <1>8 DEF Dispatch, Workers, FeedTypes
  <2>2. QED
    BY <2>1, NoLocks DEF Workers
<1>9. CASE UNCHANGED <<stage, event, todo, owner>>
  BY <1>9 DEF Locked, Sold
<1>10. QED
  BY <1>2, <1>3, <1>4, <1>5, <1>6, <1>7, <1>8, <1>9 DEF FeedNext, Tick, Finalize, Stamp,
     CommitRow, FeedStep, Poll, Handle, feedVars

-----------------------------------------------------------------------------
(* The sums *)

LEMMA UnitsAreInt ==
    ASSUME NEW e \in Events, NEW t
    PROVE  Units(e, t) \in Int
<1> DEFINE quantity == [i \in DOMAIN Lines[e] |-> Lines[e][i].quantity]
           its == {i \in DOMAIN Lines[e] : Lines[e][i].track = t}
<1>1. IsFiniteSet(its)
  BY LineTypes, FS_Subset
<1>2. \A i \in its : quantity[i] \in Int
  BY LineTypes
<1>3. SumOf(quantity, its) \in Int
  <2> HIDE DEF quantity, its
  <2>1. QED
    BY <1>1, <1>2, SumType
<1>4. QED
  BY <1>3 DEF Units

\* A sum that an i32 holds is what the i32 has.
LEMMA WrapKeeps ==
    ASSUME NEW n \in Int
    PROVE  /\ Wrap(n) \in Int
           /\ n \in (-MaxInt - 1)..MaxInt => Wrap(n) = n
<1> DEFINE k == MaxInt + 1
<1>1. k \in Nat \ {0} /\ MaxInt = k - 1
  BY FeedTimesAssumption
<1> HIDE DEF k
<1>2. (n + k) % (2 * k) \in Int
  BY <1>1
<1>3. n + k \in 0..(2 * k - 1) => (n + k) % (2 * k) = n + k
  BY <1>1
<1>4. QED
  BY <1>1, <1>2, <1>3 DEF Wrap

LEMMA MaxOfTwo ==
    ASSUME NEW a \in Int, NEW b \in Int
    PROVE  Max({a, b}) = IF a <= b THEN b ELSE a
BY DEF Max

LEMMA UpsertedIs ==
    ASSUME SaleTypes, NEW t \in Tracks, NEW e \in Events
    PROVE  /\ Upserted(t, e) \in [sold : Int, last : Int]
           /\ Units(e, t) \in (-MaxInt - 1)..MaxInt =>
                Upserted(t, e).sold = sales[t].sold + Units(e, t)
           /\ Upserted(t, e).last \in {sales[t].last, InvoiceDate[e]}
           /\ Upserted(t, e).last >= sales[t].last
           /\ Upserted(t, e).last >= InvoiceDate[e]
<1>1. Quantity[e][t] = Wrap(Units(e, t)) /\ Units(e, t) \in Int
  BY UnitsAreInt DEF Quantity
<1>2. /\ Quantity[e][t] \in Int
      /\ Units(e, t) \in (-MaxInt - 1)..MaxInt => Quantity[e][t] = Units(e, t)
  BY <1>1, WrapKeeps
<1>3. sales[t].sold \in Int /\ sales[t].last \in Int /\ InvoiceDate[e] \in Int
  BY InvoicesAssumption DEF SaleTypes
<1>4. Max({sales[t].last, InvoiceDate[e]}) =
        IF sales[t].last <= InvoiceDate[e] THEN InvoiceDate[e] ELSE sales[t].last
  BY <1>3, MaxOfTwo
<1>5. QED
  BY <1>2, <1>3, <1>4 DEF Upserted

\* A step that changes TrackSales puts an event into the inbox that was not
\* there, and counts it whole: each of its tracks, and no other.
Counted ==
    \/ UNCHANGED <<inbox, sales>>
    \/ \E e \in Events \ inbox :
          /\ inbox' = inbox \cup {e}
          /\ sales' = [t \in Tracks |-> IF t \in Sold(e) THEN Upserted(t, e) ELSE sales[t]]

LEMMA CountedStep ==
    ASSUME FeedTypes, SaleTypes, Keyed, Locked, [FeedNext]_feedVars
    PROVE  Counted
<1> USE DEF worldVars, boxVars, dbVars, workVars
<1>1. ASSUME NEW w \in Workers, Land(w)
      PROVE  Counted
  <2>1. /\ stage[w] = "applying" /\ todo[w] = {} /\ event[w] \in Events
        /\ inbox' = inbox \cup {event[w]}
        /\ sales' = [t \in Tracks |-> IF owner[t] = w THEN Upserted(t, event[w]) ELSE sales[t]]
    BY <1>1 DEF Land, FeedTypes
  <2>2. event[w] \notin inbox
    BY <2>1 DEF Keyed
  <2>3. \A t \in Tracks : owner[t] = w <=> t \in Sold(event[w])
    BY <2>1 DEF Locked
  <2>4. QED
    BY <2>1, <2>2, <2>3 DEF Counted
<1>2. CASE UNCHANGED <<inbox, sales>>
  BY <1>2 DEF Counted
<1>3. QED
  BY <1>1, <1>2 DEF FeedNext, Tick, Finalize, Stamp, CommitRow, Dispatch, FeedStep, Poll,
     NextRow, Unreadable, MoveCursor, MoveLost, Handle, Claim, Upsert, Overflow,
     DeadlockVictim, Commit, Fail, CommitLost, feedVars

LEMMA SaleTypesStep ==
    ASSUME FeedTypes, SaleTypes, Locked, Counted, [FeedNext]_feedVars
    PROVE  SaleTypes'
<1> USE DEF worldVars, boxVars, dbVars, workVars
<1>1. sales' \in [Tracks -> [sold : Int, last : Int]]
  <2>1. CASE UNCHANGED sales
    BY <2>1 DEF SaleTypes
  <2>2. ASSUME NEW e \in Events,
               sales' = [t \in Tracks |-> IF t \in Sold(e) THEN Upserted(t, e) ELSE sales[t]]
        PROVE  sales' \in [Tracks -> [sold : Int, last : Int]]
    <3>1. \A t \in Tracks : sales'[t] \in [sold : Int, last : Int]
      BY <2>2, UpsertedIs DEF SaleTypes
    <3>2. QED
      BY <2>2, <3>1
  <2>3. QED
    BY <2>1, <2>2 DEF Counted
<1>2. owner' \in [Tracks -> Workers \cup {Free}] /\ todo' \in [Workers -> SUBSET Nat]
  <2>1. ASSUME NEW w \in Workers
        PROVE  Release(w) \in [Tracks -> Workers \cup {Free}]
    BY DEF Release, SaleTypes
  <2>2. ASSUME NEW w \in Workers, Forget(w)
        PROVE  owner' \in [Tracks -> Workers \cup {Free}] /\ todo' \in [Workers -> SUBSET Nat]
    BY <2>1, <2>2 DEF Forget, SaleTypes
  <2>3. ASSUME NEW w \in Workers, Claim(w)
        PROVE  owner' \in [Tracks -> Workers \cup {Free}] /\ todo' \in [Workers -> SUBSET Nat]
    <3>1. event[w] \in Events
      BY <2>3 DEF Claim, FeedTypes
    <3>2. PerTrack[event[w]] \subseteq Nat
      BY <3>1, LineTypes DEF PerTrack
    <3>3. QED
      BY <2>3, <3>2 DEF Claim, SaleTypes
  <2>4. ASSUME NEW w \in Workers, Upsert(w)
        PROVE  owner' \in [Tracks -> Workers \cup {Free}] /\ todo' \in [Workers -> SUBSET Nat]
    BY <2>4 DEF Upsert, SaleTypes
  <2>5. ASSUME NEW w \in Workers, Commit(w)
        PROVE  owner' \in [Tracks -> Workers \cup {Free}] /\ todo' \in [Workers -> SUBSET Nat]
    BY <2>1, <2>5 DEF Commit, SaleTypes
  <2>6. CASE UNCHANGED <<owner, todo>>
    BY <2>6 DEF SaleTypes
  <2>7. Feeds \subseteq Workers
    BY DEF Workers
  <2>8. QED
    BY <2>2, <2>3, <2>4, <2>5, <2>6, <2>7 DEF FeedNext, Tick, Finalize, Stamp, CommitRow,
       Dispatch, FeedStep, Poll, NextRow, Unreadable, MoveCursor, MoveLost, Handle, Overflow,
       DeadlockVictim, Fail, CommitLost, feedVars
<1>3. QED
  BY <1>1, <1>2 DEF SaleTypes

\* The dates TrackSales has seen of a track.
Dates(t) == {Never} \cup {InvoiceDate[e] : e \in Sells(t)}

\* SalesAreExact with the greatest date spelled out, of finitely many events.
Exact ==
    /\ IsFiniteSet(inbox) /\ inbox \subseteq Events
    /\ \A t \in Tracks :
          /\ Sells(t) \subseteq Fitting[t] => sales[t].sold = SumOf(Total[t], Sells(t))
          /\ sales[t].last \in Dates(t)
          /\ \A d \in Dates(t) : d <= sales[t].last

LEMMA ExactStep ==
    ASSUME SaleTypes, Exact, Counted
    PROVE  Exact'
<1>1. CASE UNCHANGED <<inbox, sales>>
  BY <1>1 DEF Exact, Sells, Dates
<1>2. ASSUME NEW e \in Events \ inbox, inbox' = inbox \cup {e},
             sales' = [t \in Tracks |-> IF t \in Sold(e) THEN Upserted(t, e) ELSE sales[t]]
      PROVE  Exact'
  <2>1. IsFiniteSet(inbox') /\ inbox' \subseteq Events
    BY <1>2, FS_AddElement DEF Exact
  <2>2. ASSUME NEW t \in Tracks, t \notin Sold(e)
        PROVE  Sells(t)' = Sells(t) /\ sales'[t] = sales[t]
    BY <1>2, <2>2 DEF Sells
  <2>3. ASSUME NEW t \in Tracks, t \in Sold(e)
        PROVE  /\ Sells(t)' \subseteq Fitting[t] => sales'[t].sold = SumOf(Total[t], Sells(t)')
               /\ sales'[t].last \in Dates(t)'
               /\ \A d \in Dates(t)' : d <= sales'[t].last
    <3>1. /\ Sells(t)' = Sells(t) \cup {e} /\ e \notin Sells(t) /\ sales'[t] = Upserted(t, e)
          /\ Dates(t)' = Dates(t) \cup {InvoiceDate[e]}
      BY <1>2, <2>3 DEF Sells, Dates
    <3>2. ASSUME Sells(t)' \subseteq Fitting[t]
          PROVE  sales'[t].sold = SumOf(Total[t], Sells(t)')
      <4>1. sales[t].sold = SumOf(Total[t], Sells(t))
        BY <3>1, <3>2 DEF Exact
      <4>2. Units(e, t) \in (-MaxInt - 1)..MaxInt
        BY <3>1, <3>2 DEF Fitting
      <4>3. \A x \in Events : Total[t][x] = Units(x, t) /\ Total[t][x] \in Int
        BY UnitsAreInt DEF Total
      <4>4. IsFiniteSet(Sells(t)) /\ Sells(t) \subseteq Events
        BY FS_Subset DEF Exact, Sells
      <4>5. SumOf(Total[t], Sells(t) \cup {e}) = SumOf(Total[t], Sells(t)) + Total[t][e]
        BY <3>1, <4>3, <4>4, SumAdd
      <4>6. Upserted(t, e).sold = sales[t].sold + Units(e, t)
        BY <4>2, UpsertedIs
      <4>7. QED
        BY <3>1, <4>1, <4>3, <4>5, <4>6
    <3>3. /\ Upserted(t, e).last \in {sales[t].last, InvoiceDate[e]}
          /\ Upserted(t, e).last >= sales[t].last
          /\ Upserted(t, e).last >= InvoiceDate[e]
          /\ Upserted(t, e).last \in Int /\ sales[t].last \in Int
      BY UpsertedIs DEF SaleTypes
    <3>4. \A d \in Dates(t) : d \in Int /\ d <= sales[t].last
      <4>1. Dates(t) \subseteq Int
        BY InvoicesAssumption DEF Exact, Dates, Sells, Never
      <4>2. QED
        BY <4>1 DEF Exact
    <3>5. QED
      BY <3>1, <3>2, <3>3, <3>4 DEF Exact
  <2>4. QED
    BY <2>1, <2>2, <2>3 DEF Exact, Dates
<1>3. QED
  BY <1>1, <1>2 DEF Counted

LEMMA ExactInit == FeedInit => SaleTypes /\ Keyed /\ Locked /\ Exact
<1> SUFFICES ASSUME FeedInit PROVE SaleTypes /\ Keyed /\ Locked /\ Exact
  OBVIOUS
<1> USE DEF FeedInit
<1>1. SaleTypes
  BY DEF SaleTypes, NoSale, Never
<1>2. Keyed /\ Locked
  BY FeedWorkersAssumption DEF Keyed, Locked
<1>3. Exact
  <2>1. \A t \in Tracks : Sells(t) = {} /\ Dates(t) = {Never}
    BY DEF Sells, Dates
  <2>2. \A t \in Tracks : sales[t].sold = 0 /\ sales[t].last = Never
    BY DEF NoSale
  <2>3. \A t \in Tracks : SumOf(Total[t], Sells(t)) = 0
    BY <2>1, SumEmpty
  <2>4. IsFiniteSet(inbox) /\ inbox \subseteq Events
    BY FS_EmptySet
  <2>5. QED
    BY <2>1, <2>2, <2>3, <2>4 DEF Exact, Never
<1>4. QED
  BY <1>1, <1>2, <1>3

\* An event counts once, and whole, with its inbox row or not at all, whichever
\* of the feeds and dispatchers fails, and whenever.
THEOREM CountsOnce == FeedSpec => [][Counted]_feedVars
<1>1. FeedInit => SaleTypes /\ Keyed /\ Locked
  BY ExactInit
<1>2. CursorInv /\ SaleTypes /\ Keyed /\ Locked /\ [FeedNext]_feedVars
        => SaleTypes' /\ Keyed' /\ Locked' /\ Counted
  BY KeyedStep, LockedStep, CountedStep, SaleTypesStep DEF CursorInv
<1>3. QED
  BY <1>1, <1>2, CursorInvariant, PTL DEF FeedSpec

\* TrackSales adds up what the events of the inbox sold, for any invoices,
\* feeds and dispatchers, however their transactions met and failed.
THEOREM CountsExactly == FeedSpec => []SalesAreExact
<1>1. FeedInit => SaleTypes /\ Keyed /\ Locked /\ Exact
  BY ExactInit
<1>2. CursorInv /\ SaleTypes /\ Keyed /\ Locked /\ Exact /\ [FeedNext]_feedVars
        => SaleTypes' /\ Keyed' /\ Locked' /\ Exact'
  BY KeyedStep, LockedStep, CountedStep, SaleTypesStep, ExactStep DEF CursorInv
<1>3. SaleTypes /\ Exact => SalesAreExact
  <2> SUFFICES ASSUME SaleTypes, Exact, NEW t \in Tracks
               PROVE  sales[t].last = Max(Dates(t))
    BY DEF SalesAreExact, Exact, Dates
  <2>1. sales[t].last \in Dates(t) /\ \A d \in Dates(t) : d <= sales[t].last
    BY DEF Exact
  <2>2. Dates(t) \subseteq Int
    BY InvoicesAssumption DEF Exact, Dates, Sells, Never
  <2>3. QED
    BY <2>1, <2>2 DEF Max
<1>4. QED
  BY <1>1, <1>2, <1>3, CursorInvariant, PTL DEF FeedSpec

=============================================================================
