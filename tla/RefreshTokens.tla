--------------------------- MODULE RefreshTokens ---------------------------
(***************************************************************************)
(* Identity's sessions (module-identity: stores.rs, tokens.rs and           *)
(* endpoints.rs): login, refresh and logout over the process-local store of *)
(* refresh tokens, its expiry and its purge.                                *)
(*                                                                         *)
(* A request is one call of one of the three endpoints.  Each issues at     *)
(* most one pair, so the request stands for the refresh token it issues,    *)
(* which is random and belongs to its user.  The handlers have no await:    *)
(* they run to their end unless the process does, beside one another on     *)
(* the runtime's threads.  A step is one access to what they share, the     *)
(* token map and last_purge.                                                *)
(*                                                                         *)
(* The users are configuration and do not change while the process runs.   *)
(* The access token of a pair is not kept anywhere.  The wall clock does    *)
(* not go back.                                                             *)
(*                                                                         *)
(* A definition named X_Something is X with a bug: replacing X by it breaks *)
(* a property below, which shows that the property depends on X.           *)
(***************************************************************************)
EXTENDS Integers

CONSTANTS
    Logins, Refreshes, Logouts, \* the requests
    Users,
    UserOf,        \* [Requests -> Users]: whom the request names, truly or not
    Lifetime,      \* refresh_token_days, in ticks
    PurgeInterval, \* purge_interval_seconds, in ticks
    MaxTime,       \* bound: the last tick
    MaxRestarts    \* bound: how often the process restarts

Requests == Logins \cup Refreshes \cup Logouts

\* Unix time is far past the first interval; last_purge starts at zero.
Never == -PurgeInterval

ASSUME RequestsAssumption ==
    /\ Logins \cap Refreshes = {}
    /\ Logins \cap Logouts = {}
    /\ Refreshes \cap Logouts = {}
    /\ UserOf \in [Requests -> Users]
ASSUME OptionsAssumption == Lifetime \in Nat \ {0} /\ PurgeInterval \in Nat \ {0}
ASSUME BoundsAssumption == MaxTime \in Nat /\ MaxRestarts \in Nat

VARIABLES
    time,      \* Utc::now()
    tokens,    \* the keys of the store's map
    expires,   \* [Requests -> the deadline stored with its token]
    lastPurge, \* last_purge
    stage,     \* [Requests -> where the call stands]
    presented, \* [Requests -> the token in the body, or the request itself]
    clock,     \* [Requests -> the instant purge_if_due was called with]
    seen,      \* [Requests -> the last_purge it loaded]
    restarts,
    \* What happened, for the properties to speak of:
    session,   \* [Requests -> the login its token descends from]
    ended      \* the sessions of which a logout has revoked a token

callVars == <<stage, presented, clock, seen>>
vars == <<time, tokens, expires, lastPurge, callVars, restarts, session, ended>>

-----------------------------------------------------------------------------

Init ==
    /\ time = 0
    /\ tokens = {}
    /\ expires = [r \in Requests |-> 0]
    /\ lastPurge = Never
    /\ stage = [r \in Requests |-> "new"]
    /\ presented = [r \in Requests |-> r]
    /\ clock = [r \in Requests |-> 0]
    /\ seen = [r \in Requests |-> Never]
    /\ restarts = 0
    /\ session = [r \in Requests |-> r]
    /\ ended = {}

Become(r, s) == stage' = [stage EXCEPT ![r] = s]

\* The tokens clients have been given, in this life of the process or before.
Known == {t \in Requests : stage[t] \in {"issued", "lost"}}

\* Login: the credentials are right or wrong.
Login(r) ==
    /\ r \in Logins /\ stage[r] = "new"
    /\ \E answer \in {"granted", "unauthorized"} : Become(r, answer)
    /\ UNCHANGED <<time, tokens, expires, lastPurge, presented, clock, seen,
                   restarts, session, ended>>

\* The entry under "{userId}:{token}".
Entry(r, t) == {x \in tokens : x = t /\ UserOf[t] = UserOf[r]}

\* The token is validated and left in place; it is removed by nobody.
Take_Keep(r, t) ==
    /\ r \in Refreshes /\ stage[r] = "new"
    /\ presented' = [presented EXCEPT ![r] = t]
    /\ session' = [session EXCEPT ![r] = session[t]]
    /\ Become(r, IF Entry(r, t) # {} /\ expires[t] > time
                 THEN "granted" ELSE "unauthorized")
    /\ UNCHANGED <<time, tokens, expires, lastPurge, clock, seen, restarts, ended>>

\* take: the token is spent, and good unless it was absent or out of date.
Take(r, t) ==
    /\ r \in Refreshes /\ stage[r] = "new"
    /\ presented' = [presented EXCEPT ![r] = t]
    /\ session' = [session EXCEPT ![r] = session[t]]
    /\ tokens' = tokens \ Entry(r, t)
    /\ Become(r, IF Entry(r, t) # {} /\ expires[t] > time
                 THEN "granted" ELSE "unauthorized")
    /\ UNCHANGED <<time, expires, lastPurge, clock, seen, restarts, ended>>

\* issue: the pair is signed, unless that fails.
Issue(r) ==
    /\ stage[r] = "granted"
    /\ \/ /\ expires' = [expires EXCEPT ![r] = time + Lifetime]
          /\ Become(r, "signed")
       \/ Become(r, "failed") /\ UNCHANGED expires
    /\ UNCHANGED <<time, tokens, lastPurge, presented, clock, seen, restarts,
                   session, ended>>

\* purge_if_due, up to the load of last_purge.  A claim is made on the clock read
\* here, however late.
CheckPurge(r) ==
    /\ stage[r] = "signed"
    /\ clock' = [clock EXCEPT ![r] = time]
    /\ seen' = [seen EXCEPT ![r] = lastPurge]
    /\ Become(r, IF time - lastPurge < PurgeInterval THEN "storing" ELSE "claiming")
    /\ UNCHANGED <<time, tokens, expires, lastPurge, presented, restarts, session,
                   ended>>

\* The compare-and-exchange: one of those who found the purge due claims it.
ClaimPurge(r) ==
    /\ stage[r] = "claiming"
    /\ IF lastPurge = seen[r]
       THEN lastPurge' = clock[r] /\ Become(r, "purging")
       ELSE Become(r, "storing") /\ UNCHANGED lastPurge
    /\ UNCHANGED <<time, tokens, expires, presented, clock, seen, restarts, session,
                   ended>>

\* The purge counts from the next sweep, and so drops what is still good.
Expired_BeforeNext(t, now) == expires[t] <= now + PurgeInterval

Expired(t, now) == expires[t] <= now

\* purge_expired_as_of.  The map is swept shard by shard, but what goes is what
\* take refuses by then in any case.
Purge(r) ==
    /\ stage[r] = "purging"
    /\ tokens' = {t \in tokens : ~ Expired(t, clock[r])}
    /\ Become(r, "storing")
    /\ UNCHANGED <<time, expires, lastPurge, presented, clock, seen, restarts,
                   session, ended>>

\* store, and the answer.
Store(r) ==
    /\ stage[r] = "storing"
    /\ tokens' = tokens \cup {r}
    /\ Become(r, "issued")
    /\ UNCHANGED <<time, expires, lastPurge, presented, clock, seen, restarts,
                   session, ended>>

\* The caller names someone else's session: 403.
Forbid(r) ==
    /\ r \in Logouts /\ stage[r] = "new"
    /\ Become(r, "forbidden")
    /\ UNCHANGED <<time, tokens, expires, lastPurge, presented, clock, seen,
                   restarts, session, ended>>

\* Logout: the caller's own token, if it is there, is forgotten.
Revoke(r, t) ==
    /\ r \in Logouts /\ stage[r] = "new"
    /\ presented' = [presented EXCEPT ![r] = t]
    /\ tokens' = tokens \ Entry(r, t)
    /\ ended' = ended \cup {session[x] : x \in Entry(r, t)}
    /\ Become(r, "loggedOut")
    /\ UNCHANGED <<time, expires, lastPurge, clock, seen, restarts, session>>

InFlight(r) == stage[r] \in {"granted", "signed", "claiming", "purging", "storing"}

\* The process ends and another takes its place, with an empty store.
Restart ==
    /\ restarts < MaxRestarts
    /\ restarts' = restarts + 1
    /\ tokens' = {}
    /\ lastPurge' = Never
    /\ stage' = [r \in Requests |-> IF InFlight(r) THEN "failed"
                                    ELSE IF stage[r] = "issued" THEN "lost"
                                    ELSE stage[r]]
    /\ UNCHANGED <<time, expires, presented, clock, seen, session, ended>>

Tick ==
    /\ time < MaxTime
    /\ time' = time + 1
    /\ UNCHANGED <<tokens, expires, lastPurge, callVars, restarts, session, ended>>

Handle(r) ==
    \/ Login(r)
    \/ \E t \in Known : Take(r, t) \/ Revoke(r, t)
    \/ Issue(r) \/ CheckPurge(r) \/ ClaimPurge(r) \/ Purge(r) \/ Store(r)
    \/ Forbid(r)

Next == (\E r \in Requests : Handle(r)) \/ Restart \/ Tick

Spec == Init /\ [][Next]_vars

-----------------------------------------------------------------------------
(* Properties *)

TypeOK ==
    /\ time \in 0..MaxTime
    /\ tokens \subseteq Requests
    /\ expires \in [Requests -> Nat]
    /\ lastPurge \in {Never} \cup 0..MaxTime
    /\ stage \in [Requests -> {"new", "granted", "unauthorized", "signed", "claiming",
                               "purging", "storing", "issued", "failed", "forbidden",
                               "loggedOut", "lost"}]
    /\ presented \in [Requests -> Requests]
    /\ clock \in [Requests -> 0..MaxTime]
    /\ seen \in [Requests -> {Never} \cup 0..MaxTime]
    /\ restarts \in 0..MaxRestarts
    /\ session \in [Requests -> Requests]
    /\ ended \subseteq Requests

\* A token that is there to be spent, or about to be.
Alive(r) == r \in tokens \/ InFlight(r)

\* Rotation: however many requests present tokens of one session at once, it
\* never has two tokens that are good, or about to be.
OneTokenPerSession ==
    \A r, q \in Requests :
        Alive(r) /\ Alive(q) /\ session[r] = session[q] => r = q

\* r asked for a new pair for t and was let through.
Bought(r, t) ==
    /\ r \in Refreshes
    /\ presented[r] = t
    /\ stage[r] \notin {"new", "unauthorized"}

\* authn-authz.md: a refresh token is spent on use.  It buys one pair, if any,
\* and for its own user.
SpentOnce ==
    \A t \in Requests : \A r, q \in Requests :
        /\ Bought(r, t) => UserOf[r] = UserOf[t]
        /\ Bought(r, t) /\ Bought(q, t) => r = q

\* Once a logout has revoked a session's token, no token of that session is
\* good, or about to be: not even through a refresh that was under way.
LogoutEndsSession ==
    \A r \in Requests : Alive(r) => session[r] \notin ended

\* t has been spent, revoked by its user, or presented when out of date.
Gone(t) ==
    \E r \in Requests :
        /\ r # t /\ presented[r] = t
        /\ UserOf[r] = UserOf[t]

\* No purge, refresh or logout of another loses a session: a token that was
\* given out and is still good can be spent.
GoodTokensKept ==
    \A t \in Requests :
        stage[t] = "issued" /\ expires[t] > time => t \in tokens \/ Gone(t)

\* stores.rs: sweeping happens "at most once per PURGE_INTERVAL_SECONDS".  Two
\* requests that purge claimed an interval apart, whatever they had loaded.
PurgesSpaced ==
    \A r, q \in Requests :
        stage[r] = "purging" /\ stage[q] = "purging" /\ r # q =>
            \/ clock[r] + PurgeInterval <= clock[q]
            \/ clock[q] + PurgeInterval <= clock[r]
=============================================================================
