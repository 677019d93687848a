------------------------ MODULE RefreshTokensProofs ------------------------
(***************************************************************************)
(* Theorems about RefreshTokens, for any requests, users, lifetimes and     *)
(* purge intervals.                                                        *)
(***************************************************************************)
EXTENDS RefreshTokens, TLAPS

\* The calls that have not been made have touched nothing, and no session goes
\* by their name.
Untouched ==
    \A r \in Requests : stage[r] = "new" =>
        /\ session[r] = r /\ presented[r] = r /\ r \notin ended
        /\ \A q \in Requests : session[q] = r => q = r

\* What is in the map was issued, and never by a refresh that lost.
Filed == \A t \in tokens : stage[t] = "issued"

\* A token that bought something is known, and gone from the map for good.
Spent ==
    \A r, t \in Requests : Bought(r, t) =>
        /\ stage[t] \in {"issued", "lost"}
        /\ t \notin tokens

\* A claim was due when last_purge was loaded, and is no later than last_purge
\* once it is made.
Claims ==
    \A r \in Requests :
        /\ clock[r] <= time
        /\ stage[r] = "claiming" => seen[r] + PurgeInterval <= clock[r]
        /\ stage[r] = "purging" => clock[r] <= lastPurge

IInv ==
    /\ TypeOK /\ Untouched /\ Filed /\ Spent /\ Claims
    /\ OneTokenPerSession /\ SpentOnce /\ LogoutEndsSession
    /\ GoodTokensKept /\ PurgesSpaced

-----------------------------------------------------------------------------
(* Types *)

\* Every step keeps the types.
LEMMA TypeStep == TypeOK /\ [Next]_vars => TypeOK'
<1> SUFFICES ASSUME TypeOK, [Next]_vars PROVE TypeOK'
  OBVIOUS
<1> USE OptionsAssumption, BoundsAssumption
<1>1. CASE UNCHANGED vars
  BY <1>1 DEF TypeOK, vars, callVars
<1>2. ASSUME NEW r \in Requests, Login(r) PROVE TypeOK'
  BY <1>2 DEF TypeOK, Login, Become
<1>3. ASSUME NEW r \in Requests, NEW t \in Known, Take(r, t) PROVE TypeOK'
  BY <1>3 DEF TypeOK, Take, Become, Entry, Known
<1>4. ASSUME NEW r \in Requests, NEW t \in Known, Revoke(r, t) PROVE TypeOK'
  BY <1>4 DEF TypeOK, Revoke, Become, Entry, Known
<1>5. ASSUME NEW r \in Requests, Issue(r) PROVE TypeOK'
  BY <1>5 DEF TypeOK, Issue, Become
<1>6. ASSUME NEW r \in Requests, CheckPurge(r) PROVE TypeOK'
  BY <1>6 DEF TypeOK, CheckPurge, Become
<1>7. ASSUME NEW r \in Requests, ClaimPurge(r) PROVE TypeOK'
  BY <1>7 DEF TypeOK, ClaimPurge, Become
<1>8. ASSUME NEW r \in Requests, Purge(r) PROVE TypeOK'
  BY <1>8 DEF TypeOK, Purge, Become
<1>9. ASSUME NEW r \in Requests, Store(r) PROVE TypeOK'
  BY <1>9 DEF TypeOK, Store, Become
<1>10. ASSUME NEW r \in Requests, Forbid(r) PROVE TypeOK'
  BY <1>10 DEF TypeOK, Forbid, Become
<1>11. CASE Restart
  BY <1>11 DEF TypeOK, Restart
<1>12. CASE Tick
  BY <1>12 DEF TypeOK, Tick, callVars
<1> QED
  BY <1>1, <1>2, <1>3, <1>4, <1>5, <1>6, <1>7, <1>8, <1>9, <1>10, <1>11, <1>12
  DEF Next, Handle

\* A step that gives no token to a session, and takes none away unless it is out
\* of date or the process ends.
Quiet ==
    /\ UNCHANGED <<session, presented, ended>>
    /\ \A x \in Requests :
          /\ Alive(x)' => Alive(x)
          /\ stage'[x] = "new" => stage[x] = "new"
          /\ stage[x] \in {"issued", "lost"} => stage'[x] \in {"issued", "lost"}
          /\ x \in tokens' =>
                /\ x \in tokens \/ stage[x] = "storing"
                /\ stage'[x] = "issued"
          /\ x \in Refreshes /\ stage[x] \in {"new", "unauthorized"} =>
                stage'[x] = stage[x]

\* The steps that are not a login, a take or a revocation touch no session.
LEMMA QuietSteps ==
    ASSUME TypeOK, Filed, [Next]_vars
    PROVE  \/ \E r \in Requests : Login(r)
           \/ \E r \in Requests : \E t \in Known : Take(r, t) \/ Revoke(r, t)
           \/ Quiet
<1>1. CASE UNCHANGED vars
  BY <1>1 DEF Quiet, vars, callVars, Alive, InFlight, TypeOK, Filed
<1>2. ASSUME NEW r \in Requests, Issue(r) PROVE Quiet
  BY <1>2 DEF Quiet, Issue, Become, Alive, InFlight, TypeOK, Filed
<1>3. ASSUME NEW r \in Requests, CheckPurge(r) PROVE Quiet
  BY <1>3 DEF Quiet, CheckPurge, Become, Alive, InFlight, TypeOK, Filed
<1>4. ASSUME NEW r \in Requests, ClaimPurge(r) PROVE Quiet
  BY <1>4 DEF Quiet, ClaimPurge, Become, Alive, InFlight, TypeOK, Filed
<1>5. ASSUME NEW r \in Requests, Purge(r) PROVE Quiet
  BY <1>5 DEF Quiet, Purge, Become, Alive, InFlight, TypeOK, Filed
<1>6. ASSUME NEW r \in Requests, Store(r) PROVE Quiet
  BY <1>6 DEF Quiet, Store, Become, Alive, InFlight, TypeOK, Filed
<1>7. ASSUME NEW r \in Requests, Forbid(r) PROVE Quiet
  BY <1>7, RequestsAssumption DEF Quiet, Forbid, Become, Alive, InFlight, TypeOK, Filed
<1>8. CASE Restart
  BY <1>8 DEF Quiet, Restart, Alive, InFlight, TypeOK
<1>9. CASE Tick
  BY <1>9 DEF Quiet, Tick, callVars, Alive, InFlight, TypeOK, Filed
<1> QED
  BY <1>1, <1>2, <1>3, <1>4, <1>5, <1>6, <1>7, <1>8, <1>9 DEF Next, Handle

-----------------------------------------------------------------------------
(* The history of the calls *)

\* A login, a take or a revocation changes only the caller's stage and session.
LEMMA UntouchedStep ==
    ASSUME TypeOK, Untouched, Filed, [Next]_vars PROVE Untouched'
<1>1. CASE Quiet
  BY <1>1 DEF Quiet, Untouched
<1>2. ASSUME NEW r \in Requests, Login(r) PROVE Untouched'
  BY <1>2 DEF Login, Become, Untouched, TypeOK
<1>3. ASSUME NEW r \in Requests, NEW t \in Known, Take(r, t) PROVE Untouched'
  <2>1. stage[t] # "new" /\ t \in Requests
    BY DEF Known
  <2> QED
    BY <1>3, <2>1 DEF Take, Become, Untouched, TypeOK
<1>4. ASSUME NEW r \in Requests, NEW t \in Known, Revoke(r, t) PROVE Untouched'
  <2>1. stage[t] # "new" /\ t \in Requests
    BY DEF Known
  <2> QED
    BY <1>4, <2>1 DEF Revoke, Become, Untouched, TypeOK, Entry
<1> QED
  BY <1>1, <1>2, <1>3, <1>4, QuietSteps

\* Only an issued token is filed, and it stays issued while it is.
LEMMA FiledStep == ASSUME TypeOK, Filed, [Next]_vars PROVE Filed'
<1>1. CASE Quiet
  <2>1. tokens' \subseteq Requests
    BY TypeStep DEF TypeOK
  <2> QED
    BY <1>1, <2>1 DEF Quiet, Filed
<1>2. ASSUME NEW r \in Requests, Login(r) PROVE Filed'
  BY <1>2 DEF Login, Become, Filed, TypeOK
<1>3. ASSUME NEW r \in Requests, NEW t \in Known, Take(r, t) PROVE Filed'
  BY <1>3 DEF Take, Become, Filed, TypeOK
<1>4. ASSUME NEW r \in Requests, NEW t \in Known, Revoke(r, t) PROVE Filed'
  BY <1>4 DEF Revoke, Become, Filed, TypeOK
<1> QED
  BY <1>1, <1>2, <1>3, <1>4, QuietSteps

\* A take that is granted removes the token, which is in the map until then.
LEMMA Granted ==
    ASSUME TypeOK, Filed, NEW r \in Requests, NEW t \in Known, Take(r, t)
    PROVE  /\ t \in Requests /\ t # r
           /\ stage' = [stage EXCEPT ![r] = stage'[r]]
           /\ stage'[r] \in {"granted", "unauthorized"}
           /\ tokens' \subseteq tokens
           /\ t \notin tokens' \/ stage'[r] = "unauthorized"
           /\ stage'[r] = "granted" =>
                 t \in tokens /\ stage[t] = "issued" /\ UserOf[r] = UserOf[t]
  BY DEF Take, Become, Entry, Known, Filed, TypeOK

\* A token that has been bought with stays gone, and nobody buys with it again.
LEMMA SpentStep ==
    ASSUME TypeOK, Filed, Spent, SpentOnce, [Next]_vars
    PROVE  Spent' /\ SpentOnce'
<1> DEFINE SameOthers(r) ==
        /\ \A q \in Requests \ {r} : \A u \in Requests : Bought(q, u)' => Bought(q, u)
        /\ tokens' \subseteq tokens
        /\ \A u \in Requests : stage[u] \in {"issued", "lost"} => stage'[u] = stage[u]
<1>1. CASE Quiet
  <2>1. \A r, t \in Requests : Bought(r, t)' => Bought(r, t)
    BY <1>1 DEF Quiet, Bought
  <2> QED
    BY <1>1, <2>1 DEF Quiet, Spent, SpentOnce
<1>2. ASSUME NEW r \in Requests, Login(r) PROVE Spent' /\ SpentOnce'
  <2>1. \A q, u \in Requests : Bought(q, u)' => Bought(q, u)
    BY <1>2, RequestsAssumption DEF Login, Become, Bought, TypeOK
  <2>2. SameOthers(r)
    BY <1>2, <2>1 DEF Login, Become, TypeOK
  <2> QED
    BY <2>1, <2>2 DEF Spent, SpentOnce
<1>3. ASSUME NEW r \in Requests, NEW t \in Known, Take(r, t) PROVE Spent' /\ SpentOnce'
  <2>1. SameOthers(r)
    <3>1. \A q \in Requests \ {r} : presented'[q] = presented[q] /\ stage'[q] = stage[q]
      BY <1>3 DEF Take, Become, TypeOK
    <3>2. tokens' \subseteq tokens /\ stage[r] = "new"
      BY <1>3, Granted DEF Take
    <3> QED
      BY <3>1, <3>2 DEF Bought
  <2>2. ASSUME NEW u \in Requests, Bought(r, u)'
        PROVE  u = t /\ stage'[r] = "granted"
    <3>1. presented'[r] = t
      BY <1>3, Granted DEF Take, TypeOK
    <3>2. presented'[r] = u /\ stage'[r] # "unauthorized"
      BY <2>2 DEF Bought
    <3> QED
      BY <1>3, <3>1, <3>2, Granted
  <2>3. Spent'
    BY <1>3, <2>1, <2>2, Granted DEF Spent
  <2>4. SpentOnce'
    BY <1>3, <2>1, <2>2, Granted DEF Spent, SpentOnce
  <2> QED
    BY <2>3, <2>4
<1>4. ASSUME NEW r \in Requests, NEW t \in Known, Revoke(r, t)
      PROVE  Spent' /\ SpentOnce'
  <2>1. \A q, u \in Requests : Bought(q, u)' => Bought(q, u)
    BY <1>4, RequestsAssumption DEF Revoke, Become, Bought, TypeOK
  <2>2. SameOthers(r)
    BY <1>4, <2>1 DEF Revoke, Become, TypeOK
  <2> QED
    BY <2>1, <2>2 DEF Spent, SpentOnce
<1> QED
  BY <1>1, <1>2, <1>3, <1>4, QuietSteps

-----------------------------------------------------------------------------
(* Sessions *)

\* A step that makes no token alive leaves one a session and none of those
\* that have ended.
LEMMA NothingRevived ==
    ASSUME UNCHANGED <<session, ended>>, \A x \in Requests : Alive(x)' => Alive(x)
    PROVE  /\ OneTokenPerSession => OneTokenPerSession'
           /\ LogoutEndsSession => LogoutEndsSession'
  BY DEF OneTokenPerSession, LogoutEndsSession

\* A login starts a session of its own; a refresh that is granted continues the
\* session of the token it took, which was its only one; a logout that revokes
\* a token revokes its session's only one.
LEMMA SessionStep ==
    ASSUME TypeOK, Untouched, Filed, OneTokenPerSession, LogoutEndsSession, [Next]_vars
    PROVE  OneTokenPerSession' /\ LogoutEndsSession'
<1>1. CASE Quiet
  BY <1>1, NothingRevived DEF Quiet
<1>2. ASSUME NEW r \in Requests, Login(r)
      PROVE  OneTokenPerSession' /\ LogoutEndsSession'
  <2>1. UNCHANGED <<session, ended>>
    BY <1>2 DEF Login
  <2>2. \A x \in Requests \ {r} : Alive(x)' => Alive(x)
    BY <1>2 DEF Login, Become, Alive, InFlight, TypeOK
  <2>3. /\ session[r] = r /\ r \notin ended
        /\ \A q \in Requests : session[q] = r => q = r
    BY <1>2 DEF Login, Untouched
  <2> QED
    BY <2>1, <2>2, <2>3 DEF OneTokenPerSession, LogoutEndsSession
<1>3. ASSUME NEW r \in Requests, NEW t \in Known, Take(r, t)
      PROVE  OneTokenPerSession' /\ LogoutEndsSession'
  <2>1. /\ session' = [session EXCEPT ![r] = session[t]]
        /\ ended' = ended
    BY <1>3 DEF Take
  <2>2. \A x \in Requests \ {r} : Alive(x)' => Alive(x)
    BY <1>3, Granted DEF Alive, InFlight, TypeOK
  <2>3. ASSUME Alive(r)'
        PROVE  Alive(t) /\ ~ Alive(t)'
    <3>1. r \notin tokens
      BY <1>3 DEF Take, Filed
    <3>2. stage'[r] = "granted"
      BY <1>3, <2>3, <3>1, Granted DEF Alive, InFlight
    <3> QED
      BY <1>3, <3>2, Granted DEF Alive, InFlight, TypeOK
  <2>4. \A x \in Requests \ {r} : session'[x] = session[x]
    BY <2>1 DEF TypeOK
  <2>5. session'[r] = session[t] /\ t \in Requests /\ t # r
    BY <1>3, <2>1, Granted DEF TypeOK
  <2> QED
    BY <2>1, <2>2, <2>3, <2>4, <2>5 DEF OneTokenPerSession, LogoutEndsSession
<1>4. ASSUME NEW r \in Requests, NEW t \in Known, Revoke(r, t)
      PROVE  OneTokenPerSession' /\ LogoutEndsSession'
  <2>1. \A x \in Requests : Alive(x)' => Alive(x)
    BY <1>4 DEF Revoke, Become, Alive, InFlight, TypeOK
  <2>2. session' = session
    BY <1>4 DEF Revoke
  <2>3. CASE Entry(r, t) = {}
    BY <1>4, <2>1, <2>3, NothingRevived DEF Revoke
  <2>4. CASE Entry(r, t) # {}
    <3>1. t \in tokens /\ t \in Requests /\ stage[t] = "issued" /\ t # r
      BY <1>4, <2>4 DEF Entry, Filed, Known, Revoke
    <3>2. ended' = ended \cup {session[t]}
      BY <1>4, <2>4 DEF Revoke, Entry
    <3>3. t \notin tokens'
      BY <1>4, <2>4 DEF Revoke, Entry
    <3>4. Alive(t) /\ ~ Alive(t)'
      BY <1>4, <3>1, <3>3 DEF Revoke, Become, Alive, InFlight, TypeOK
    <3> QED
      BY <2>1, <2>2, <3>1, <3>2, <3>4 DEF OneTokenPerSession, LogoutEndsSession
  <2> QED
    BY <2>3, <2>4
<1> QED
  BY <1>1, <1>2, <1>3, <1>4, QuietSteps

-----------------------------------------------------------------------------
(* The purge *)

\* A claim is later, by an interval, than every claim before it: those still at
\* work claimed no later than last_purge, which this one loaded.
LEMMA PurgeStep ==
    ASSUME TypeOK, Claims, PurgesSpaced, [Next]_vars
    PROVE  Claims' /\ PurgesSpaced'
<1> USE OptionsAssumption, BoundsAssumption DEF Never
<1> DEFINE Still ==
        /\ UNCHANGED <<clock, seen, lastPurge>>
        /\ time <= time'
        /\ \A q \in Requests :
              /\ stage'[q] = "claiming" => stage[q] = "claiming"
              /\ stage'[q] = "purging" => stage[q] = "purging"
<1>1. ASSUME Still PROVE Claims' /\ PurgesSpaced'
  <2>1. time' \in Int
    BY TypeStep DEF TypeOK
  <2> QED
    BY <1>1, <2>1 DEF Claims, PurgesSpaced, TypeOK
<1>2. CASE UNCHANGED vars
  BY <1>1, <1>2 DEF vars, callVars, TypeOK
<1>3. ASSUME NEW r \in Requests,
             \/ Login(r) \/ Issue(r) \/ Purge(r) \/ Store(r) \/ Forbid(r)
             \/ \E t \in Known : Take(r, t) \/ Revoke(r, t)
      PROVE  Still
  BY <1>3 DEF Login, Issue, Purge, Store, Forbid, Take, Revoke, Become, TypeOK
<1>4. ASSUME NEW r \in Requests, CheckPurge(r) PROVE Claims' /\ PurgesSpaced'
  <2>1. \A q \in Requests \ {r} :
           clock'[q] = clock[q] /\ seen'[q] = seen[q] /\ stage'[q] = stage[q]
    BY <1>4 DEF CheckPurge, Become, TypeOK
  <2>2. /\ clock'[r] = time /\ seen'[r] = lastPurge /\ stage'[r] # "purging"
        /\ stage'[r] = "claiming" => ~ (time - lastPurge < PurgeInterval)
        /\ time' = time /\ lastPurge' = lastPurge
    BY <1>4 DEF CheckPurge, Become, TypeOK
  <2>3. Claims'
    BY <2>1, <2>2 DEF Claims, TypeOK
  <2>4. PurgesSpaced'
    BY <2>1, <2>2 DEF PurgesSpaced
  <2> QED
    BY <2>3, <2>4
<1>5. ASSUME NEW r \in Requests, ClaimPurge(r) PROVE Claims' /\ PurgesSpaced'
  <2>1. UNCHANGED <<clock, seen, time>>
    BY <1>5 DEF ClaimPurge
  <2>2. \A q \in Requests \ {r} : stage'[q] = stage[q]
    BY <1>5 DEF ClaimPurge, Become, TypeOK
  <2>3. CASE lastPurge # seen[r]
    BY <1>1, <1>5, <2>3 DEF ClaimPurge, Become, TypeOK
  <2>4. CASE lastPurge = seen[r]
    <3>1. lastPurge' = clock[r] /\ stage'[r] = "purging"
      BY <1>5, <2>4 DEF ClaimPurge, Become, TypeOK
    <3>2. lastPurge + PurgeInterval <= clock[r]
      BY <1>5, <2>4 DEF ClaimPurge, Claims
    <3>3. \A q \in Requests : stage[q] = "purging" => clock[q] + PurgeInterval <= clock[r]
      BY <3>2 DEF Claims, TypeOK
    <3>4. Claims'
      BY <2>1, <2>2, <3>1, <3>3 DEF Claims, TypeOK
    <3>5. PurgesSpaced'
      BY <2>1, <2>2, <3>1, <3>3 DEF PurgesSpaced
    <3> QED
      BY <3>4, <3>5
  <2> QED
    BY <2>3, <2>4
<1>6. CASE Restart
  <2>1. \A q \in Requests : stage'[q] \notin {"claiming", "purging"}
    BY <1>6 DEF Restart, InFlight, TypeOK
  <2> QED
    BY <1>6, <2>1 DEF Restart, Claims, PurgesSpaced
<1>7. CASE Tick
  <2>1. Still
    BY <1>7 DEF Tick, callVars, TypeOK
  <2> QED
    BY <1>1, <2>1
<1> QED
  BY <1>1, <1>2, <1>3, <1>4, <1>5, <1>6, <1>7 DEF Next, Handle

-----------------------------------------------------------------------------
(* The tokens that were given out *)

\* A token that is gone stays gone: who presented it does so still.
LEMMA GoneStep ==
    ASSUME TypeOK, Untouched, [Next]_vars, NEW t \in Requests, Gone(t)
    PROVE  Gone(t)'
<1>1. PICK r \in Requests : r # t /\ presented[r] = t /\ UserOf[r] = UserOf[t]
  BY DEF Gone
<1>2. stage[r] # "new"
  BY <1>1 DEF Untouched
<1>3. presented'[r] = presented[r]
  BY <1>2 DEF Next, Handle, Login, Take, Issue, CheckPurge, ClaimPurge, Purge, Store,
              Forbid, Revoke, Restart, Tick, vars, callVars, TypeOK
<1> QED
  BY <1>1, <1>3 DEF Gone

\* A token leaves the map by the hand of its user, out of date, or with the
\* process.
LEMMA GoodTokensStep ==
    ASSUME TypeOK, Untouched, Claims, GoodTokensKept, [Next]_vars
    PROVE  GoodTokensKept'
<1> SUFFICES ASSUME NEW t \in Requests, stage'[t] = "issued", expires'[t] > time',
                    ~ Gone(t)'
             PROVE  t \in tokens'
  BY DEF GoodTokensKept
<1> USE OptionsAssumption, BoundsAssumption
<1>1. ~ Gone(t)
  BY GoneStep
<1>2. ASSUME stage[t] = "issued", expires[t] > time PROVE t \in tokens
  BY <1>1, <1>2 DEF GoodTokensKept
<1>3. CASE UNCHANGED vars
  BY <1>2, <1>3 DEF vars, callVars
<1>4. ASSUME NEW r \in Requests,
             \/ Login(r) \/ Issue(r) \/ CheckPurge(r) \/ ClaimPurge(r) \/ Forbid(r)
      PROVE  t \in tokens'
  BY <1>2, <1>4 DEF Login, Issue, CheckPurge, ClaimPurge, Forbid, Become, TypeOK
<1>5. ASSUME NEW r \in Requests, NEW x \in Known, Take(r, x) \/ Revoke(r, x)
      PROVE  t \in tokens'
  <2>1. /\ stage[t] = "issued" /\ stage[r] = "new"
        /\ expires' = expires /\ time' = time
        /\ presented' = [presented EXCEPT ![r] = x]
        /\ tokens' = tokens \ Entry(r, x)
    BY <1>5 DEF Take, Revoke, Become, TypeOK
  <2>2. t \in tokens
    BY <1>2, <2>1
  <2>3. t \notin Entry(r, x)
    <3> SUFFICES ASSUME t \in Entry(r, x) PROVE Gone(t)'
      OBVIOUS
    <3>1. t = x /\ UserOf[r] = UserOf[t] /\ r # t /\ presented'[r] = t
      BY <2>1 DEF Entry, TypeOK
    <3> QED
      BY <3>1 DEF Gone
  <2> QED
    BY <2>1, <2>2, <2>3
<1>6. ASSUME NEW r \in Requests, Purge(r) PROVE t \in tokens'
  <2>1. stage[t] = "issued" /\ expires' = expires /\ time' = time
    BY <1>6 DEF Purge, Become, TypeOK
  <2>2. ~ Expired(t, clock[r])
    BY <2>1 DEF Expired, Claims, TypeOK
  <2> QED
    BY <1>2, <1>6, <2>1, <2>2 DEF Purge
<1>7. ASSUME NEW r \in Requests, Store(r) PROVE t \in tokens'
  BY <1>2, <1>7 DEF Store, Become, TypeOK
<1>8. CASE Restart
  BY <1>8 DEF Restart, InFlight, TypeOK
<1>9. CASE Tick
  BY <1>2, <1>9 DEF Tick, callVars, TypeOK
<1> QED
  BY <1>3, <1>4, <1>5, <1>6, <1>7, <1>8, <1>9 DEF Next, Handle

-----------------------------------------------------------------------------
(* The theorems *)

\* Nobody has called yet.
LEMMA InitIInv == Init => IInv
<1> SUFFICES ASSUME Init PROVE IInv
  OBVIOUS
<1> USE OptionsAssumption, BoundsAssumption DEF Init
<1>1. TypeOK
  BY DEF TypeOK
<1>2. Untouched /\ Filed /\ Claims
  BY DEF Untouched, Filed, Claims
<1>3. \A r \in Requests : ~ Alive(r)
  BY DEF Alive, InFlight
<1>4. OneTokenPerSession /\ LogoutEndsSession
  BY <1>3 DEF OneTokenPerSession, LogoutEndsSession
<1>5. Spent /\ SpentOnce
  BY DEF Spent, SpentOnce, Bought
<1>6. GoodTokensKept /\ PurgesSpaced
  BY DEF GoodTokensKept, PurgesSpaced
<1> QED
  BY <1>1, <1>2, <1>4, <1>5, <1>6 DEF IInv

LEMMA StepIInv == IInv /\ [Next]_vars => IInv'
  BY TypeStep, UntouchedStep, FiledStep, SpentStep, SessionStep, PurgeStep,
     GoodTokensStep DEF IInv

LEMMA Invariance == Spec => []IInv
  BY InitIInv, StepIInv, PTL DEF Spec

\* The variables keep their types.
THEOREM TypeCorrect == Spec => []TypeOK
<1>1. IInv => TypeOK
  BY DEF IInv
<1> QED
  BY <1>1, Invariance, PTL

\* tokens.rs, refresh: however many requests present tokens of one session at
\* once, it never has two that are good, or about to be.
THEOREM RotationHolds == Spec => []OneTokenPerSession
<1>1. IInv => OneTokenPerSession
  BY DEF IInv
<1> QED
  BY <1>1, Invariance, PTL

\* stores.rs, take: a refresh token buys one pair, if any, and for its own user.
THEOREM TokensSpentOnce == Spec => []SpentOnce
<1>1. IInv => SpentOnce
  BY DEF IInv
<1> QED
  BY <1>1, Invariance, PTL

\* endpoints.rs, logout: once a token of a session has been revoked, no token of
\* it is good, whatever refreshes were under way.
THEOREM LogoutHolds == Spec => []LogoutEndsSession
<1>1. IInv => LogoutEndsSession
  BY DEF IInv
<1> QED
  BY <1>1, Invariance, PTL

\* stores.rs, purge_expired_as_of: no purge drops a token that is still good,
\* and nobody but its user takes it.
THEOREM TokensKept == Spec => []GoodTokensKept
<1>1. IInv => GoodTokensKept
  BY DEF IInv
<1> QED
  BY <1>1, Invariance, PTL

\* stores.rs, purge_if_due: requests that purge claimed an interval apart.
THEOREM PurgesApart == Spec => []PurgesSpaced
<1>1. IInv => PurgesSpaced
  BY DEF IInv
<1> QED
  BY <1>1, Invariance, PTL
=============================================================================
