---------------------------- MODULE TrafficProofs -----------------------------
(***************************************************************************)
(* The safety of RateLimiter for any requests, partitions, limits, window  *)
(* and length of time, and of Pipeline for any hosts, logins and requests. *)
(*                                                                         *)
(* RateLimiter rests on what the entry of a partition says at any moment   *)
(* (Right): its windows do not overlap, `used` counts the requests         *)
(* admitted in the window it is in, `queued` counts those who hold a       *)
(* place, and if the window let a new arrival in, it still has a permit    *)
(* for everyone who queued before it opened.  A closed or missing entry    *)
(* says the same of the window that admit opens in its stead               *)
(* (CurrentIsRight).                                                       *)
(*                                                                         *)
(* Pipeline rests on where a request is (Placed): the layers around it and *)
(* those ahead are the ones its host and its route have, in one order, so  *)
(* that at a layer's turn every layer before it is around the request      *)
(* (Turn), and on its way out an answer passes each of them.  To this,     *)
(* EveryAnswerIsWrapped needs what an answer already is, by the layers     *)
(* that are still to see it (Wrapped), and OnlyTheEntitledRun what each    *)
(* layer around the request has seen to (Entitled) and what an answer      *)
(* tells of who asked (Justified).                                         *)
(***************************************************************************)
EXTENDS RateLimiter, Pipeline, SumsProofs

-----------------------------------------------------------------------------
(* RateLimiter: the invariant *)

Here(r) == PartitionOf[r]

\* The requests admitted on arrival in p's window that started at s.
Newcomers(p, s) == {r \in Admitted(p, s, s + Window) : arrival[r] = "New"}

\* Those who hold a place in p's queue since before the window started.
Olders(p, s) == {r \in Waiting(p) : wake[r] <= s}

Right(p, w) ==
    /\ w.started <= time
    /\ \A s \in opened[p] : s = w.started \/ s + Window <= w.started
    /\ w.queued = Cardinality(Waiting(p)) + Cardinality(Gone(p))
    /\ w.used = Cardinality(Admitted(p, w.started, w.started + Window))
    /\ Newcomers(p, w.started) # {} =>
          w.used + Cardinality(Olders(p, w.started)) <= PermitLimit

EntryRight(p) ==
    IF windows[p].tracked
    THEN windows[p].started \in opened[p] /\ Right(p, windows[p])
    ELSE /\ windows[p] = Absent
         /\ Waiting(p) = {} /\ Gone(p) = {}
         /\ \A s \in opened[p] : s + Window <= time

EntriesRight == \A p \in Partitions : EntryRight(p)

\* No request inside admit has an old reading, and a new one has not waited.
Clocked ==
    \A r \in Requests : /\ now[r] <= time
                        /\ Inside(r) => now[r] = time
                        /\ stage[r] = "new" => arrival[r] = "New"

\* Every admission falls into a window of its partition.
Covered ==
    \A r \in Requests : stage[r] = "admitted" =>
        \E s \in opened[Here(r)] : s <= now[r] /\ now[r] < s + Window

\* A request sleeps to the end of a window, and no less.
Sleepers ==
    \A r \in Requests : r \in Waiting(Here(r)) =>
        /\ \E s \in opened[Here(r)] : wake[r] = s + Window
        /\ Inside(r) => wake[r] <= time

IInv == TypeOK /\ Clocked /\ Covered /\ Sleepers /\ EntriesRight /\ PermitsPerWindow

EntryType == [started : 0..MaxTime, used : 0..PermitLimit,
            queued : 0..QueueLimit, tracked : BOOLEAN]

-----------------------------------------------------------------------------
(* RateLimiter: the sets a partition's entry is about *)

\* The sets the invariant counts are finite.
LEMMA SetsAreFinite ==
    ASSUME NEW p, NEW s
    PROVE  /\ IsFiniteSet(Waiting(p)) /\ Cardinality(Waiting(p)) \in Nat
           /\ IsFiniteSet(Gone(p)) /\ Cardinality(Gone(p)) \in Nat
           /\ IsFiniteSet(Admitted(p, s, s + Window))
           /\ Cardinality(Admitted(p, s, s + Window)) \in Nat
           /\ IsFiniteSet(Olders(p, s)) /\ Cardinality(Olders(p, s)) \in Nat
<1>1. /\ Waiting(p) \subseteq Requests /\ Gone(p) \subseteq Requests
      /\ Admitted(p, s, s + Window) \subseteq Requests
      /\ Olders(p, s) \subseteq Requests
  BY DEF Waiting, Gone, Admitted, Olders
<1> QED  BY <1>1, RequestsAssumption, FS_Subset, FS_CardinalityType

\* What admit finds in a partition's entry, or puts there first, is right,
\* open, and later than the window of whoever waited for it.
LEMMA CurrentIsRight ==
    ASSUME IInv, NEW r \in Requests, stage[r] = "deciding"
    PROVE  /\ Current(r) \in EntryType /\ Current(r).tracked
           /\ Right(Here(r), Current(r))
           /\ time < Current(r).started + Window
           /\ arrival[r] = "Queued" => wake[r] <= Current(r).started
<1> DEFINE p == Here(r)
           w == windows[p]
<1>0. /\ p \in Partitions /\ now[r] = time /\ time \in 0..MaxTime
      /\ w \in EntryType /\ Window \in Nat \ {0} /\ Inside(r)
      /\ PermitLimit \in Nat /\ QueueLimit \in Nat /\ MaxTime \in Nat
      /\ opened[p] \in SUBSET (0..MaxTime)
  BY RequestsAssumption, OptionsAssumption, BoundAssumption
     DEF IInv, TypeOK, Clocked, Inside, Here, EntryType
<1>1. arrival[r] = "Queued" => r \in Waiting(p) /\ wake[r] <= time
  BY <1>0 DEF IInv, Sleepers, Waiting, Here
<1>2. \A x \in Requests : stage[x] = "admitted" /\ PartitionOf[x] = p =>
         \E s \in opened[p] : s <= now[x] /\ now[x] < s + Window
  BY DEF IInv, Covered, Here
<1>3. TypeOK
  BY DEF IInv
<1>4. ASSUME \A s \in opened[p] : s + Window <= time
      PROVE  Admitted(p, time, time + Window) = {}
  <2> SUFFICES ASSUME NEW x \in Admitted(p, time, time + Window) PROVE FALSE
    OBVIOUS
  <2>1. /\ x \in Requests /\ time <= now[x] /\ now[x] \in Nat
        /\ \E s \in opened[p] : s <= now[x] /\ now[x] < s + Window
    BY <1>2, <1>3, <1>0 DEF Admitted, TypeOK
  <2>2. now[x] <= time
    BY <2>1 DEF IInv, Clocked
  <2> QED  BY <2>1, <2>2, <1>4, <1>0
<1>8. ASSUME \A s \in opened[p] : s + Window <= time,
             Admitted(p, time, time + Window) = {},
             NEW queued, queued = Cardinality(Waiting(p)) + Cardinality(Gone(p))
      PROVE  Right(p, Entry(time, 0, queued))
  <2>1. Newcomers(p, time) = {}
    BY <1>8 DEF Newcomers
  <2>2. Cardinality(Admitted(p, time, time + Window)) = 0
    BY <1>8, FS_EmptySet
  <2> DEFINE e == Entry(time, 0, queued)
  <2>3. e.started = time /\ e.used = 0 /\ e.queued = queued
    BY DEF Entry
  <2> HIDE DEF e
  <2>4. Right(p, e)
    BY <2>1, <2>2, <2>3, <1>8, <1>0 DEF Right
  <2> QED  BY <2>4 DEF e
<1>5. CASE ~ w.tracked
  <2>1. /\ Waiting(p) = {} /\ Gone(p) = {}
        /\ \A s \in opened[p] : s + Window <= time
    BY <1>5, <1>0 DEF IInv, EntriesRight, EntryRight
  <2>2. Current(r) = Entry(time, 0, 0)
    BY <1>5, <1>0 DEF Current, Here
  <2>3. Admitted(p, time, time + Window) = {}
    BY <1>4, <2>1
  <2>4. Right(p, Entry(time, 0, 0))
    BY <1>8, <2>1, <2>3, <1>0, FS_EmptySet
  <2> QED  BY <2>1, <2>2, <2>4, <1>0, <1>1 DEF Entry, EntryType
<1>6. CASE w.tracked /\ time - w.started >= Window
  <2>1. w.started \in opened[p] /\ Right(p, w)
    BY <1>6, <1>0 DEF IInv, EntriesRight, EntryRight
  <2>2. Current(r) = Entry(time, 0, w.queued)
    BY <1>6, <1>0 DEF Current, Here
  <2>3. \A s \in opened[p] : s + Window <= time
    BY <2>1, <1>6, <1>0 DEF Right, EntryType
  <2>4. Admitted(p, time, time + Window) = {}
    BY <1>4, <2>3
  <2>5. Right(p, Entry(time, 0, w.queued))
    <3>1. w.queued = Cardinality(Waiting(p)) + Cardinality(Gone(p))
      BY <2>1 DEF Right
    <3> QED  BY <1>8, <2>3, <2>4, <1>0, <3>1
  <2> QED  BY <2>2, <2>5, <1>0, <1>1 DEF Entry, EntryType
<1>7. CASE w.tracked /\ ~ (time - w.started >= Window)
  <2>1. w.started \in opened[p] /\ Right(p, w)
    BY <1>7, <1>0 DEF IInv, EntriesRight, EntryRight
  <2>2. Current(r) = w
    BY <1>7, <1>0 DEF Current, Here
  <2>3. time < w.started + Window
    BY <1>7, <1>0 DEF EntryType
  <2>4. ASSUME arrival[r] = "Queued" PROVE wake[r] <= w.started
    <3>1. PICK s \in opened[p] : wake[r] = s + Window
      BY <1>1, <2>4 DEF IInv, Sleepers
    <3>2. s # w.started
      BY <3>1, <2>3, <1>1, <2>4, <1>0 DEF EntryType
    <3> QED  BY <3>1, <3>2, <2>1 DEF Right
  <2> QED  BY <2>1, <2>2, <2>3, <2>4, <1>0, <1>7
<1> QED  BY <1>5, <1>6, <1>7

-----------------------------------------------------------------------------
(* RateLimiter: steps that leave a partition's entry alone *)

\* x is in the sets of its partition after the step as it was before.
Undisturbed(x) ==
    /\ stage'[x] = "admitted" <=> stage[x] = "admitted"
    /\ stage[x] = "admitted" => now'[x] = now[x] /\ arrival'[x] = arrival[x]
    /\ stage'[x] = "dropped" <=> stage[x] = "dropped"
    /\ (stage[x] = "asleep" \/ (Inside(x) /\ arrival[x] = "Queued"))' <=>
          (stage[x] = "asleep" \/ (Inside(x) /\ arrival[x] = "Queued"))
    /\ stage[x] = "asleep" \/ (Inside(x) /\ arrival[x] = "Queued") =>
          wake'[x] = wake[x]

\* The sets of a partition none of whose requests is disturbed.
LEMMA SetsUndisturbed ==
    ASSUME NEW q, \A x \in Requests : PartitionOf[x] = q => Undisturbed(x)
    PROVE  /\ Waiting(q)' = Waiting(q) /\ Gone(q)' = Gone(q)
           /\ \A s : /\ Admitted(q, s, s + Window)' = Admitted(q, s, s + Window)
                    /\ Newcomers(q, s)' = Newcomers(q, s)
                    /\ Olders(q, s)' = Olders(q, s)
<1>1. Waiting(q)' = Waiting(q)
  BY DEF Waiting, Undisturbed
<1>2. Gone(q)' = Gone(q)
  BY DEF Gone, Undisturbed
<1>3. ASSUME NEW s PROVE Admitted(q, s, s + Window)' = Admitted(q, s, s + Window)
  BY DEF Admitted, Undisturbed
<1>4. ASSUME NEW s PROVE Newcomers(q, s)' = Newcomers(q, s)
  BY DEF Newcomers, Admitted, Undisturbed
<1>5. ASSUME NEW s PROVE Olders(q, s)' = Olders(q, s)
  BY <1>1 DEF Olders, Waiting, Undisturbed
<1> QED  BY <1>1, <1>2, <1>3, <1>4, <1>5

\* What is right of its entry stays right, and its windows keep their permits.
LEMMA EntryUndisturbed ==
    ASSUME NEW q \in Partitions, IInv, time' \in Nat, time' >= time,
           \A x \in Requests : PartitionOf[x] = q => Undisturbed(x),
           windows'[q] = windows[q], opened'[q] = opened[q]
    PROVE  /\ EntryRight(q)'
           /\ \A s \in opened'[q] :
                 Cardinality(Admitted(q, s, s + Window)') <= PermitLimit
<1>1. /\ Waiting(q)' = Waiting(q) /\ Gone(q)' = Gone(q)
      /\ \A s : /\ Admitted(q, s, s + Window)' = Admitted(q, s, s + Window)
               /\ Newcomers(q, s)' = Newcomers(q, s)
               /\ Olders(q, s)' = Olders(q, s)
  BY SetsUndisturbed
<1>2. EntryRight(q) /\ \A s \in opened[q] : s \in Nat
  BY BoundAssumption DEF IInv, EntriesRight, TypeOK
<1>3. time \in Nat /\ windows[q] \in EntryType /\ Window \in Nat
  BY BoundAssumption, OptionsAssumption DEF IInv, TypeOK, EntryType
<1>4. EntryRight(q)'
  BY <1>1, <1>2, <1>3 DEF EntryRight, Right, EntryType
<1> QED  BY <1>1, <1>4 DEF IInv, PermitsPerWindow

-----------------------------------------------------------------------------
(* RateLimiter: the request that admit decides *)

\* What every decision shares.
Verdict(r, v) ==
    /\ stage[r] = "deciding"
    /\ stage' = [stage EXCEPT ![r] = v]
    /\ UNCHANGED <<time, lastSweep, now, arrival>>
    /\ opened' = [opened EXCEPT ![Here(r)] = @ \cup {Current(r).started}]

Left(r, used, queued) ==
    windows' = [windows EXCEPT ![Here(r)] =
                  Entry(Current(r).started, used, queued)]

Slept(r) == wake' = [wake EXCEPT ![r] = Current(r).started + Window]

\* The four outcomes of admit.
LEMMA Outcomes ==
    ASSUME NEW r \in Requests, Admit(r)
    PROVE  \/ /\ Verdict(r, "admitted")
              /\ Current(r).used + Ahead(r) < PermitLimit
              /\ Left(r, Current(r).used + 1, LeaveQueue(r))
              /\ UNCHANGED wake
           \/ /\ Verdict(r, "asleep") /\ arrival[r] = "Queued"
              /\ ~ (Current(r).used + Ahead(r) < PermitLimit)
              /\ Left(r, Current(r).used, Current(r).queued)
              /\ Slept(r)
           \/ /\ Verdict(r, "asleep") /\ PlaceFree(r)
              /\ Left(r, Current(r).used, Current(r).queued + 1)
              /\ Slept(r)
           \/ /\ Verdict(r, "refused") /\ arrival[r] = "New"
              /\ Left(r, Current(r).used, Current(r).queued)
              /\ UNCHANGED wake
BY DEF Admit, Verdict, Left, Slept, Here

\* The other partitions do not notice.
LEMMA OthersUndisturbed ==
    ASSUME IInv, NEW r \in Requests, Admit(r),
           NEW q \in Partitions, q # Here(r)
    PROVE  /\ \A x \in Requests : PartitionOf[x] = q => Undisturbed(x)
           /\ windows'[q] = windows[q] /\ opened'[q] = opened[q]
<1>1. Here(r) \in Partitions /\ TypeOK
  BY RequestsAssumption DEF IInv, Here
<1>2. /\ \A x \in Requests : x # r => stage'[x] = stage[x] /\ wake'[x] = wake[x]
      /\ UNCHANGED <<now, arrival>>
      /\ windows'[q] = windows[q] /\ opened'[q] = opened[q]
  BY <1>1, Outcomes DEF Verdict, Left, Slept, TypeOK
<1>3. ASSUME NEW x \in Requests, PartitionOf[x] = q PROVE Undisturbed(x)
  <2>1. x # r
    BY <1>3 DEF Here
  <2>2. /\ stage'[x] = stage[x] /\ wake'[x] = wake[x]
        /\ now'[x] = now[x] /\ arrival'[x] = arrival[x]
    BY <2>1, <1>2
  <2> QED  BY <2>2 DEF Undisturbed, Inside
<1> QED  BY <1>1, <1>2, <1>3

\* How the sets of a partition change with the stage of one request.
LEMMA SetsDecided ==
    ASSUME IInv, NEW r \in Requests, NEW v, Verdict(r, v)
    PROVE  LET p == Here(r) IN
           /\ v = "admitted" => Waiting(p)' = Waiting(p) \ {r}
           /\ v = "refused" /\ arrival[r] = "New" => Waiting(p)' = Waiting(p)
           /\ v = "asleep" => Waiting(p)' = Waiting(p) \cup {r}
           /\ v # "dropped" => Gone(p)' = Gone(p)
           /\ v # "admitted" => \A t : /\ Admitted(p, t, t + Window)' = Admitted(p, t, t + Window)
                                      /\ Newcomers(p, t)' = Newcomers(p, t)
           /\ \A t : t <= now[r] /\ now[r] < t + Window /\ v = "admitted" =>
                  /\ Admitted(p, t, t + Window)' = Admitted(p, t, t + Window) \cup {r}
                  /\ Newcomers(p, t)' = IF arrival[r] = "New"
                                        THEN Newcomers(p, t) \cup {r}
                                        ELSE Newcomers(p, t)
           /\ \A t : ~ (t <= now[r] /\ now[r] < t + Window) =>
                  Admitted(p, t, t + Window)' = Admitted(p, t, t + Window)
           /\ r \in Waiting(p) <=> arrival[r] = "Queued"
           /\ r \notin Gone(p) /\ \A t : r \notin Admitted(p, t, t + Window)
<1> DEFINE p == Here(r)
<1>1. TypeOK /\ PartitionOf[r] = p /\ arrival[r] \in {"New", "Queued"}
  BY DEF IInv, TypeOK, Here
<1>2. /\ stage[r] = "deciding" /\ stage'[r] = v
      /\ \A x \in Requests : x # r => stage'[x] = stage[x]
      /\ now' = now /\ arrival' = arrival
  BY <1>1 DEF Verdict, TypeOK
<1>3. r \in Waiting(p) <=> arrival[r] = "Queued"
  BY <1>1, <1>2 DEF Waiting, Inside
<1>4. r \notin Gone(p) /\ \A t : r \notin Admitted(p, t, t + Window)
  BY <1>2 DEF Gone, Admitted
<1>5. v = "admitted" => Waiting(p)' = Waiting(p) \ {r}
  BY <1>1, <1>2 DEF Waiting, Inside
<1>6. v = "refused" /\ arrival[r] = "New" => Waiting(p)' = Waiting(p)
  BY <1>1, <1>2 DEF Waiting, Inside
<1>7. v = "asleep" => Waiting(p)' = Waiting(p) \cup {r}
  BY <1>1, <1>2 DEF Waiting, Inside
<1>8. v # "dropped" => Gone(p)' = Gone(p)
  BY <1>1, <1>2 DEF Gone
<1>9. ASSUME v # "admitted", NEW t
      PROVE  /\ Admitted(p, t, t + Window)' = Admitted(p, t, t + Window)
             /\ Newcomers(p, t)' = Newcomers(p, t)
  BY <1>1, <1>2, <1>9 DEF Admitted, Newcomers
<1>10. ASSUME NEW t, t <= now[r] /\ now[r] < t + Window, v = "admitted"
       PROVE  /\ Admitted(p, t, t + Window)' = Admitted(p, t, t + Window) \cup {r}
              /\ Newcomers(p, t)' = IF arrival[r] = "New"
                                    THEN Newcomers(p, t) \cup {r}
                                    ELSE Newcomers(p, t)
  <2>1. Admitted(p, t, t + Window)' = Admitted(p, t, t + Window) \cup {r}
    BY <1>1, <1>2, <1>10 DEF Admitted
  <2> QED  BY <2>1, <1>2 DEF Newcomers
<1>11. ASSUME NEW t, ~ (t <= now[r] /\ now[r] < t + Window)
       PROVE  Admitted(p, t, t + Window)' = Admitted(p, t, t + Window)
  BY <1>1, <1>2, <1>11 DEF Admitted
<1> QED  BY <1>3, <1>4, <1>5, <1>6, <1>7, <1>8, <1>9, <1>10, <1>11

\* The entry of the partition is right after the decision.
LEMMA EntryDecided ==
    ASSUME IInv, NEW r \in Requests, Admit(r)
    PROVE  EntryRight(Here(r))'
<1> DEFINE p == Here(r)
           w == Current(r)
<1>0. PICK s : s = Current(r).started
  OBVIOUS
<1>1. /\ stage[r] = "deciding" /\ p \in Partitions
      /\ time \in Nat /\ now[r] = time /\ time' = time
      /\ PermitLimit \in Nat /\ Window \in Nat \ {0}
      /\ arrival[r] \in {"New", "Queued"}
      /\ windows \in [Partitions -> EntryType]
      /\ opened \in [Partitions -> SUBSET (0..MaxTime)]
      /\ wake \in [Requests -> Nat]
  BY Outcomes, RequestsAssumption, OptionsAssumption, BoundAssumption
     DEF Verdict, IInv, TypeOK, Clocked, Inside, Here, EntryType
<1>2. /\ w \in EntryType /\ w.tracked /\ Right(p, w)
      /\ time < s + Window
      /\ arrival[r] = "Queued" => wake[r] <= s
  BY <1>0, <1>1, CurrentIsRight
<1>3. /\ s \in Nat /\ w.used \in Nat /\ w.queued \in Nat /\ s <= time
  BY <1>0, <1>2 DEF EntryType, Right
<1>4. /\ IsFiniteSet(Waiting(p)) /\ Cardinality(Waiting(p)) \in Nat
      /\ Cardinality(Gone(p)) \in Nat
      /\ IsFiniteSet(Admitted(p, s, s + Window))
      /\ Cardinality(Admitted(p, s, s + Window)) \in Nat
      /\ IsFiniteSet(Olders(p, s)) /\ Cardinality(Olders(p, s)) \in Nat
  BY SetsAreFinite
<1>5. /\ r \in Waiting(p) <=> arrival[r] = "Queued"
      /\ r \notin Gone(p) /\ r \notin Admitted(p, s, s + Window)
  BY Outcomes, SetsDecided, <1>0 DEF Slept
<1>6. /\ w.queued = Cardinality(Waiting(p)) + Cardinality(Gone(p))
      /\ w.used = Cardinality(Admitted(p, s, s + Window))
      /\ Newcomers(p, s) # {} =>
            w.used + Cardinality(Olders(p, s)) <= PermitLimit
      /\ \A t \in opened[p] : t = s \/ t + Window <= s
  BY <1>0, <1>2 DEF Right
<1>7. opened'[p] = opened[p] \cup {s}
  BY <1>0, <1>1, Outcomes DEF Verdict
<1>8. ASSUME NEW used, NEW queued, Left(r, used, queued),
             queued = Cardinality(Waiting(p)') + Cardinality(Gone(p)'),
             used = Cardinality(Admitted(p, s, s + Window)'),
             Newcomers(p, s)' # {} =>
                used + Cardinality(Olders(p, s)') <= PermitLimit
      PROVE  EntryRight(p)'
  <2>1. windows'[p] = Entry(s, used, queued)
    BY <1>0, <1>8, <1>1 DEF Left
  <2> DEFINE e == windows'[p]
  <2>2. e.started = s /\ e.used = used /\ e.queued = queued /\ e.tracked
    BY <2>1 DEF Entry
  <2>3. e.started \in opened'[p] /\ e.started <= time'
    BY <2>2, <1>7, <1>3, <1>1
  <2>4. \A t \in opened'[p] : t = e.started \/ t + Window <= e.started
    BY <2>2, <1>7, <1>6
  <2> QED  BY <2>2, <2>3, <2>4, <1>8 DEF EntryRight, Right
<1>9. CASE /\ Verdict(r, "admitted")
           /\ w.used + Ahead(r) < PermitLimit
           /\ Left(r, w.used + 1, LeaveQueue(r))
           /\ UNCHANGED wake
  <2>1. /\ Waiting(p)' = Waiting(p) \ {r} /\ Gone(p)' = Gone(p)
        /\ Admitted(p, s, s + Window)' = Admitted(p, s, s + Window) \cup {r}
        /\ Newcomers(p, s)' = IF arrival[r] = "New"
                              THEN Newcomers(p, s) \cup {r} ELSE Newcomers(p, s)
    <3>1. s <= now[r] /\ now[r] < s + Window
      BY <1>1, <1>2, <1>3
    <3>2. Waiting(p)' = Waiting(p) \ {r} /\ Gone(p)' = Gone(p)
      BY <1>9, SetsDecided
    <3>3. \A t : t <= now[r] /\ now[r] < t + Window =>
             /\ Admitted(p, t, t + Window)' = Admitted(p, t, t + Window) \cup {r}
             /\ Newcomers(p, t)' = IF arrival[r] = "New"
                                   THEN Newcomers(p, t) \cup {r}
                                   ELSE Newcomers(p, t)
      BY <1>9, SetsDecided
    <3> QED  BY <3>1, <3>2, <3>3
  <2>2. Cardinality(Admitted(p, s, s + Window)') = w.used + 1
    BY <2>1, <1>4, <1>5, <1>6, FS_AddElement
  <2>3. Olders(p, s)' = Olders(p, s) \ {r}
    BY <2>1, <1>9 DEF Olders
  <2>4. CASE arrival[r] = "New"
    <3>1. Waiting(p)' = Waiting(p) /\ Olders(p, s)' = Olders(p, s)
      BY <2>1, <2>3, <2>4, <1>5 DEF Olders
    <3>2. LeaveQueue(r) = w.queued /\ Ahead(r) = w.queued
      BY <2>4 DEF LeaveQueue, Ahead
    <3>3. Cardinality(Olders(p, s)) <= Cardinality(Waiting(p))
      BY <1>4, FS_Subset DEF Olders
    <3>4. w.used + 1 + Cardinality(Olders(p, s)) <= PermitLimit
      BY <3>2, <3>3, <1>9, <1>6, <1>4, <1>3, <1>1
    <3>5. LeaveQueue(r) = Cardinality(Waiting(p)') + Cardinality(Gone(p)')
      BY <3>1, <3>2, <2>1, <1>6
    <3> QED  BY <1>8, <1>9, <2>2, <3>1, <3>4, <3>5
  <2>5. CASE arrival[r] = "Queued"
    <3>1. r \in Waiting(p) /\ r \in Olders(p, s)
      BY <2>5, <1>5, <1>2 DEF Olders
    <3>2. /\ Cardinality(Waiting(p)') = Cardinality(Waiting(p)) - 1
          /\ Cardinality(Olders(p, s)') = Cardinality(Olders(p, s)) - 1
      BY <3>1, <2>1, <2>3, <1>4, FS_RemoveElement
    <3>3. Cardinality(Waiting(p)) > 0
      BY <3>1, <1>4, FS_EmptySet
    <3>4. LeaveQueue(r) = Cardinality(Waiting(p)') + Cardinality(Gone(p)')
      BY <3>2, <3>3, <2>1, <2>5, <1>4, <1>6 DEF LeaveQueue
    <3>5. Newcomers(p, s)' # {} =>
             w.used + 1 + Cardinality(Olders(p, s)') <= PermitLimit
      BY <3>2, <2>1, <2>5, <1>6, <1>4, <1>3, <1>1
    <3> QED  BY <1>8, <1>9, <2>2, <3>4, <3>5
  <2> QED  BY <2>4, <2>5, <1>1
<1>10. CASE /\ Verdict(r, "asleep") /\ arrival[r] = "Queued"
            /\ ~ (w.used + Ahead(r) < PermitLimit)
            /\ Left(r, w.used, w.queued)
            /\ Slept(r)
  <2>1. /\ Waiting(p)' = Waiting(p) \cup {r} /\ Gone(p)' = Gone(p)
        /\ Admitted(p, s, s + Window)' = Admitted(p, s, s + Window)
        /\ Newcomers(p, s)' = Newcomers(p, s)
    BY <1>0, <1>10, SetsDecided DEF Slept
  <2>2. Waiting(p)' = Waiting(p)
    BY <2>1, <1>10, <1>5
  <2>3. r \in Olders(p, s)
    BY <1>10, <1>5, <1>2 DEF Olders
  <2>4. Cardinality(Olders(p, s)) > 0
    BY <2>3, <1>4, FS_EmptySet
  <2>5. Newcomers(p, s) = {}
    BY <2>4, <1>10, <1>6, <1>4, <1>3, <1>1 DEF Ahead
  <2> QED  BY <1>8, <1>10, <2>1, <2>2, <2>5, <1>6
<1>11. CASE /\ Verdict(r, "asleep") /\ PlaceFree(r)
            /\ Left(r, w.used, w.queued + 1)
            /\ Slept(r)
  <2>1. /\ Waiting(p)' = Waiting(p) \cup {r} /\ Gone(p)' = Gone(p)
        /\ Admitted(p, s, s + Window)' = Admitted(p, s, s + Window)
        /\ Newcomers(p, s)' = Newcomers(p, s)
    BY <1>0, <1>11, SetsDecided DEF Slept
  <2>2. r \notin Waiting(p)
    BY <1>11, <1>5 DEF PlaceFree
  <2>3. Cardinality(Waiting(p)') = Cardinality(Waiting(p)) + 1
    BY <2>1, <2>2, <1>4, FS_AddElement
  <2>4. /\ wake'[r] = s + Window
        /\ \A x \in Requests : x # r => wake'[x] = wake[x]
    BY <1>0, <1>11, <1>1 DEF Slept
  <2>5. Olders(p, s)' = Olders(p, s)
    <3>1. ~ (wake'[r] <= s)
      BY <2>4, <1>1, <1>3
    <3>2. \A x \in Waiting(p) : x \in Requests /\ x # r
      BY <2>2 DEF Waiting
    <3> QED  BY <2>1, <2>4, <3>1, <3>2 DEF Olders
  <2>6. w.queued + 1 = Cardinality(Waiting(p)') + Cardinality(Gone(p)')
    BY <2>1, <2>3, <1>4, <1>6
  <2> QED  BY <1>8, <1>11, <2>1, <2>5, <2>6, <1>6
<1>12. CASE /\ Verdict(r, "refused") /\ arrival[r] = "New"
            /\ Left(r, w.used, w.queued)
            /\ UNCHANGED wake
  <2>1. /\ Waiting(p)' = Waiting(p) /\ Gone(p)' = Gone(p)
        /\ Admitted(p, s, s + Window)' = Admitted(p, s, s + Window)
        /\ Newcomers(p, s)' = Newcomers(p, s)
    BY <1>12, SetsDecided
  <2>2. Olders(p, s)' = Olders(p, s)
    BY <2>1, <1>12 DEF Olders
  <2> QED  BY <1>8, <1>12, <2>1, <2>2, <1>6
<1> QED  BY Outcomes, <1>9, <1>10, <1>11, <1>12

-----------------------------------------------------------------------------
(* RateLimiter: the invariant is inductive *)

Types == TypeOK /\ Window \in Nat \ {0} /\ PermitLimit \in Nat
                /\ QueueLimit \in Nat /\ MaxTime \in Nat

\* Types are kept by every step.
LEMMA TypeStep == IInv /\ [Next]_vars => TypeOK'
<1> SUFFICES ASSUME IInv, [Next]_vars PROVE TypeOK'
  OBVIOUS
<1>1. Types
  BY OptionsAssumption, BoundAssumption DEF IInv, Types
<1>2. CASE UNCHANGED vars
  BY <1>1, <1>2 DEF Types, TypeOK, vars, callVars
<1>3. ASSUME NEW r \in Requests, Call(r) PROVE TypeOK'
  BY <1>1, <1>3 DEF Types, TypeOK, Call
<1>4. ASSUME NEW r \in Requests, ClaimSweep(r) PROVE TypeOK'
  BY <1>1, <1>4 DEF Types, TypeOK, ClaimSweep
<1>5. ASSUME NEW r \in Requests, Sweep(r) PROVE TypeOK'
  <2>1. Absent \in EntryType
    BY <1>1 DEF Types, Absent, EntryType
  <2>2. windows' \in [Partitions -> EntryType]
    BY <1>1, <1>5, <2>1 DEF Types, TypeOK, Sweep, EntryType
  <2> QED  BY <1>1, <1>5, <2>2 DEF Types, TypeOK, Sweep, EntryType
<1>6. ASSUME NEW r \in Requests, Admit(r) PROVE TypeOK'
  <2> DEFINE w == Current(r)
  <2>1. stage[r] = "deciding" /\ Here(r) \in Partitions
    BY <1>6, RequestsAssumption DEF Admit, Here
  <2>2. w \in EntryType
    BY <2>1, CurrentIsRight
  <2>3. w.started \in 0..MaxTime /\ w.used \in 0..PermitLimit /\ w.queued \in 0..QueueLimit
    BY <2>2 DEF EntryType
  <2>4. LeaveQueue(r) \in 0..QueueLimit /\ Ahead(r) \in Nat
    BY <2>3, <1>1 DEF LeaveQueue, Ahead, Types
  <2>5. ASSUME NEW used \in 0..PermitLimit, NEW queued \in 0..QueueLimit,
               Left(r, used, queued)
        PROVE  windows' \in [Partitions -> EntryType]
    BY <2>5, <2>3, <1>1 DEF Left, Entry, Types, TypeOK, EntryType
  <2>6. windows' \in [Partitions -> EntryType]
    BY <1>6, Outcomes, <2>3, <2>4, <2>5, <1>1 DEF PlaceFree, Types
  <2>7. wake' \in [Requests -> Nat]
    BY <1>6, Outcomes, <2>3, <1>1 DEF Slept, Types, TypeOK
  <2>8. stage' \in [Requests -> {"new", "called", "sweeping", "deciding", "asleep",
                                 "admitted", "refused", "dropped"}]
    BY <1>6, Outcomes, <1>1 DEF Verdict, Types, TypeOK
  <2>9. opened' \in [Partitions -> SUBSET (0..MaxTime)]
    BY <1>6, Outcomes, <2>3, <1>1 DEF Verdict, Types, TypeOK
  <2>10. UNCHANGED <<time, lastSweep, now, arrival>>
    BY <1>6, Outcomes DEF Verdict
  <2> QED  BY <2>6, <2>7, <2>8, <2>9, <2>10, <1>1 DEF Types, TypeOK, EntryType
<1>7. ASSUME NEW r \in Requests, GiveUp(r) PROVE TypeOK'
  BY <1>1, <1>7 DEF Types, TypeOK, GiveUp
<1>8. CASE Tick
  BY <1>1, <1>8 DEF Types, TypeOK, Tick, callVars
<1> QED  BY <1>2, <1>3, <1>4, <1>5, <1>6, <1>7, <1>8 DEF Next

\* So are the readings of those inside admit.
LEMMA ClockedStep == IInv /\ [Next]_vars => Clocked'
<1> SUFFICES ASSUME IInv, [Next]_vars PROVE Clocked'
  OBVIOUS
<1>1. Types /\ Clocked
  BY OptionsAssumption, BoundAssumption DEF IInv, Types
<1>2. CASE UNCHANGED vars
  BY <1>1, <1>2 DEF Clocked, Inside, vars, callVars
<1>3. ASSUME NEW r \in Requests, Call(r) PROVE Clocked'
  BY <1>1, <1>3 DEF Types, TypeOK, Clocked, Inside, Call
<1>4. ASSUME NEW r \in Requests, ClaimSweep(r) PROVE Clocked'
  BY <1>1, <1>4 DEF Types, TypeOK, Clocked, Inside, ClaimSweep
<1>5. ASSUME NEW r \in Requests, Sweep(r) PROVE Clocked'
  BY <1>1, <1>5 DEF Types, TypeOK, Clocked, Inside, Sweep
<1>6. ASSUME NEW r \in Requests, Admit(r) PROVE Clocked'
  BY <1>1, <1>6, Outcomes DEF Types, TypeOK, Clocked, Inside, Verdict
<1>7. ASSUME NEW r \in Requests, GiveUp(r) PROVE Clocked'
  BY <1>1, <1>7 DEF Types, TypeOK, Clocked, Inside, GiveUp
<1>8. CASE Tick
  BY <1>1, <1>8 DEF Types, TypeOK, Clocked, Inside, Tick, callVars
<1> QED  BY <1>2, <1>3, <1>4, <1>5, <1>6, <1>7, <1>8 DEF Next

\* An admission falls into the window it was decided in.
LEMMA CoveredStep == IInv /\ [Next]_vars => Covered'
<1> SUFFICES ASSUME IInv, [Next]_vars PROVE Covered'
  OBVIOUS
<1>1. Types /\ Covered
  BY OptionsAssumption, BoundAssumption DEF IInv, Types
<1>2. CASE UNCHANGED vars
  BY <1>1, <1>2 DEF Covered, vars, callVars
<1>3. ASSUME NEW r \in Requests, Call(r) PROVE Covered'
  BY <1>1, <1>3 DEF Types, TypeOK, Covered, Call
<1>4. ASSUME NEW r \in Requests, ClaimSweep(r) PROVE Covered'
  BY <1>1, <1>4 DEF Types, TypeOK, Covered, ClaimSweep
<1>5. ASSUME NEW r \in Requests, Sweep(r) PROVE Covered'
  BY <1>1, <1>5 DEF Types, TypeOK, Covered, Sweep
<1>6. ASSUME NEW r \in Requests, Admit(r) PROVE Covered'
  <2>1. stage[r] = "deciding" /\ Here(r) \in Partitions
    BY <1>6, RequestsAssumption DEF Admit, Here
  <2>2. /\ Current(r).started <= time /\ time < Current(r).started + Window
        /\ now[r] = time
    BY <2>1, CurrentIsRight DEF Right, IInv, Clocked, Inside
  <2>3. /\ now' = now
        /\ opened' = [opened EXCEPT ![Here(r)] = @ \cup {Current(r).started}]
        /\ \A x \in Requests : x # r => stage'[x] = stage[x]
    BY <1>6, Outcomes, <1>1 DEF Verdict, Types, TypeOK
  <2>4. /\ Current(r).started \in opened'[Here(r)]
        /\ \A p \in Partitions : opened[p] \subseteq opened'[p]
    BY <2>1, <2>3, <1>1 DEF Types, TypeOK
  <2> SUFFICES ASSUME NEW x \in Requests, stage'[x] = "admitted"
               PROVE  \E s \in opened'[Here(x)] : s <= now'[x] /\ now'[x] < s + Window
    BY DEF Covered
  <2>5. CASE x = r
    BY <2>5, <2>2, <2>3, <2>4
  <2>6. CASE x # r
    BY <2>6, <2>3, <2>4, <1>1, RequestsAssumption DEF Covered, Here
  <2> QED  BY <2>5, <2>6
<1>7. ASSUME NEW r \in Requests, GiveUp(r) PROVE Covered'
  BY <1>1, <1>7 DEF Types, TypeOK, Covered, GiveUp
<1>8. CASE Tick
  BY <1>1, <1>8 DEF Types, TypeOK, Covered, Tick, callVars
<1> QED  BY <1>2, <1>3, <1>4, <1>5, <1>6, <1>7, <1>8 DEF Next

\* A request keeps its place, and wakes when the window it slept through ends.
LEMMA SleepersStep == IInv /\ [Next]_vars => Sleepers'
<1> SUFFICES ASSUME IInv, [Next]_vars PROVE Sleepers'
  OBVIOUS
<1>1. Types /\ Sleepers /\ Clocked
  BY OptionsAssumption, BoundAssumption DEF IInv, Types
<1>2. CASE UNCHANGED vars
  BY <1>1, <1>2 DEF Sleepers, Waiting, Inside, vars, callVars
<1>3. ASSUME NEW r \in Requests, Call(r) PROVE Sleepers'
  BY <1>1, <1>3 DEF Types, TypeOK, Sleepers, Clocked, Waiting, Inside, Here, Call
<1>4. ASSUME NEW r \in Requests, ClaimSweep(r) PROVE Sleepers'
  BY <1>1, <1>4 DEF Types, TypeOK, Sleepers, Waiting, Inside, Here, ClaimSweep
<1>5. ASSUME NEW r \in Requests, Sweep(r) PROVE Sleepers'
  BY <1>1, <1>5 DEF Types, TypeOK, Sleepers, Waiting, Inside, Here, Sweep
<1>6. ASSUME NEW r \in Requests, Admit(r) PROVE Sleepers'
  <2>1. Here(r) \in Partitions /\ \A x \in Requests : Here(x) \in Partitions
    BY RequestsAssumption DEF Here
  <2>2. /\ now' = now /\ arrival' = arrival /\ time' = time
        /\ opened' = [opened EXCEPT ![Here(r)] = @ \cup {Current(r).started}]
        /\ \A x \in Requests : x # r => stage'[x] = stage[x] /\ wake'[x] = wake[x]
    BY <1>6, Outcomes, <1>1 DEF Verdict, Slept, Types, TypeOK
  <2>3. /\ Current(r).started \in opened'[Here(r)]
        /\ \A p \in Partitions : opened[p] \subseteq opened'[p]
    BY <2>1, <2>2, <1>1 DEF Types, TypeOK
  <2>4. \/ stage'[r] \in {"admitted", "refused"}
        \/ stage'[r] = "asleep" /\ wake'[r] = Current(r).started + Window
    BY <1>6, Outcomes, <1>1 DEF Verdict, Slept, Types, TypeOK
  <2> SUFFICES ASSUME NEW x \in Requests, (x \in Waiting(Here(x)))'
               PROVE  /\ \E s \in opened'[Here(x)] : wake'[x] = s + Window
                      /\ Inside(x)' => wake'[x] <= time'
    BY DEF Sleepers, Here
  <2>5. CASE x = r
    BY <2>5, <2>3, <2>4 DEF Waiting, Inside
  <2>6. CASE x # r
    <3>1. stage'[x] = stage[x] /\ wake'[x] = wake[x]
      BY <2>2, <2>6
    <3>2. x \in Waiting(Here(x)) /\ (Inside(x)' => Inside(x))
      BY <2>2, <3>1 DEF Waiting, Inside
    <3>3. \E s \in opened[Here(x)] : wake[x] = s + Window
      BY <3>2, <1>1 DEF Sleepers
    <3>4. Inside(x) => wake[x] <= time
      BY <3>2, <1>1 DEF Sleepers
    <3> QED  BY <3>1, <3>2, <3>3, <3>4, <2>1, <2>2, <2>3
  <2> QED  BY <2>5, <2>6
<1>7. ASSUME NEW r \in Requests, GiveUp(r) PROVE Sleepers'
  BY <1>1, <1>7 DEF Types, TypeOK, Sleepers, Waiting, Inside, Here, GiveUp
<1>8. CASE Tick
  BY <1>1, <1>8 DEF Types, TypeOK, Sleepers, Waiting, Inside, Here, Tick, callVars
<1> QED  BY <1>2, <1>3, <1>4, <1>5, <1>6, <1>7, <1>8 DEF Next

\* Every entry stays right, and no window gives out a permit too many.
LEMMA EntriesStep == IInv /\ [Next]_vars => EntriesRight' /\ PermitsPerWindow'
<1> SUFFICES ASSUME IInv, [Next]_vars,
                    NEW q \in Partitions
             PROVE  /\ EntryRight(q)'
                    /\ \A s \in opened'[q] :
                          Cardinality(Admitted(q, s, s + Window)') <= PermitLimit
  BY DEF EntriesRight, PermitsPerWindow
<1>1. Types /\ Clocked
  BY OptionsAssumption, BoundAssumption DEF IInv, Types
<1>2. CASE UNCHANGED vars
  <2>1. \A x \in Requests : Undisturbed(x)
    BY <1>2 DEF Undisturbed, Inside, vars, callVars
  <2> QED  BY <1>1, <1>2, <2>1, EntryUndisturbed DEF vars, Types, TypeOK
<1>3. ASSUME NEW r \in Requests, Call(r) PROVE EntryRight(q)' /\ \A s \in opened'[q] :
                          Cardinality(Admitted(q, s, s + Window)') <= PermitLimit
  <2>1. \A x \in Requests : Undisturbed(x)
    BY <1>1, <1>3 DEF Undisturbed, Inside, Call, Types, TypeOK, Clocked
  <2> QED  BY <1>1, <1>3, <2>1, EntryUndisturbed DEF Call, Types, TypeOK
<1>4. ASSUME NEW r \in Requests, ClaimSweep(r) PROVE EntryRight(q)' /\ \A s \in opened'[q] :
                          Cardinality(Admitted(q, s, s + Window)') <= PermitLimit
  <2>1. \A x \in Requests : Undisturbed(x)
    BY <1>1, <1>4 DEF Undisturbed, Inside, ClaimSweep, Types, TypeOK
  <2> QED  BY <1>1, <1>4, <2>1, EntryUndisturbed DEF ClaimSweep, Types, TypeOK
<1>5. ASSUME NEW r \in Requests, Sweep(r) PROVE EntryRight(q)' /\ \A s \in opened'[q] :
                          Cardinality(Admitted(q, s, s + Window)') <= PermitLimit
  <2>1. \A x \in Requests : Undisturbed(x)
    BY <1>1, <1>5 DEF Undisturbed, Inside, Sweep, Types, TypeOK
  <2>2. time' = time /\ opened' = opened /\ now[r] = time
    BY <1>1, <1>5 DEF Sweep, Clocked, Inside
  <2>3. CASE windows[q].tracked /\ Kept(windows[q], now[r])
    <3>1. windows'[q] = windows[q]
      BY <1>5, <2>3 DEF Sweep
    <3> QED  BY <1>1, <2>1, <2>2, <3>1, EntryUndisturbed DEF Types, TypeOK
  <2>4. CASE ~ (windows[q].tracked /\ Kept(windows[q], now[r]))
    <3>1. windows'[q] = Absent /\ ~ windows'[q].tracked
      BY <1>5, <2>4 DEF Sweep, Absent
    <3>2. /\ Waiting(q) = {} /\ Gone(q) = {}
          /\ \A s \in opened[q] : s + Window <= time
      <4>1. CASE ~ windows[q].tracked
        BY <4>1 DEF IInv, EntriesRight, EntryRight
      <4>2. CASE windows[q].tracked
        <5>1. /\ Right(q, windows[q]) /\ windows[q] \in EntryType
              /\ opened[q] \subseteq Nat /\ time \in Nat
          BY <4>2, <1>1 DEF IInv, EntriesRight, EntryRight, Types, TypeOK, EntryType
        <5>2. windows[q].queued = 0 /\ time - windows[q].started >= Window
          BY <4>2, <2>4, <2>2, <5>1, <1>1 DEF Kept, EntryType, Types
        <5>3. Cardinality(Waiting(q)) = 0 /\ Cardinality(Gone(q)) = 0
          BY <5>1, <5>2, SetsAreFinite DEF Right
        <5>4. Waiting(q) = {} /\ Gone(q) = {}
          BY <5>3, SetsAreFinite, FS_EmptySet
        <5>5. \A s \in opened[q] : s + Window <= time
          BY <5>1, <5>2, <1>1 DEF Right, EntryType, Types
        <5> QED  BY <5>4, <5>5
      <4> QED  BY <4>1, <4>2
    <3>3. /\ Waiting(q)' = Waiting(q) /\ Gone(q)' = Gone(q)
          /\ \A s : Admitted(q, s, s + Window)' = Admitted(q, s, s + Window)
      BY <2>1, SetsUndisturbed
    <3>4. EntryRight(q)'
      BY <3>1, <3>2, <3>3, <2>2 DEF EntryRight, Absent
    <3> QED  BY <3>3, <3>4, <2>2 DEF IInv, PermitsPerWindow
  <2> QED  BY <2>3, <2>4
<1>6. ASSUME NEW r \in Requests, Admit(r) PROVE EntryRight(q)' /\ \A s \in opened'[q] :
                          Cardinality(Admitted(q, s, s + Window)') <= PermitLimit
  <2>1. CASE q # Here(r)
    <3>1. time' = time
      BY <1>6, Outcomes DEF Verdict
    <3> QED  BY <1>1, <1>6, <2>1, <3>1, OthersUndisturbed, EntryUndisturbed DEF Types, TypeOK
  <2>2. CASE q = Here(r)
    <3>1. EntryRight(q)' /\ TypeOK'
      BY <1>6, <2>2, EntryDecided, TypeStep
    <3>2. PICK e : e = windows'[q]
      OBVIOUS
    <3>3. /\ windows'[q].tracked /\ now' = now /\ now[r] = time
          /\ time' = time
          /\ opened'[q] = opened[q] \cup {Current(r).started}
          /\ Current(r).started = windows'[q].started
          /\ windows[q] \in EntryType
      BY <1>1, <1>6, <2>2, Outcomes DEF Left, Entry, Verdict, Types, TypeOK, Clocked,
         Inside, EntryType
    <3>4. /\ e.started \in Nat /\ e.used \in 0..PermitLimit /\ time \in Nat
          /\ e.started <= time
          /\ \A s \in opened'[q] : s \in Nat /\ (s = e.started \/ s + Window <= e.started)
          /\ Cardinality(Admitted(q, e.started, e.started + Window)') = e.used
      BY <3>1, <3>2, <3>3, <1>1 DEF EntryRight, Right, Types, TypeOK
    <3>5. ASSUME NEW s \in opened'[q]
          PROVE  Cardinality(Admitted(q, s, s + Window)') <= PermitLimit
      <4>1. CASE s = e.started
        BY <4>1, <3>4, <1>1 DEF Types
      <4>2. CASE s # e.started
        <5>1. s + Window <= time /\ s \in opened[q]
          BY <4>2, <3>2, <3>3, <3>4, <1>1 DEF Types
        <5>2. ~ (s <= now[r] /\ now[r] < s + Window)
          BY <5>1, <3>3, <3>4, <1>1 DEF Types
        <5>3. Admitted(q, s, s + Window)' = Admitted(q, s, s + Window)
          BY <5>2, <2>2, <1>6, Outcomes, SetsDecided
        <5> QED  BY <5>1, <5>3 DEF IInv, PermitsPerWindow
      <4> QED  BY <4>1, <4>2
    <3> QED  BY <3>1, <3>5
  <2> QED  BY <2>1, <2>2
<1>7. ASSUME NEW r \in Requests, GiveUp(r) PROVE EntryRight(q)' /\ \A s \in opened'[q] :
                          Cardinality(Admitted(q, s, s + Window)') <= PermitLimit
  <2>1. /\ stage[r] = "asleep" /\ stage' = [stage EXCEPT ![r] = "dropped"]
        /\ UNCHANGED <<time, windows, now, arrival, wake, opened>>
    BY <1>7 DEF GiveUp
  <2>2. CASE q # Here(r)
    <3>1. \A x \in Requests : PartitionOf[x] = q => Undisturbed(x)
      BY <1>1, <2>1, <2>2 DEF Undisturbed, Inside, Types, TypeOK, Here
    <3> QED  BY <1>1, <2>1, <3>1, EntryUndisturbed DEF Types, TypeOK
  <2>3. CASE q = Here(r)
    <3>1. /\ Waiting(q)' = Waiting(q) \ {r} /\ r \in Waiting(q)
          /\ Gone(q)' = Gone(q) \cup {r} /\ r \notin Gone(q)
      BY <1>1, <2>1, <2>3 DEF Waiting, Gone, Inside, Types, TypeOK, Here
    <3>2. \A s : /\ Admitted(q, s, s + Window)' = Admitted(q, s, s + Window)
                 /\ Newcomers(q, s)' = Newcomers(q, s)
      BY <1>1, <2>1 DEF Admitted, Newcomers, Types, TypeOK
    <3>3. \A s : Olders(q, s)' = Olders(q, s) \ {r}
      BY <2>1, <3>1 DEF Olders
    <3>4. windows[q].tracked
      BY <3>1 DEF IInv, EntriesRight, EntryRight
    <3>5. PICK e : e = windows[q]
      OBVIOUS
    <3>6. /\ e.started \in opened[q] /\ Right(q, e)
          /\ e.used \in Nat /\ e.queued \in Nat
      BY <3>4, <3>5, <1>1 DEF IInv, EntriesRight, EntryRight, Types, TypeOK
    <3>7. /\ Cardinality(Waiting(q)') = Cardinality(Waiting(q)) - 1
          /\ Cardinality(Gone(q)') = Cardinality(Gone(q)) + 1
          /\ Cardinality(Waiting(q)) \in Nat /\ Cardinality(Gone(q)) \in Nat
      <4>1. /\ IsFiniteSet(Waiting(q)) /\ Cardinality(Waiting(q)) \in Nat
            /\ IsFiniteSet(Gone(q)) /\ Cardinality(Gone(q)) \in Nat
        BY SetsAreFinite
      <4>2. Cardinality(Waiting(q) \ {r}) = Cardinality(Waiting(q)) - 1
        BY <3>1, <4>1, FS_RemoveElement
      <4>3. Cardinality(Gone(q) \cup {r}) = Cardinality(Gone(q)) + 1
        BY <3>1, <4>1, FS_AddElement
      <4> QED  BY <3>1, <4>1, <4>2, <4>3
    <3>8. /\ Cardinality(Olders(q, e.started)') <= Cardinality(Olders(q, e.started))
          /\ Cardinality(Olders(q, e.started)') \in Nat
          /\ Cardinality(Olders(q, e.started)) \in Nat
      <4>1. Olders(q, e.started)' \subseteq Olders(q, e.started)
        BY <3>3
      <4>2. IsFiniteSet(Olders(q, e.started)) /\ Cardinality(Olders(q, e.started)) \in Nat
        BY SetsAreFinite
      <4> QED  BY <4>1, <4>2, FS_Subset, FS_CardinalityType
    <3>9. Right(q, e)'
      BY <3>2, <3>6, <3>7, <3>8, <2>1, <1>1 DEF Right, Types
    <3>10. EntryRight(q)'
      BY <3>4, <3>5, <3>6, <3>9, <2>1 DEF EntryRight, Right
    <3> QED  BY <3>2, <3>10, <2>1 DEF IInv, PermitsPerWindow
  <2> QED  BY <2>2, <2>3
<1>8. CASE Tick
  <2>1. \A x \in Requests : Undisturbed(x)
    BY <1>8 DEF Undisturbed, Inside, Tick, callVars
  <2> QED  BY <1>1, <1>8, <2>1, EntryUndisturbed DEF Tick, Types, TypeOK
<1> QED  BY <1>2, <1>3, <1>4, <1>5, <1>6, <1>7, <1>8 DEF Next

\* The invariant is inductive.
LEMMA Inductive == Spec => []IInv
<1>1. Init => IInv
  <2> SUFFICES ASSUME Init PROVE IInv
    OBVIOUS
  <2>1. TypeOK
    BY OptionsAssumption, BoundAssumption DEF Init, TypeOK, Absent
  <2>2. \A p \in Partitions : Waiting(p) = {} /\ Gone(p) = {} /\ opened[p] = {}
    BY DEF Init, Waiting, Gone, Inside
  <2>3. EntriesRight
    BY <2>2 DEF Init, EntriesRight, EntryRight, Absent
  <2>4. PermitsPerWindow
    BY <2>2 DEF PermitsPerWindow
  <2>5. Clocked /\ Covered
    BY BoundAssumption DEF Init, Clocked, Covered, Inside
  <2>6. Sleepers
    BY DEF Init, Sleepers, Waiting, Inside, Here
  <2> QED  BY <2>1, <2>3, <2>4, <2>5, <2>6 DEF IInv
<1>2. IInv /\ [Next]_vars => IInv'
  BY TypeStep, ClockedStep, CoveredStep, SleepersStep, EntriesStep DEF IInv
<1> QED  BY <1>1, <1>2, PTL DEF Spec

-----------------------------------------------------------------------------
(* RateLimiter: theorems *)

\* RateLimiter's variables keep their types: `used` never passes the permits
\* and `queued` never passes the queue.
THEOREM TypeCorrect == Spec => []TypeOK
BY Inductive, PTL DEF IInv

\* PermitLimit requests per window, whatever the sweeps and the interleaving.
THEOREM KeepsToPermits == Spec => []PermitsPerWindow
BY Inductive, PTL DEF IInv

\* `queued` counts exactly those who hold a place and those who left with it.
THEOREM CountsPlaces == Spec => []PlacesCounted
<1>1. IInv => PlacesCounted
  <2> SUFFICES ASSUME IInv, NEW p \in Partitions
               PROVE  windows[p].queued = Cardinality(Waiting(p)) + Cardinality(Gone(p))
    BY DEF PlacesCounted
  <2>1. CASE windows[p].tracked
    BY <2>1 DEF IInv, EntriesRight, EntryRight, Right
  <2>2. CASE ~ windows[p].tracked
    <3>1. windows[p].queued = 0 /\ Waiting(p) = {} /\ Gone(p) = {}
      BY <2>2 DEF IInv, EntriesRight, EntryRight, Absent
    <3>2. Cardinality({}) = 0
      BY FS_EmptySet
    <3> QED  BY <3>1, <3>2
  <2> QED  BY <2>1, <2>2
<1> QED  BY <1>1, Inductive, PTL

\* No arrival takes a permit from a request that has waited for the window.
THEOREM PutsWaitersFirst == Spec => WaitersFirst
<1>1. ASSUME IInv, [Next]_vars, NEW r \in Requests PROVE SentBackByWaiters(r)
  <2> SUFFICES ASSUME stage[r] = "deciding", arrival[r] = "Queued", stage'[r] = "asleep",
                      NEW other \in Admitted(PartitionOf[r], windows'[PartitionOf[r]].started,
                               windows'[PartitionOf[r]].started + Window)
               PROVE  arrival[other] = "Queued"
    BY DEF SentBackByWaiters
  <2> DEFINE p == Here(r)
             w == Current(r)
  <2>1. Types /\ p \in Partitions /\ p = PartitionOf[r]
    BY <1>1, OptionsAssumption, BoundAssumption, RequestsAssumption DEF IInv, Types, Here
  <2>2. Admit(r)
    BY <1>1, <2>1 DEF Next, Call, ClaimSweep, Sweep, GiveUp, Tick, Admit, vars, callVars,
       Types, TypeOK, Verdict
  <2>3. /\ Verdict(r, "asleep")
        /\ ~ (w.used + Ahead(r) < PermitLimit)
        /\ Left(r, w.used, w.queued)
    BY <2>1, <2>2, Outcomes DEF Verdict, PlaceFree, Types, TypeOK
  <2>4. windows'[p].started = w.started
    BY <2>1, <2>3 DEF Left, Entry, Types, TypeOK
  <2>5. /\ w \in EntryType /\ Right(p, w) /\ wake[r] <= w.started
    BY <1>1, CurrentIsRight
  <2>6. r \in Olders(p, w.started)
    BY <2>1, <2>5 DEF Olders, Waiting, Inside
  <2>7. /\ Cardinality(Olders(p, w.started)) \in Nat
        /\ Cardinality(Olders(p, w.started)) # 0
    BY <2>6, SetsAreFinite, FS_EmptySet
  <2>8. Newcomers(p, w.started) = {}
    BY <2>1, <2>3, <2>5, <2>7 DEF Right, Ahead, EntryType, Types
  <2>9. other \in Requests /\ arrival[other] \in {"New", "Queued"}
    BY <2>1 DEF Admitted, Types, TypeOK
  <2> QED  BY <2>1, <2>4, <2>8, <2>9 DEF Newcomers
<1>2. IInv /\ [Next]_vars => [\A r \in Requests : SentBackByWaiters(r)]_stage
  BY <1>1
<1> QED  BY <1>2, Inductive, PTL DEF Spec, WaitersFirst

-----------------------------------------------------------------------------
(* Pipeline: layers in order *)

\* The layers' order from the outside in.
Rank ==
    [hsts |-> 1, request_id |-> 2, catch_panic |-> 3, status_code_pages |-> 4,
     json_charset |-> 5, security_headers |-> 6, cors |-> 7, authenticate |-> 8,
     routing |-> 9, constraints |-> 10, rate_limit |-> 11, authorize |-> 12,
     metrics |-> 13, validator |-> 14, handler |-> 15]

\* Every layer there is.
Layers == DOMAIN Rank

\* Layers outermost first, none twice.
InOrder(s) == s \in Seq(Layers) /\ \A i, j \in DOMAIN s : i < j => Rank[s[i]] < Rank[s[j]]

\* A layer's place is a number,
LEMMA Ranks == \A x \in Layers : Rank[x] \in 1..15
BY DEF Layers, Rank

\* and no two layers have one place.
LEMMA SameRank == \A x, y \in Layers : Rank[x] = Rank[y] => x = y
BY DEF Layers, Rank

\* The outer of two layers is not within the other.
LEMMA Apart ==
    ASSUME NEW x \in Layers, NEW y \in Layers, Rank[x] < Rank[y]
    PROVE  ~ Rank[y] < Rank[x]
BY Ranks

\* One layer is in order, ...
LEMMA InOrderOne ==
    ASSUME NEW x \in Layers
    PROVE  InOrder(<<x>>) /\ Range(<<x>>) = {x}
BY DEF InOrder, Range

\* ... and so is none.
LEMMA InOrderNone == InOrder(<<>>) /\ Range(<<>>) = {}
BY DEF InOrder, Range

\* Layers laid around layers.
LEMMA Joined ==
    ASSUME NEW s, NEW t, InOrder(s), InOrder(t),
           \A x \in Range(s), y \in Range(t) : Rank[x] < Rank[y]
    PROVE  InOrder(s \o t) /\ Range(s \o t) = Range(s) \cup Range(t)
<1> s \in Seq(Layers) /\ t \in Seq(Layers)
  BY DEF InOrder
<1>1. s \o t \in Seq(Layers) /\ Len(s \o t) = Len(s) + Len(t)
  OBVIOUS
<1>2. \A i \in DOMAIN (s \o t) : IF i <= Len(s) THEN i \in DOMAIN s /\ (s \o t)[i] = s[i]
                                 ELSE i - Len(s) \in DOMAIN t /\ (s \o t)[i] = t[i - Len(s)]
  OBVIOUS
<1>3. \A i \in DOMAIN s : i \in DOMAIN (s \o t) /\ (s \o t)[i] = s[i]
  OBVIOUS
<1>4. \A i \in DOMAIN t : i + Len(s) \in DOMAIN (s \o t) /\ (s \o t)[i + Len(s)] = t[i]
  OBVIOUS
<1>5. Range(s \o t) = Range(s) \cup Range(t)
  <2>1. \A i \in DOMAIN (s \o t) : (s \o t)[i] \in Range(s) \cup Range(t)
    BY <1>2 DEF Range
  <2>2. \A i \in DOMAIN s : s[i] \in Range(s \o t)
    BY <1>3, Zenon DEF Range
  <2>3. \A i \in DOMAIN t : t[i] \in Range(s \o t)
    BY <1>4 DEF Range
  <2> HIDE DEF Range
  <2> QED BY <2>1, <2>2, <2>3 DEF Range
<1>6. ASSUME NEW i \in DOMAIN (s \o t), NEW j \in DOMAIN (s \o t), i < j
      PROVE  Rank[(s \o t)[i]] < Rank[(s \o t)[j]]
  <2> i \in Nat /\ j \in Nat /\ Len(s) \in Nat
    BY <1>1
  <2>1. CASE j <= Len(s)
    <3>1. i \in DOMAIN s /\ j \in DOMAIN s /\ (s \o t)[i] = s[i] /\ (s \o t)[j] = s[j]
      BY <1>2, <1>6, <2>1
    <3> QED BY <3>1, <1>6 DEF InOrder
  <2>2. CASE i > Len(s)
    <3>1. /\ i - Len(s) \in DOMAIN t /\ j - Len(s) \in DOMAIN t
          /\ (s \o t)[i] = t[i - Len(s)] /\ (s \o t)[j] = t[j - Len(s)]
      BY <1>2, <1>6, <2>2
    <3>2. i - Len(s) < j - Len(s)
      BY <1>6
    <3> QED BY <3>1, <3>2 DEF InOrder
  <2>3. CASE i <= Len(s) /\ j > Len(s)
    <3>1. (s \o t)[i] \in Range(s) /\ (s \o t)[j] \in Range(t)
      BY <1>2, <2>3 DEF Range
    <3> QED BY <3>1
  <2> QED BY <2>1, <2>2, <2>3
<1> QED BY <1>1, <1>5, <1>6 DEF InOrder

\* The first layer, and those ahead of it.
LEMMA Taken ==
    ASSUME NEW s, InOrder(s), s # <<>>
    PROVE  /\ Head(s) \in Range(s)
           /\ InOrder(Tail(s))
           /\ Range(Tail(s)) = Range(s) \ {Head(s)}
           /\ \A x \in Range(Tail(s)) : Rank[Head(s)] < Rank[x]
<1> s \in Seq(Layers)
  BY DEF InOrder
<1>1. /\ 1 \in DOMAIN s /\ Head(s) = s[1]
      /\ Tail(s) \in Seq(Layers) /\ DOMAIN s = 1..Len(s) /\ Len(s) \in Nat
      /\ DOMAIN Tail(s) = 1..(Len(s) - 1)
      /\ \A i \in DOMAIN Tail(s) : i + 1 \in DOMAIN s /\ Tail(s)[i] = s[i + 1]
  OBVIOUS
<1>2. \A i \in DOMAIN s \ {1} : i - 1 \in DOMAIN Tail(s) /\ Tail(s)[i - 1] = s[i] /\ 1 < i
  BY <1>1
<1>3. \A i \in DOMAIN s \ {1} : Rank[s[1]] < Rank[s[i]]
  BY <1>1, <1>2 DEF InOrder
<1>4. \A i \in DOMAIN s : s[i] \in Layers
  OBVIOUS
<1>5. \A i \in DOMAIN s \ {1} : s[i] # s[1]
  BY <1>1, <1>3, <1>4, Ranks
<1>6. Range(Tail(s)) = Range(s) \ {Head(s)}
  <2>1. \A i \in DOMAIN Tail(s) : Tail(s)[i] \in Range(s) \ {Head(s)}
    <3> SUFFICES ASSUME NEW i \in DOMAIN Tail(s) PROVE Tail(s)[i] \in Range(s) \ {Head(s)}
      OBVIOUS
    <3>1. i + 1 \in DOMAIN s \ {1} /\ Tail(s)[i] = s[i + 1]
      BY <1>1
    <3> QED BY <3>1, <1>1, <1>5 DEF Range
  <2>2. \A i \in DOMAIN s \ {1} : s[i] \in Range(Tail(s))
    BY <1>2, Zenon DEF Range
  <2>3. \A x \in Range(s) \ {Head(s)} : \E i \in DOMAIN s \ {1} : x = s[i]
    BY <1>1 DEF Range
  <2>4. \A x \in Range(Tail(s)) : \E i \in DOMAIN Tail(s) : x = Tail(s)[i]
    BY DEF Range
  <2> QED BY <2>1, <2>2, <2>3, <2>4
<1>7. \A x \in Range(Tail(s)) : Rank[Head(s)] < Rank[x]
  <2> SUFFICES ASSUME NEW i \in DOMAIN Tail(s) PROVE Rank[Head(s)] < Rank[Tail(s)[i]]
    BY DEF Range
  <2>1. i + 1 \in DOMAIN s \ {1}
    BY <1>1
  <2> QED BY <2>1, <1>1, <1>3
<1>8. \A i, j \in DOMAIN Tail(s) : i < j => Rank[Tail(s)[i]] < Rank[Tail(s)[j]]
  <2> SUFFICES ASSUME NEW i \in DOMAIN Tail(s), NEW j \in DOMAIN Tail(s), i < j
               PROVE  Rank[Tail(s)[i]] < Rank[Tail(s)[j]]
    OBVIOUS
  <2>1. i + 1 \in DOMAIN s /\ j + 1 \in DOMAIN s /\ i + 1 < j + 1
    BY <1>1
  <2> QED BY <2>1, <1>1 DEF InOrder
<1> QED BY <1>1, <1>6, <1>7, <1>8 DEF InOrder, Range

\* One more layer around the request.
LEMMA Added ==
    ASSUME NEW s, InOrder(s), NEW x \in Layers, \A y \in Range(s) : Rank[y] < Rank[x]
    PROVE  InOrder(Append(s, x)) /\ Range(Append(s, x)) = Range(s) \cup {x}
<1> s \in Seq(Layers)
  BY DEF InOrder
<1>1. /\ Append(s, x) \in Seq(Layers)
      /\ DOMAIN s = 1..Len(s) /\ Len(s) \in Nat /\ DOMAIN Append(s, x) = 1..(Len(s) + 1)
      /\ Append(s, x)[Len(s) + 1] = x
      /\ \A i \in DOMAIN s : i \in DOMAIN Append(s, x) /\ Append(s, x)[i] = s[i]
  OBVIOUS
<1>2. \A i \in DOMAIN Append(s, x) : i \in DOMAIN s \/ i = Len(s) + 1
  BY <1>1
<1>3. Range(Append(s, x)) = Range(s) \cup {x}
  BY <1>1, <1>2 DEF Range
<1>4. ASSUME NEW i \in DOMAIN Append(s, x), NEW j \in DOMAIN Append(s, x), i < j
      PROVE  Rank[Append(s, x)[i]] < Rank[Append(s, x)[j]]
  <2>1. i \in DOMAIN s
    BY <1>1, <1>4
  <2>2. CASE j \in DOMAIN s
    BY <2>1, <2>2, <1>1, <1>4 DEF InOrder
  <2>3. CASE j = Len(s) + 1
    BY <2>1, <2>3, <1>1 DEF Range
  <2> QED BY <2>2, <2>3, <1>2
<1> QED BY <1>1, <1>3, <1>4 DEF InOrder

\* The innermost layer, and those it is within.
LEMMA Dropped ==
    ASSUME NEW s, InOrder(s), s # <<>>
    PROVE  /\ Last(s) \in Range(s)
           /\ InOrder(Front(s))
           /\ Range(Front(s)) = Range(s) \ {Last(s)}
           /\ \A x \in Range(Front(s)) : Rank[x] < Rank[Last(s)]
<1> s \in Seq(Layers)
  BY DEF InOrder
<1>1. /\ DOMAIN s = 1..Len(s) /\ Len(s) \in Nat /\ Len(s) >= 1
      /\ Last(s) = s[Len(s)]
  BY DEF Last
<1>2. /\ Front(s) \in Seq(Layers)
      /\ DOMAIN Front(s) = 1..(Len(s) - 1)
      /\ \A i \in DOMAIN Front(s) : i \in DOMAIN s /\ Front(s)[i] = s[i]
  BY <1>1 DEF Front
<1>3. \A i \in DOMAIN s \ {Len(s)} : i \in DOMAIN Front(s) /\ i < Len(s)
  BY <1>1, <1>2
<1>4. \A i \in DOMAIN s \ {Len(s)} : Rank[s[i]] < Rank[s[Len(s)]]
  BY <1>1, <1>3 DEF InOrder
<1>5. \A i \in DOMAIN s : s[i] \in Layers
  OBVIOUS
<1>6. \A i \in DOMAIN s \ {Len(s)} : s[i] # s[Len(s)]
  BY <1>1, <1>4, <1>5, Ranks
<1>7. Len(s) \in DOMAIN s /\ Len(s) \notin DOMAIN Front(s)
  BY <1>1, <1>2
<1>8. Range(Front(s)) = Range(s) \ {Last(s)}
  BY <1>1, <1>2, <1>3, <1>6, <1>7 DEF Range
<1>9. \A x \in Range(Front(s)) : Rank[x] < Rank[Last(s)]
  BY <1>1, <1>2, <1>4, <1>7 DEF Range
<1>10. \A i, j \in DOMAIN Front(s) : i < j => Rank[Front(s)[i]] < Rank[Front(s)[j]]
  BY <1>2 DEF InOrder
<1> QED BY <1>1, <1>2, <1>7, <1>8, <1>9, <1>10 DEF InOrder, Range

-----------------------------------------------------------------------------
(* Pipeline: the layers of a host and of a route *)

\* The layers of a host around its router.
Host(h) == IF h.name = "monolith"
           THEN (IF h.environment = "Development" THEN {} ELSE {"hsts"})
                  \cup {"request_id", "catch_panic", "status_code_pages", "json_charset",
                        "security_headers", "cors", "authenticate"}
           ELSE {"authenticate"}

\* The layers of a route.
Around(e) == (IF Constraints(e.path) # {} THEN {"constraints"} ELSE {})
               \cup (IF RateLimited(e) THEN {"rate_limit"} ELSE {})
               \cup (IF e.authorized THEN {"authorize"} ELSE {})
               \cup (IF RateLimited(e) /\ e.name # "Root" THEN {"metrics"} ELSE {})
               \cup (IF e.validates THEN {"validator"} ELSE {})
               \cup {"handler"}

\* They are layers, and routing is between the two.
LEMMA LayerNames ==
    {"hsts", "request_id", "catch_panic", "status_code_pages", "json_charset", "security_headers",
     "cors", "authenticate", "routing", "constraints", "rate_limit", "authorize", "metrics",
     "validator", "handler"} = Layers
BY DEF Layers, Rank

\* A host's layers and its router are in order.
LEMMA HostLayersAre ==
    ASSUME NEW h
    PROVE  InOrder(HostLayers(h)) /\ Range(HostLayers(h)) = Host(h) \cup {"routing"}
<1>1. InOrder(<<"routing">>) /\ Range(<<"routing">>) = {"routing"}
  BY InOrderOne, LayerNames
<1>2. InOrder(<<"authenticate">>) /\ Range(<<"authenticate">>) = {"authenticate"}
  BY InOrderOne, LayerNames
<1> DEFINE inner == <<"request_id", "catch_panic", "status_code_pages", "json_charset",
                      "security_headers", "cors", "authenticate">>
           outer == IF h.environment = "Development" THEN <<>> ELSE <<"hsts">>
<1>3. InOrder(inner)
  BY LayerNames DEF InOrder, Rank
<1>4. Range(inner) = {inner[1], inner[2], inner[3], inner[4], inner[5], inner[6], inner[7]}
  BY DEF Range
<1>5. /\ InOrder(outer)
      /\ Range(outer) = IF h.environment = "Development" THEN {} ELSE {"hsts"}
  BY InOrderOne, InOrderNone, LayerNames
<1>6. Range(inner) = {"request_id", "catch_panic", "status_code_pages", "json_charset",
                      "security_headers", "cors", "authenticate"}
  BY <1>4
<1>7. \A x \in Range(outer), y \in Range(inner) : Rank[x] < Rank[y]
  BY <1>5, <1>6 DEF Rank
<1>8. /\ InOrder(MonolithLayers(h.environment))
      /\ Range(MonolithLayers(h.environment)) = Range(outer) \cup Range(inner)
  <2>1. MonolithLayers(h.environment) = outer \o inner
    BY DEF MonolithLayers
  <2> HIDE DEF inner, outer
  <2> QED BY <2>1, <1>3, <1>5, <1>7, Joined
<1> DEFINE layers == IF h.name = "monolith" THEN MonolithLayers(h.environment) ELSE <<"authenticate">>
<1>9. InOrder(layers) /\ Range(layers) = Host(h)
  BY <1>2, <1>5, <1>6, <1>8 DEF Host
<1>10. \A x \in Host(h) : Rank[x] < Rank["routing"]
  BY DEF Host, Rank
<1>11. HostLayers(h) = layers \o <<"routing">>
  BY DEF HostLayers
<1> HIDE DEF layers
<1> QED BY <1>1, <1>9, <1>10, <1>11, Joined

\* A route's layers are in order.
LEMMA RouteLayersAre ==
    ASSUME NEW e
    PROVE  InOrder(RouteLayers(e)) /\ Range(RouteLayers(e)) = Around(e)
<1> DEFINE a == IF Constraints(e.path) # {} THEN <<"constraints">> ELSE <<>>
           b == IF RateLimited(e) THEN <<"rate_limit">> ELSE <<>>
           c == IF e.authorized THEN <<"authorize">> ELSE <<>>
           d == IF RateLimited(e) /\ e.name # "Root" THEN <<"metrics">> ELSE <<>>
           f == IF e.validates THEN <<"validator">> ELSE <<>>
           g == <<"handler">>
<1>1. InOrder(a) /\ Range(a) = IF Constraints(e.path) # {} THEN {"constraints"} ELSE {}
  BY InOrderOne, InOrderNone, LayerNames
<1>2. InOrder(b) /\ Range(b) = IF RateLimited(e) THEN {"rate_limit"} ELSE {}
  BY InOrderOne, InOrderNone, LayerNames
<1>3. InOrder(c) /\ Range(c) = IF e.authorized THEN {"authorize"} ELSE {}
  BY InOrderOne, InOrderNone, LayerNames
<1>4. InOrder(d) /\ Range(d) = IF RateLimited(e) /\ e.name # "Root" THEN {"metrics"} ELSE {}
  BY InOrderOne, InOrderNone, LayerNames
<1>5. InOrder(f) /\ Range(f) = IF e.validates THEN {"validator"} ELSE {}
  BY InOrderOne, InOrderNone, LayerNames
<1>6. InOrder(g) /\ Range(g) = {"handler"}
  BY InOrderOne, LayerNames
<1>7. RouteLayers(e) = a \o b \o c \o d \o f \o g
  BY DEF RouteLayers
<1>8. Around(e) = Range(a) \cup Range(b) \cup Range(c) \cup Range(d) \cup Range(f) \cup Range(g)
  BY <1>1, <1>2, <1>3, <1>4, <1>5, <1>6 DEF Around
<1>9. /\ \A x \in Range(a) : x = "constraints"
      /\ \A x \in Range(b) : x = "rate_limit"
      /\ \A x \in Range(c) : x = "authorize"
      /\ \A x \in Range(d) : x = "metrics"
      /\ \A x \in Range(f) : x = "validator"
      /\ \A x \in Range(g) : x = "handler"
  BY <1>1, <1>2, <1>3, <1>4, <1>5, <1>6
<1>10. /\ Rank["constraints"] = 10 /\ Rank["rate_limit"] = 11 /\ Rank["authorize"] = 12
       /\ Rank["metrics"] = 13 /\ Rank["validator"] = 14 /\ Rank["handler"] = 15
  BY DEF Rank
<1> HIDE DEF a, b, c, d, f, g
<1>11. InOrder(a \o b) /\ Range(a \o b) = Range(a) \cup Range(b)
  BY <1>1, <1>2, <1>9, <1>10, Joined
<1>12. InOrder(a \o b \o c) /\ Range(a \o b \o c) = Range(a \o b) \cup Range(c)
  BY <1>3, <1>9, <1>10, <1>11, Joined
<1>13. InOrder(a \o b \o c \o d) /\ Range(a \o b \o c \o d) = Range(a \o b \o c) \cup Range(d)
  BY <1>4, <1>9, <1>10, <1>11, <1>12, Joined
<1>14. /\ InOrder(a \o b \o c \o d \o f)
       /\ Range(a \o b \o c \o d \o f) = Range(a \o b \o c \o d) \cup Range(f)
  BY <1>5, <1>9, <1>10, <1>11, <1>12, <1>13, Joined
<1>15. /\ InOrder(a \o b \o c \o d \o f \o g)
       /\ Range(a \o b \o c \o d \o f \o g) = Range(a \o b \o c \o d \o f) \cup Range(g)
  BY <1>6, <1>9, <1>10, <1>11, <1>12, <1>13, <1>14, Joined
<1> QED BY <1>7, <1>8, <1>11, <1>12, <1>13, <1>14, <1>15

-----------------------------------------------------------------------------
(* Pipeline: endpoints *)

\* An endpoint, by its fields.
Shaped(e) ==
    DOMAIN e = {"tag", "method", "path", "name", "policies", "authorized", "responses", "validates"}

\* Policies are asked of endpoints that want a caller, which logout does.
Guarded(e) ==
    /\ Shaped(e)
    /\ e.authorized \in BOOLEAN
    /\ ~e.authorized => e.policies = <<>>
    /\ e.name = "IdentityLogout" => e.authorized

\* A mapped endpoint that is not the logout is guarded: it names no policy.
LEMMA MappedIs ==
    ASSUME NEW tag, NEW method, NEW path, NEW name
    PROVE  /\ Shaped(Mapped(tag, method, path, name))
           /\ name # "IdentityLogout" => Guarded(Mapped(tag, method, path, name))
BY DEF Shaped, Guarded, Mapped

\* Whatever requires authorization is.
LEMMA RequiredIs ==
    ASSUME NEW e, Shaped(e), NEW policies
    PROVE  Guarded(RequireAuthorization(policies, e))
BY DEF Shaped, Guarded, RequireAuthorization

\* Declaring statuses changes none of it, ...
LEMMA ProducesKeeps ==
    ASSUME NEW e, NEW statuses
    PROVE  /\ Shaped(e) => Shaped(Produces(statuses, e))
           /\ Guarded(e) => Guarded(Produces(statuses, e))
BY DEF Shaped, Guarded, Produces

\* ... nor does a validator.
LEMMA ValidationKeeps ==
    ASSUME NEW e, Guarded(e)
    PROVE  Guarded(WithValidation(e))
BY DEF Shaped, Guarded, WithValidation

\* An operation that wants a caller, whatever else it is.
LEMMA AuthorizedIs ==
    ASSUME NEW statuses, NEW policies, NEW tag, NEW method, NEW path, NEW name
    PROVE  /\ Guarded(Produces(statuses, RequireAuthorization(policies, Mapped(tag, method, path, name))))
           /\ Guarded(RequireAuthorization(policies, Produces(statuses, Mapped(tag, method, path, name))))
BY MappedIs, RequiredIs, ProducesKeeps

\* An operation anyone may call.
LEMMA OpenIs ==
    ASSUME NEW statuses, NEW tag, NEW method, NEW path, NEW name, name # "IdentityLogout"
    PROVE  Guarded(Produces(statuses, Mapped(tag, method, path, name)))
BY MappedIs, ProducesKeeps

\* The endpoints of every module, one module after another.
LEMMA HealthGuarded ==
    ASSUME NEW tag, NEW prefix, NEW e \in HealthEndpoints(tag, prefix)
    PROVE  Guarded(e)
BY OpenIs DEF HealthEndpoints

LEMMA CatalogGuarded == ASSUME NEW e \in CatalogEndpoints PROVE Guarded(e)
BY HealthGuarded, AuthorizedIs DEF CatalogEndpoints

LEMMA AdministrationGuarded == ASSUME NEW e \in AdministrationEndpoints PROVE Guarded(e)
BY HealthGuarded, AuthorizedIs, ValidationKeeps DEF AdministrationEndpoints

LEMMA OrdersGuarded == ASSUME NEW e \in OrdersEndpoints PROVE Guarded(e)
BY HealthGuarded, AuthorizedIs DEF OrdersEndpoints

LEMMA ReportingGuarded == ASSUME NEW e \in ReportingEndpoints PROVE Guarded(e)
BY HealthGuarded, AuthorizedIs DEF ReportingEndpoints

LEMMA IdentityGuarded == ASSUME NEW e \in IdentityEndpoints PROVE Guarded(e)
BY HealthGuarded, AuthorizedIs, OpenIs, ValidationKeeps DEF IdentityEndpoints

LEMMA RootGuarded == ASSUME NEW e \in RootEndpoints \cup SwaggerEndpoints PROVE Guarded(e)
BY OpenIs, MappedIs DEF RootEndpoints, SwaggerEndpoints

\* Every endpoint of every host.
LEMMA ServedGuarded ==
    ASSUME NEW h, NEW e \in Served(h)
    PROVE  Guarded(e)
BY CatalogGuarded, AdministrationGuarded, OrdersGuarded, ReportingGuarded, IdentityGuarded,
   RootGuarded, MappedIs DEF Served

\* What handlers answer.
Statuses == {200, 201, 202, 204, 400, 401, 403, 404, 409, 500, 503}

LEMMA AnswersAre == ASSUME NEW e PROVE Answers(e) \subseteq Statuses
BY DEF Answers, HealthZAnswers, SwaggerAnswers, CatalogAnswers, AdministrationAnswers,
       OrdersAnswers, ReportingAnswers, IdentityAnswers, Statuses

-----------------------------------------------------------------------------
(* Pipeline: where a request is *)

\* The layer is around the request.
On(layer) == layer \in Range(entered)

\* The layers the request meets, as far as it is routed.
Whole == Host(host) \cup (IF endpoint = None THEN {"routing"} ELSE Around(endpoint))

\* Between requests.
Idle ==
    /\ request = None /\ entered = <<>> /\ endpoint = None
    /\ user = Anonymous /\ left = 0 /\ answer = None /\ ran = FALSE /\ counted = None

\* Where the request is: what is around it and what is ahead are the layers it
\* meets, in order, and it comes out through all it came in by.
Placed ==
    /\ host \in Hosts
    /\ way \in {"idle", "in", "out", "panic"}
    /\ way = "idle" => Idle
    /\ way # "idle" => request \in Incoming
    /\ endpoint # None => endpoint \in Served(host)
    /\ InOrder(entered) /\ InOrder(todo)
    /\ way # "in" => todo = <<>>
    /\ way = "in" => /\ Range(entered) \cup Range(todo) = Whole
                     /\ \A x \in Range(entered), y \in Range(todo) : Rank[x] < Rank[y]
    /\ Range(entered) \subseteq Whole
    /\ \A x \in Range(entered), y \in Whole : Rank[y] < Rank[x] => y \in Range(entered)

\* The host's layers, the router, the route's.
LEMMA WholeIs ==
    /\ Whole \subseteq Layers
    /\ Host(host) \subseteq Whole
    /\ \A x \in Host(host) : Rank[x] < 9
    /\ \A x \in Whole : Rank[x] > 9 => endpoint # None /\ x \in Around(endpoint)
    /\ endpoint # None => Whole = Host(host) \cup Around(endpoint)
                          /\ \A x \in Around(endpoint) : Rank[x] > 9
    /\ endpoint = None => Whole = Host(host) \cup {"routing"}
BY LayerNames DEF Whole, Host, Around, Rank

\* A layer's turn: those before it are around the request, and it is the next.
LEMMA Turn ==
    ASSUME Placed, NEW x, At(x)
    PROVE  /\ x \in Whole /\ x \in Layers
           /\ request \in Incoming
           /\ \A y \in Whole : Rank[y] < Rank[x] <=> y \in Range(entered)
           /\ \A y \in Range(todo) : y # x => Rank[x] < Rank[y]
<1>1. /\ way = "in" /\ todo # <<>> /\ Head(todo) = x /\ InOrder(todo) /\ request \in Incoming
      /\ Range(entered) \cup Range(todo) = Whole
      /\ \A u \in Range(entered), v \in Range(todo) : Rank[u] < Rank[v]
  BY DEF At, Placed
<1>2. x \in Range(todo) /\ \A y \in Range(todo) : y # x => Rank[x] < Rank[y]
  BY <1>1, Taken
<1>3. Whole \subseteq Layers
  BY WholeIs
<1>4. \A y \in Range(todo) : ~ Rank[y] < Rank[x]
  <2> SUFFICES ASSUME NEW y \in Range(todo), y # x PROVE ~ Rank[y] < Rank[x]
    BY <1>1, <1>2, <1>3, Ranks
  <2> QED BY <1>1, <1>2, <1>3, Ranks
<1> QED BY <1>1, <1>2, <1>3, <1>4

\* A layer entered is one more around the request.
LEMMA Entering ==
    ASSUME Placed, NEW x, At(x), Entered, UNCHANGED endpoint
    PROVE  /\ Placed'
           /\ Range(entered)' = Range(entered) \cup {x}
           /\ way' = "in" /\ way = "in"
           /\ UNCHANGED <<host, request, answer>>
<1> USE DEF Entered
<1>1. /\ way = "in" /\ todo # <<>> /\ Head(todo) = x
  BY DEF At
<1>2. /\ InOrder(todo') /\ Range(todo') = Range(todo) \ {x}
      /\ \A y \in Range(todo') : Rank[x] < Rank[y]
      /\ x \in Range(todo)
  BY <1>1, Taken DEF Placed
<1>3. /\ x \in Layers /\ \A y \in Range(entered) : Rank[y] < Rank[x]
  BY <1>1, <1>2, Turn DEF Placed
<1>4. InOrder(entered') /\ Range(entered') = Range(entered) \cup {x}
  BY <1>1, <1>3, Added DEF Placed
<1>5. Whole' = Whole /\ Whole \subseteq Layers
  BY WholeIs DEF Whole
<1>6. Range(entered') \cup Range(todo') = Whole
  BY <1>1, <1>2, <1>4 DEF Placed
<1>7. \A u \in Range(entered'), v \in Range(todo') : Rank[u] < Rank[v]
  <2> SUFFICES ASSUME NEW u \in Range(entered'), NEW v \in Range(todo') PROVE Rank[u] < Rank[v]
    OBVIOUS
  <2>1. CASE u = x
    BY <2>1, <1>2
  <2>2. CASE u \in Range(entered)
    BY <2>2, <1>1, <1>2 DEF Placed
  <2> QED BY <2>1, <2>2, <1>4
<1>8. \A u \in Range(entered'), y \in Whole : Rank[y] < Rank[u] => y \in Range(entered')
  <2> SUFFICES ASSUME NEW u \in Range(entered'), NEW y \in Range(todo'), Rank[y] < Rank[u] PROVE FALSE
    BY <1>6
  <2>1. Rank[u] < Rank[y] /\ u \in Layers /\ y \in Layers
    BY <1>5, <1>6, <1>7
  <2> QED BY <2>1, Apart
<1> QED BY <1>1, <1>2, <1>4, <1>5, <1>6, <1>7, <1>8 DEF Placed

\* An answer turns the request around.
LEMMA Answering ==
    ASSUME Placed, NEW x, At(x), NEW a, Answered(a), UNCHANGED endpoint
    PROVE  /\ Placed'
           /\ way' = "out" /\ answer' = a
           /\ UNCHANGED <<host, request, entered>>
<1>1. /\ way = "in" /\ way' = "out" /\ todo' = <<>> /\ answer' = a
      /\ UNCHANGED <<host, request, entered, endpoint>>
  BY DEF At, Answered
<1>2. Whole' = Whole
  BY <1>1 DEF Whole
<1> QED BY <1>1, <1>2, InOrderNone DEF Placed

\* So does a panic.
LEMMA Panicking ==
    ASSUME Placed, Panic
    PROVE  Placed'
<1>1. /\ way = "in" /\ way' = "panic" /\ todo' = <<>>
      /\ UNCHANGED <<host, request, entered, endpoint>>
  BY DEF Panic, At
<1>2. Whole' = Whole
  BY <1>1 DEF Whole
<1> QED BY <1>1, <1>2, InOrderNone DEF Placed

\* The route's layers take the router's place.
LEMMA Routing ==
    ASSUME Placed, Route
    PROVE  Placed' /\ endpoint' # None
<1>1. /\ At("routing") /\ way = "in"
      /\ UNCHANGED <<host, request, way, entered>>
      /\ endpoint' \in Served(host)
      /\ todo' = RouteLayers(endpoint')
  BY DEF Route, At, Routed
<1>2. endpoint' # None
  BY <1>1, NamesAssumption DEF Placed
<1>3. Rank["routing"] = 9
  BY DEF Rank
<1>4. endpoint = None /\ Whole = Host(host) \cup {"routing"}
  <2>1. "routing" \in Whole
    BY <1>1, Turn
  <2> QED BY <2>1, <1>3, WholeIs
<1>5. Range(entered) = Host(host)
  <2>1. Host(host) \subseteq Range(entered)
    BY <1>1, <1>3, Turn, WholeIs
  <2>2. "routing" \notin Range(entered)
    BY <1>1, <1>3, Turn
  <2>3. Range(entered) \subseteq Whole
    BY DEF Placed
  <2> QED BY <2>1, <2>2, <2>3, <1>4
<1>6. InOrder(todo') /\ Range(todo') = Around(endpoint')
  BY <1>1, RouteLayersAre
<1>7. Whole' = Range(entered) \cup Range(todo')
  BY <1>1, <1>2, <1>5, <1>6 DEF Whole
<1>8. \A x \in Range(todo') : Rank[x] > 9
  BY <1>6 DEF Around, Rank
<1>9. \A x \in Range(entered) : Rank[x] < 9
  BY <1>5, WholeIs
<1>10. \A x \in Range(entered) \cup Range(todo') : Rank[x] \in Nat
  <2>1. Whole' \subseteq Layers
    BY <1>7, <1>5, <1>6, LayerNames DEF Host, Around
  <2> QED BY <2>1, <1>7, Ranks
<1>11. \A x \in Range(entered), y \in Range(todo') : Rank[x] < Rank[y]
  BY <1>8, <1>9, <1>10
<1>12. \A x \in Range(entered), y \in Whole' : Rank[y] < Rank[x] => y \in Range(entered)
  BY <1>7, <1>10, <1>11
<1> QED BY <1>1, <1>2, <1>6, <1>7, <1>11, <1>12 DEF Placed

\* A request arrives before all layers.
LEMMA Receiving ==
    ASSUME Placed, Receive
    PROVE  Placed'
<1>1. /\ way = "idle" /\ Idle /\ way' = "in" /\ request' \in Incoming
      /\ todo' = HostLayers(host)
      /\ UNCHANGED <<host, entered, endpoint>>
  BY DEF Receive, Placed
<1>2. InOrder(todo') /\ Range(todo') = Host(host) \cup {"routing"}
  BY <1>1, HostLayersAre
<1>3. Range(entered) = {} /\ endpoint = None
  BY <1>1, InOrderNone DEF Idle
<1>4. Whole' = Host(host) \cup {"routing"}
  BY <1>1, <1>3 DEF Whole
<1> QED BY <1>1, <1>2, <1>3, <1>4 DEF Placed

\* The innermost layer is left, in either way.
LEMMA Outward ==
    ASSUME Placed, way \in {"out", "panic"}, way' \in {"out", "panic"},
           entered # <<>>, Leaving(Last(entered))
    PROVE  /\ Placed'
           /\ On(Last(entered)) /\ Last(entered) \in Layers
           /\ Range(entered)' = Range(entered) \ {Last(entered)}
           /\ \A x \in Range(entered)' : Rank[x] < Rank[Last(entered)]
           /\ \A y \in Whole : Rank[y] < Rank[Last(entered)] => On(y)'
           /\ UNCHANGED <<host, request, todo, endpoint, user, left, ran>>
<1>1. /\ entered' = Front(entered)
      /\ UNCHANGED <<host, request, todo, endpoint, user, left, ran>>
  BY DEF Leaving
<1>2. /\ Last(entered) \in Range(entered)
      /\ InOrder(entered') /\ Range(entered') = Range(entered) \ {Last(entered)}
      /\ \A x \in Range(entered') : Rank[x] < Rank[Last(entered)]
  BY <1>1, Dropped DEF Placed
<1>3. Whole' = Whole /\ Whole \subseteq Layers /\ Range(entered) \subseteq Whole
  BY <1>1, WholeIs DEF Whole, Placed
<1>4. \A y \in Whole : Rank[y] < Rank[Last(entered)] => y \in Range(entered')
  <2> SUFFICES ASSUME NEW y \in Whole, Rank[y] < Rank[Last(entered)] PROVE y \in Range(entered')
    OBVIOUS
  <2>1. y \in Range(entered)
    BY <1>2 DEF Placed
  <2>2. y # Last(entered)
    BY <1>3, Ranks
  <2> QED BY <2>1, <2>2, <1>2
<1>5. \A x \in Range(entered'), y \in Whole : Rank[y] < Rank[x] => y \in Range(entered')
  <2> SUFFICES ASSUME NEW x \in Range(entered'), NEW y \in Whole, Rank[y] < Rank[x]
               PROVE  y \in Range(entered')
    OBVIOUS
  <2>1. Rank[y] < Rank[Last(entered)]
    BY <1>2, <1>3, Ranks
  <2> QED BY <2>1, <1>4
<1>6. way # "in" /\ way' # "in" /\ todo' = <<>> /\ way # "idle" /\ way' # "idle"
  BY <1>1 DEF Placed
<1>7. Placed'
  BY <1>1, <1>2, <1>3, <1>5, <1>6 DEF Placed
<1> QED BY <1>1, <1>2, <1>3, <1>4, <1>7 DEF On

-----------------------------------------------------------------------------
(* Pipeline: what an answer is on its way out *)

\* The identifier the request is to go by.
Caller == IF request.traceparent.wellFormed THEN request.traceparent.id ELSE Minted

\* /healthz answers by itself.
IsHealth == endpoint # None /\ endpoint.name = "HealthZ"

\* What an answer is on its way out through the monolith, by the layers that
\* are still to see it.
Wrapped ==
    /\ On("request_id") \/ Caller \in answer.headers
    /\ answer.content = "problem" => answer.trace = Caller
    /\ answer.status >= 400 /\ ~IsHealth =>
          answer.content = "problem" \/ (answer.content = "none" /\ On("status_code_pages"))
    /\ answer.content = "json" => On("json_charset")
    /\ ("www-authenticate" \in answer.headers) <=> (answer.status = 401 /\ user = Anonymous /\ ~ran)
    /\ \/ "security" \in answer.headers
       \/ On("security_headers")
       \/ ran /\ counted = None /\ answer.status = 500 /\ ~On("metrics")

\* What else goes with being on the way in, on the way out, or in a panic.
Told ==
    /\ scope \in Traces
    /\ way \in {"in", "panic"} => answer = None /\ counted = None
    /\ way = "in" => ~ran
    /\ way = "panic" => ran
    /\ way = "out" => answer \in Answer
    /\ IsMonolith =>
          /\ On("request_id") => scope = Caller
          /\ way = "panic" => On("catch_panic")
          /\ way = "out" => Wrapped

\* The inductive invariant of EveryAnswerIsWrapped.
WrapInv == Placed /\ Told

\* A request's identifier is one, and no header's name.
LEMMA CallerIs ==
    ASSUME Placed, way # "idle"
    PROVE  Caller \in Traces /\ Caller # NoTrace /\ Caller \notin HeaderNames
<1>1. request \in Incoming
  BY DEF Placed
<1>2. request.traceparent.wellFormed => request.traceparent.id # NoTrace
  BY <1>1, PipelineAssumption
<1>3. Caller \in Traces
  BY <1>1 DEF Caller, Traces
<1> QED BY <1>2, <1>3, PipelineAssumption, NamesAssumption DEF Caller

\* The layers EveryAnswerIsWrapped is about.
LEMMA MonolithHas ==
    ASSUME IsMonolith
    PROVE  {"request_id", "catch_panic", "status_code_pages", "json_charset", "security_headers",
            "cors", "authenticate"} \subseteq Whole
BY DEF IsMonolith, Whole, Host

\* The layers' places.
LEMMA RankIs ==
    /\ Rank["request_id"] = 2 /\ Rank["catch_panic"] = 3 /\ Rank["status_code_pages"] = 4
    /\ Rank["json_charset"] = 5 /\ Rank["security_headers"] = 6 /\ Rank["cors"] = 7
    /\ Rank["authenticate"] = 8 /\ Rank["routing"] = 9 /\ Rank["constraints"] = 10
    /\ Rank["rate_limit"] = 11 /\ Rank["authorize"] = 12 /\ Rank["metrics"] = 13
    /\ Rank["validator"] = 14 /\ Rank["handler"] = 15
BY DEF Rank

\* An answer is something.
LEMMA NoneIsNoAnswer == None \notin Answer
BY NamesAssumption

-----------------------------------------------------------------------------
(* Pipeline: answers and layers *)

\* The identifier a problem document names is the one in scope.
LEMMA CurrentTraceIs ==
    ASSUME scope \in Traces
    PROVE  /\ CurrentTraceId \in Traces
           /\ scope # NoTrace => CurrentTraceId = scope
BY DEF CurrentTraceId, Traces

\* The answers' members, one constructor after another.
LEMMA BareIs ==
    ASSUME NEW status \in Nat
    PROVE  /\ Bare(status) \in Answer
           /\ Bare(status).status = status /\ Bare(status).content = "none"
           /\ Bare(status).headers = {}
BY DEF Bare, Answer, Traces, Kinds

LEMMA ContentIs ==
    ASSUME NEW status \in Nat, NEW kind \in Kinds
    PROVE  /\ Content(status, kind) \in Answer
           /\ Content(status, kind).status = status /\ Content(status, kind).content = kind
           /\ Content(status, kind).headers = {}
BY DEF Content, Bare, Answer, Traces, Kinds

LEMMA ProblemIs ==
    ASSUME scope \in Traces, NEW status \in Nat
    PROVE  /\ ProblemDetails(status) \in Answer
           /\ ProblemDetails(status).status = status /\ ProblemDetails(status).content = "problem"
           /\ ProblemDetails(status).trace = CurrentTraceId
           /\ ProblemDetails(status).headers = {}
BY CurrentTraceIs DEF ProblemDetails, Answer, Kinds

LEMMA ApiErrorIs ==
    ASSUME scope \in Traces, NEW status \in Nat
    PROVE  /\ ApiError(status) \in Answer
           /\ ApiError(status).status = status /\ ApiError(status).content = "problem"
           /\ ApiError(status).trace = CurrentTraceId
           /\ ApiError(status).headers = IF status = 401 THEN {"www-authenticate"} ELSE {}
BY CurrentTraceIs DEF ApiError, ProblemDetails, Answer, HeaderNames, Kinds

LEMMA HandlerAnswerIs ==
    ASSUME scope \in Traces, NEW status \in Nat, NEW e
    PROVE  /\ HandlerAnswer(e, status) \in Answer
           /\ HandlerAnswer(e, status).status = status
           /\ HandlerAnswer(e, status).headers = {}
           /\ HandlerAnswer(e, status).content = "problem" =>
                 HandlerAnswer(e, status).trace = CurrentTraceId
           /\ status >= 400 /\ e.name # "HealthZ" => HandlerAnswer(e, status).content = "problem"
<1> DEFINE A == HandlerAnswer(e, status)
<1>1. CASE e.name = "HealthZ"
  <2> DEFINE kind == IF e.tag = "Root" THEN "json" ELSE "text"
  <2>1. A = Content(status, kind)
    BY <1>1 DEF HandlerAnswer
  <2>2. kind \in Kinds \ {"problem"}
    BY DEF Kinds
  <2>3. kind \in Kinds
    BY <2>2
  <2> HIDE DEF kind, A
  <2>4. /\ A \in Answer /\ A.status = status /\ A.content # "problem" /\ A.headers = {}
    BY <2>1, <2>2, <2>3, ContentIs
  <2> QED BY <2>4, <1>1 DEF A
<1>2. CASE e.name # "HealthZ" /\ status \in {200, 201, 202}
  <2> DEFINE kind == IF e.tag = "Swagger" /\ Param \notin Range(e.path) THEN "html" ELSE "json"
  <2>1. A = Content(status, kind)
    BY <1>2 DEF HandlerAnswer
  <2>2. kind \in Kinds \ {"problem"}
    BY DEF Kinds
  <2>3. kind \in Kinds
    BY <2>2
  <2> HIDE DEF kind, A
  <2>4. /\ A \in Answer /\ A.status = status /\ A.content # "problem" /\ A.headers = {}
    BY <2>1, <2>2, <2>3, ContentIs
  <2> QED BY <2>4, <1>2 DEF A
<1>3. CASE e.name # "HealthZ" /\ status = 204
  <2>1. A = Bare(status)
    BY <1>3 DEF HandlerAnswer
  <2> QED BY <2>1, <1>3, BareIs
<1>4. CASE e.name # "HealthZ" /\ status \notin {200, 201, 202, 204}
  <2>1. A = ProblemDetails(status)
    BY <1>4 DEF HandlerAnswer
  <2> QED BY <2>1, <1>4, ProblemIs
<1> QED BY <1>1, <1>2, <1>3, <1>4

\* The headers a layer adds.
Extra(layer) ==
    CASE layer = "hsts"             -> {"strict-transport-security"}
      [] layer = "request_id"       -> {scope}
      [] layer = "security_headers" -> {"security"}
      [] layer = "cors"             -> {"vary"}
      [] OTHER                      -> {}

\* The headers of each layer that adds one.
LEMMA ExtraIs ==
    /\ Extra("hsts") = {"strict-transport-security"} /\ Extra("request_id") = {scope}
    /\ Extra("security_headers") = {"security"} /\ Extra("cors") = {"vary"}
    /\ \A layer \in Layers \ {"hsts", "request_id", "security_headers", "cors"} : Extra(layer) = {}
BY DEF Extra

\* A layer an answer passes leaves its status; content and trace are changed by
\* one layer each, and a header is added by three.
LEMMA PassedIs ==
    ASSUME scope \in Traces, NEW a \in Answer, NEW layer \in Layers
    PROVE  /\ Passed(layer, a) \in Answer
           /\ Passed(layer, a).status = a.status
           /\ layer = "status_code_pages" /\ a.status >= 400 /\ a.content = "none" =>
                 /\ Passed(layer, a).content = "problem"
                 /\ Passed(layer, a).trace = CurrentTraceId
           /\ layer = "json_charset" /\ a.content = "json" =>
                 Passed(layer, a).content = "json; charset=utf-8"
           /\ ~(layer = "status_code_pages" /\ a.status >= 400 /\ a.content = "none")
              /\ ~(layer = "json_charset" /\ a.content = "json") =>
                 Passed(layer, a).content = a.content /\ Passed(layer, a).trace = a.trace
           /\ Passed(layer, a).headers =
                 a.headers \cup Extra(layer)
<1> DEFINE P == Passed(layer, a)
<1>0. PICK s \in Nat, c \in Kinds, t \in Traces, hs \in SUBSET (Traces \cup HeaderNames) :
        a = [status |-> s, content |-> c, trace |-> t, headers |-> hs]
  <2>1. /\ a.status \in Nat /\ a.content \in Kinds /\ a.trace \in Traces
        /\ a.headers \in SUBSET (Traces \cup HeaderNames)
        /\ a = [status |-> a.status, content |-> a.content, trace |-> a.trace, headers |-> a.headers]
    BY DEF Answer
  <2> QED BY <2>1
<1>1. ASSUME NEW n \in Traces \cup HeaderNames
      PROVE  With(n, a) = [status |-> s, content |-> c, trace |-> t, headers |-> hs \cup {n}]
  BY <1>0 DEF With
<1>2. {"strict-transport-security", "vary", "security"} \subseteq HeaderNames
  BY DEF HeaderNames
<1>3. CASE layer \in {"hsts", "request_id", "security_headers", "cors"}
  <2>1. PICK n \in Traces \cup HeaderNames : P = With(n, a) /\ Extra(layer) = {n}
    <3>1. CASE layer = "hsts"
      BY <3>1, <1>2, ExtraIs DEF Passed
    <3>2. CASE layer = "request_id"
      BY <3>2, ExtraIs DEF Passed
    <3>3. CASE layer = "security_headers"
      BY <3>3, <1>2, ExtraIs DEF Passed
    <3>4. CASE layer = "cors"
      BY <3>4, <1>2, ExtraIs DEF Passed
    <3> QED BY <3>1, <3>2, <3>3, <3>4, <1>3
  <2>2. P = [status |-> s, content |-> c, trace |-> t, headers |-> hs \cup {n}]
    BY <1>1, <2>1
  <2> HIDE DEF P
  <2>3. P \in Answer
    BY <2>2 DEF Answer
  <2>4. /\ P.status = a.status /\ P.content = a.content /\ P.trace = a.trace
        /\ P.headers = a.headers \cup Extra(layer)
    BY <2>1, <2>2, <1>0
  <2>5. layer # "status_code_pages" /\ layer # "json_charset"
    BY <1>3
  <2> QED BY <2>3, <2>4, <2>5 DEF P
<1>4. CASE layer = "status_code_pages"
  <2>1. P = StatusCodePages(a)
    BY <1>4 DEF Passed
  <2>2. CASE a.status >= 400 /\ a.content = "none"
    <3>1. P = [status |-> s, content |-> "problem", trace |-> CurrentTraceId, headers |-> hs]
      BY <1>0, <2>1, <2>2 DEF StatusCodePages, ProblemDetails
    <3> HIDE DEF P
    <3>2. P \in Answer
      BY <3>1, CurrentTraceIs DEF Answer, Kinds
    <3>3. /\ P.status = a.status /\ P.content = "problem" /\ P.trace = CurrentTraceId
          /\ P.headers = a.headers \cup Extra(layer)
      BY <3>1, <1>0, <1>4, ExtraIs
    <3> QED BY <3>2, <3>3, <2>2, <1>4 DEF P
  <2>3. CASE ~(a.status >= 400 /\ a.content = "none")
    BY <2>1, <2>3, <1>4, ExtraIs DEF StatusCodePages
  <2> QED BY <2>2, <2>3
<1>5. CASE layer = "json_charset"
  <2>1. P = JsonCharset(a)
    BY <1>5 DEF Passed
  <2>2. CASE a.content = "json"
    <3>1. P = [status |-> s, content |-> "json; charset=utf-8", trace |-> t, headers |-> hs]
      BY <1>0, <2>1, <2>2 DEF JsonCharset
    <3> HIDE DEF P
    <3>2. P \in Answer
      BY <3>1 DEF Answer, Kinds
    <3>3. /\ P.status = a.status /\ P.content = "json; charset=utf-8" /\ P.trace = a.trace
          /\ P.headers = a.headers \cup Extra(layer)
      BY <3>1, <1>0, <1>5, ExtraIs
    <3> QED BY <3>2, <3>3, <2>2, <1>5 DEF P
  <2>3. CASE a.content # "json"
    BY <2>1, <2>3, <1>5, ExtraIs DEF JsonCharset
  <2> QED BY <2>2, <2>3
<1>6. CASE layer \notin {"hsts", "request_id", "security_headers", "cors", "status_code_pages",
                         "json_charset"}
  BY <1>6, ExtraIs DEF Passed
<1> QED BY <1>3, <1>4, <1>5, <1>6

-----------------------------------------------------------------------------
(* Pipeline: the steps of answers *)

\* A layer that answers after the trace, the pages, the charset and the headers
\* are around the request.
LEMMA AnsweredInside ==
    ASSUME WrapInv, NEW x, At(x), NEW a \in Answer, Answered(a), IsMonolith => Rank[x] >= 7,
           UNCHANGED <<endpoint, scope, user, counted>>,
           a.content = "problem" => a.trace = CurrentTraceId,
           a.status >= 400 /\ ~IsHealth => a.content \in {"problem", "none"},
           ("www-authenticate" \in a.headers) <=> (a.status = 401 /\ user = Anonymous /\ ~ran')
    PROVE  WrapInv'
<1>1. /\ Placed' /\ way' = "out" /\ answer' = a /\ UNCHANGED <<host, request, entered>>
  BY Answering DEF WrapInv
<1>2. CASE ~IsMonolith
  BY <1>1, <1>2 DEF WrapInv, Told, IsMonolith
<1>3. CASE IsMonolith
  <2>1. \A y \in Whole : Rank[y] < 7 => y \in Range(entered)
    <3> SUFFICES ASSUME NEW y \in Whole, Rank[y] < 7 PROVE y \in Range(entered)
      OBVIOUS
    <3>1. Rank[y] < Rank[x]
      BY <1>3, WholeIs, Ranks, Turn DEF WrapInv
    <3> QED BY <3>1, Turn DEF WrapInv
  <2>2. On("request_id") /\ On("status_code_pages") /\ On("json_charset") /\ On("security_headers")
    BY <2>1, <1>3, MonolithHas, RankIs DEF On
  <2>3. way = "in"
    BY DEF At
  <2>4. CurrentTraceId = Caller
    BY <2>2, <2>3, <1>3, CallerIs, CurrentTraceIs DEF WrapInv, Told
  <2>5. Caller' = Caller /\ IsHealth' = IsHealth /\ IsMonolith'
    BY <1>1, <1>3 DEF Caller, IsHealth, IsMonolith
  <2>6. Wrapped'
    BY <1>1, <2>2, <2>4, <2>5 DEF Wrapped, On
  <2>7. scope' = Caller' /\ scope' \in Traces
    BY <2>2, <2>3, <2>5, <1>3 DEF WrapInv, Told
  <2> QED BY <1>1, <2>6, <2>7 DEF WrapInv, Told
<1> QED BY <1>2, <1>3

\* Entering a layer: request_id's opens the scope.
LEMMA EnteredInside ==
    ASSUME WrapInv, NEW x, At(x), Entered, UNCHANGED <<endpoint, ran, counted>>,
           x # "request_id" => UNCHANGED scope,
           x = "request_id" => scope' = Caller
    PROVE  WrapInv'
<1>1. /\ Placed' /\ Range(entered)' = Range(entered) \cup {x} /\ way' = "in" /\ way = "in"
      /\ UNCHANGED <<host, request, answer>>
  BY Entering DEF WrapInv
<1>2. Caller' = Caller /\ Caller \in Traces
  BY <1>1, CallerIs DEF Caller, WrapInv
<1>3. scope' \in Traces
  BY <1>2 DEF WrapInv, Told
<1>4. IsMonolith' => (On("request_id")' => scope' = Caller')
  BY <1>1, <1>2 DEF WrapInv, Told, On, IsMonolith
<1> QED BY <1>1, <1>3, <1>4 DEF WrapInv, Told

\* A layer pays what the answer still lacks as it is left: the trace's header,
\* the problem document, the charset, the security headers.
LEMMA LeaveInside ==
    ASSUME WrapInv, Leave
    PROVE  WrapInv'
<1> DEFINE layer == Last(entered)
<1>1. /\ way = "out" /\ way' = "out" /\ entered # <<>> /\ Leaving(layer)
      /\ answer' = Passed(layer, answer)
      /\ counted' = IF layer = "metrics" THEN answer.status ELSE counted
      /\ scope' = IF layer = "request_id" THEN NoTrace ELSE scope
  BY DEF Leave, Leaving
<1>2. /\ Placed' /\ On(layer) /\ layer \in Layers
      /\ Range(entered)' = Range(entered) \ {layer}
      /\ \A y \in Whole : Rank[y] < Rank[layer] => On(y)'
      /\ UNCHANGED <<host, request, endpoint, user, ran>>
  BY <1>1, Outward DEF WrapInv
<1>3. scope' \in Traces /\ scope \in Traces /\ answer \in Answer
  BY <1>1 DEF WrapInv, Told, Traces
<1> HIDE DEF layer
<1>4. /\ answer' \in Answer /\ answer'.status = answer.status
      /\ answer'.headers = answer.headers \cup Extra(layer)
  BY <1>1, <1>2, <1>3, PassedIs
<1>7. layer = "status_code_pages" /\ answer.status >= 400 /\ answer.content = "none" =>
          answer'.content = "problem" /\ answer'.trace = CurrentTraceId
  BY <1>1, <1>2, <1>3, PassedIs
<1>8. layer = "json_charset" /\ answer.content = "json" =>
          answer'.content = "json; charset=utf-8"
  BY <1>1, <1>2, <1>3, PassedIs
<1>9. \/ layer = "status_code_pages" /\ answer.status >= 400 /\ answer.content = "none"
      \/ layer = "json_charset" /\ answer.content = "json"
      \/ answer'.content = answer.content /\ answer'.trace = answer.trace
  BY <1>1, <1>2, <1>3, PassedIs
<1>5. CASE ~IsMonolith
  BY <1>1, <1>2, <1>3, <1>4, <1>5 DEF WrapInv, Told, IsMonolith
<1>6. CASE IsMonolith
  <2>1. Caller' = Caller /\ IsHealth' = IsHealth /\ IsMonolith'
    BY <1>2, <1>6 DEF Caller, IsHealth, IsMonolith
  <2>2. Wrapped /\ (On("request_id") => scope = Caller)
    BY <1>1, <1>6 DEF WrapInv, Told
  <2>3. /\ Caller \notin HeaderNames /\ Caller # NoTrace
    BY <1>1, CallerIs DEF WrapInv
  <2>4. layer = "status_code_pages" => CurrentTraceId = Caller
    <3> SUFFICES ASSUME layer = "status_code_pages" PROVE CurrentTraceId = Caller
      OBVIOUS
    <3>1. On("request_id")
      <4>1. "request_id" \in Whole
        BY <1>6, MonolithHas
      <4>2. "request_id" \in Range(entered)'
        BY <4>1, <1>2, RankIs DEF On
      <4> QED BY <4>2, <1>2 DEF On
    <3> QED BY <3>1, <2>2, <2>3, <1>3, CurrentTraceIs
  <2>5. On("request_id")' => scope' = Caller'
    BY <1>1, <1>2, <2>1, <2>2 DEF On
  <2>6. On("request_id")' \/ Caller' \in answer'.headers
    <3>1. CASE layer = "request_id"
      <4>1. scope = Caller
        BY <3>1, <1>2, <2>2
      <4>2. answer'.headers = answer.headers \cup {scope}
        BY <3>1, <1>4, ExtraIs
      <4> QED BY <4>1, <4>2, <2>1
    <3>2. CASE layer # "request_id"
      BY <3>2, <1>2, <1>4, <2>1, <2>2 DEF Wrapped, On
    <3> QED BY <3>1, <3>2
  <2>7. answer'.content = "problem" => answer'.trace = Caller'
    BY <1>7, <1>8, <1>9, <2>1, <2>2, <2>4 DEF Wrapped
  <2>8. answer'.status >= 400 /\ ~IsHealth' =>
          answer'.content = "problem" \/ (answer'.content = "none" /\ On("status_code_pages")')
    <3> SUFFICES ASSUME answer'.status >= 400, ~IsHealth'
                 PROVE  answer'.content = "problem"
                        \/ (answer'.content = "none" /\ On("status_code_pages")')
      OBVIOUS
    <3>1. answer.status >= 400 /\ ~IsHealth
      BY <1>4, <2>1
    <3>2. CASE answer.content = "problem"
      BY <3>2, <1>9
    <3>3. CASE answer.content = "none" /\ On("status_code_pages")
      <4>1. CASE layer = "status_code_pages"
        BY <4>1, <3>1, <3>3, <1>7
      <4>2. CASE layer # "status_code_pages"
        BY <4>2, <3>3, <1>2, <1>9 DEF On
      <4> QED BY <4>1, <4>2
    <3> QED BY <3>1, <3>2, <3>3, <2>2 DEF Wrapped
  <2>9. answer'.content = "json" => On("json_charset")'
    BY <1>2, <1>4, <1>7, <1>8, <1>9, <2>1, <2>2 DEF Wrapped, On
  <2>10. ("www-authenticate" \in answer'.headers)
            <=> (answer'.status = 401 /\ user' = Anonymous /\ ~ran')
    <3>2. "www-authenticate" \notin Extra(layer)
      <4>1. CASE layer = "request_id"
        <5>1. scope = Caller /\ Extra(layer) = {Caller}
          BY <4>1, <1>2, <2>2, ExtraIs
        <5> QED BY <5>1, <2>3 DEF HeaderNames
      <4>2. CASE layer # "request_id"
        BY <4>2, <1>2, ExtraIs
      <4> QED BY <4>1, <4>2
    <3> QED BY <1>4, <3>2, <2>2, <1>2 DEF Wrapped
  <2>11. \/ "security" \in answer'.headers
         \/ On("security_headers")'
         \/ ran' /\ counted' = None /\ answer'.status = 500 /\ ~On("metrics")'
    <3>2. CASE layer = "security_headers"
      BY <1>4, <3>2, ExtraIs
    <3>3. CASE layer # "security_headers"
      BY <1>4, <3>3, <1>1, <1>2, <2>2 DEF Wrapped, On
    <3> QED BY <3>2, <3>3
  <2>12. Wrapped'
    BY <2>6, <2>7, <2>8, <2>9, <2>10, <2>11 DEF Wrapped
  <2> QED BY <1>1, <1>2, <1>3, <1>4, <2>5, <2>12 DEF WrapInv, Told
<1> QED BY <1>5, <1>6

\* The layer that catches a panic makes its answer inside the trace's scope.
LEMMA UnwindInside ==
    ASSUME WrapInv, Unwind
    PROVE  WrapInv'
<1> DEFINE layer == Last(entered)
<1>1. /\ way = "panic" /\ way' \in {"out", "panic"} /\ entered # <<>> /\ Leaving(layer)
      /\ IF layer = "catch_panic" THEN way' = "out" /\ answer' = ProblemDetails(500)
                                  ELSE UNCHANGED <<way, answer>>
      /\ scope' = IF layer = "request_id" THEN NoTrace ELSE scope
      /\ UNCHANGED counted
  BY DEF Unwind, Leaving
<1>2. /\ Placed' /\ On(layer) /\ layer \in Layers
      /\ Range(entered)' = Range(entered) \ {layer}
      /\ \A x \in Range(entered)' : Rank[x] < Rank[layer]
      /\ \A y \in Whole : Rank[y] < Rank[layer] => On(y)'
      /\ UNCHANGED <<host, request, endpoint, user, ran>>
  BY <1>1, Outward DEF WrapInv
<1>3. scope' \in Traces /\ scope \in Traces /\ ran /\ answer = None /\ counted = None
  BY <1>1 DEF WrapInv, Told, Traces
<1> HIDE DEF layer
<1>4. CASE layer = "catch_panic"
  <2>1. answer' = ProblemDetails(500) /\ answer' \in Answer /\ way' = "out"
    BY <1>1, <1>3, <1>4, ProblemIs
  <2>2. CASE ~IsMonolith
    BY <1>2, <1>3, <2>1, <2>2 DEF WrapInv, Told, IsMonolith
  <2>3. CASE IsMonolith
    <3>1. On("request_id")' /\ On("request_id")
      BY <1>2, <1>4, <2>3, MonolithHas, RankIs DEF On
    <3>2. scope = Caller /\ Caller # NoTrace
      BY <3>1, <1>1, <2>3, CallerIs DEF WrapInv, Told
    <3>3. CurrentTraceId = Caller
      BY <3>2, <1>3, CurrentTraceIs
    <3>4. /\ answer'.status = 500 /\ answer'.content = "problem" /\ answer'.trace = Caller
          /\ answer'.headers = {}
      BY <2>1, <3>3, <1>3, ProblemIs
    <3>5. Caller' = Caller /\ IsMonolith' /\ scope' = scope
      BY <1>1, <1>2, <1>4, <2>3 DEF Caller, IsMonolith
    <3>6. ~On("metrics")'
      BY <1>2, <1>4, RankIs DEF On
    <3>7. Wrapped'
      BY <3>1, <3>4, <3>5, <3>6, <1>1, <1>2, <1>3 DEF Wrapped
    <3> QED BY <1>2, <1>3, <2>1, <3>2, <3>5, <3>7 DEF WrapInv, Told
  <2> QED BY <2>2, <2>3
<1>5. CASE layer # "catch_panic"
  <2>1. way' = "panic" /\ answer' = None
    BY <1>1, <1>3, <1>5
  <2>2. IsMonolith' => On("catch_panic")' /\ (On("request_id")' => scope' = Caller')
    BY <1>1, <1>2, <1>5 DEF WrapInv, Told, On, IsMonolith, Caller
  <2> QED BY <1>1, <1>2, <1>3, <2>1, <2>2 DEF WrapInv, Told
<1> QED BY <1>4, <1>5

\* A handler's answer.
LEMMA HandleInside ==
    ASSUME WrapInv, Handle
    PROVE  WrapInv'
<1>1. PICK status \in Decided : Answered(HandlerAnswer(endpoint, status))
  BY DEF Handle
<1> DEFINE a == HandlerAnswer(endpoint, status)
<1>2. At("handler") /\ ran' /\ UNCHANGED <<endpoint, scope, user, counted>>
  BY DEF Handle
<1>3. status \in Statuses /\ status \in Nat
  BY AnswersAre DEF Decided, Statuses
<1>4. scope \in Traces
  BY DEF WrapInv, Told
<1>5. endpoint # None
  BY <1>2, Turn, WholeIs, RankIs DEF WrapInv
<1>6. /\ a \in Answer /\ a.headers = {}
      /\ a.content = "problem" => a.trace = CurrentTraceId
      /\ a.status >= 400 /\ ~IsHealth => a.content \in {"problem", "none"}
  <2>1. /\ a \in Answer /\ a.headers = {} /\ a.status = status
        /\ a.content = "problem" => a.trace = CurrentTraceId
    BY <1>3, <1>4, HandlerAnswerIs
  <2>2. status >= 400 /\ endpoint.name # "HealthZ" => a.content = "problem"
    BY <1>3, <1>4, HandlerAnswerIs
  <2> HIDE DEF a
  <2> QED BY <2>1, <2>2, <1>5 DEF IsHealth
<1>7. ("www-authenticate" \in a.headers) <=> (a.status = 401 /\ user = Anonymous /\ ~ran')
  BY <1>2, <1>6
<1> HIDE DEF a
<1> QED BY <1>1, <1>2, <1>6, <1>7, RankIs, AnsweredInside DEF a

\* What the extractors answer.
LEMMA RejectedIs ==
    ASSUME WrapInv, NEW a \in Unreadable
    PROVE  \E status \in {400, 413, 415, 422, 500} : a = ApiError(status)
BY DEF Unreadable, Rejected

\* A layer's problem document challenges nobody it knows, ...
LEMMA ErrorInside ==
    ASSUME WrapInv, NEW x, At(x), NEW status \in Nat, Answered(ApiError(status)),
           IsMonolith => Rank[x] >= 7, UNCHANGED <<endpoint, scope, user, counted, ran>>,
           status = 401 => user = Anonymous
    PROVE  WrapInv'
<1> DEFINE a == ApiError(status)
<1>1. scope \in Traces /\ ~ran
  BY DEF WrapInv, Told, At
<1>2. /\ a \in Answer /\ a.status = status /\ a.content = "problem" /\ a.trace = CurrentTraceId
      /\ a.headers = IF status = 401 THEN {"www-authenticate"} ELSE {}
  BY <1>1, ApiErrorIs
<1>3. ("www-authenticate" \in a.headers) <=> (a.status = 401 /\ user = Anonymous /\ ~ran')
  BY <1>1, <1>2
<1> HIDE DEF a
<1> QED BY <1>2, <1>3, AnsweredInside DEF a

\* ... and its bodiless answer challenges nobody.
LEMMA BareInside ==
    ASSUME WrapInv, NEW x, At(x), NEW status \in Nat \ {401}, Answered(Bare(status)),
           IsMonolith => Rank[x] >= 7, UNCHANGED <<endpoint, scope, user, counted, ran>>
    PROVE  WrapInv'
<1> DEFINE a == Bare(status)
<1>1. /\ a \in Answer /\ a.status = status /\ a.content = "none" /\ a.headers = {}
  BY BareIs
<1> HIDE DEF a
<1> QED BY <1>1, AnsweredInside DEF a

\* The layers of a route answer only with a caller they refuse.
LEMMA RefusalsAre ==
    ASSUME NEW policies, NEW status \in Refusals(policies)
    PROVE  /\ status \in {401, 403, 500}
           /\ status = 401 <=> user = Anonymous
BY DEF Refusals

-----------------------------------------------------------------------------
(* Pipeline: every answer is wrapped *)

\* At first.
LEMMA WrapInit == PipelineInit => WrapInv
<1> SUFFICES ASSUME PipelineInit PROVE WrapInv
  OBVIOUS
<1>1. InOrder(entered) /\ InOrder(todo) /\ Range(entered) = {}
  BY InOrderNone DEF PipelineInit
<1>2. Placed
  BY <1>1 DEF PipelineInit, Placed, Idle
<1>3. Told
  BY <1>1 DEF PipelineInit, Told, Traces, On
<1> QED BY <1>2, <1>3 DEF WrapInv

\* By every step.
LEMMA WrapStep == WrapInv /\ [PipelineNext]_pipelineVars => WrapInv'
<1> SUFFICES ASSUME WrapInv, [PipelineNext]_pipelineVars PROVE WrapInv'
  OBVIOUS
<1> USE RankIs
<1>1. CASE Receive
  <2>1. Placed' /\ way' = "in" /\ way = "idle" /\ Idle
    BY <1>1, Receiving DEF WrapInv, Receive, Placed
  <2>2. UNCHANGED <<host, entered, scope, answer, ran, counted>>
    BY <1>1 DEF Receive
  <2>3. Range(entered') = {}
    BY <2>1, <2>2, InOrderNone DEF Idle
  <2>4. Told'
    BY <2>1, <2>2, <2>3 DEF WrapInv, Told, Idle, On
  <2> QED BY <2>1, <2>4 DEF WrapInv
<1>2. CASE RequestId
  BY <1>2, EnteredInside DEF RequestId, Caller
<1>3. CASE Wrap
  <2>1. PICK x \in {"hsts", "catch_panic", "status_code_pages", "json_charset",
                    "security_headers", "metrics", "validator"} : At(x)
    BY <1>3 DEF Wrap
  <2> QED BY <1>3, <2>1, EnteredInside DEF Wrap
<1>4. CASE Cors
  BY <1>4, EnteredInside, BareInside DEF Cors
<1>5. CASE Authenticate
  BY <1>5, EnteredInside DEF Authenticate
<1>6. CASE Route
  <2>1. Placed'
    BY <1>6, Routing DEF WrapInv
  <2>2. UNCHANGED <<host, request, way, entered, scope, user, left, answer, ran, counted>> /\ way = "in"
    BY <1>6 DEF Route, At
  <2>3. Told'
    BY <2>2 DEF WrapInv, Told, On, IsMonolith, Caller
  <2> QED BY <2>1, <2>3 DEF WrapInv
<1>7. CASE Unrouted
  BY <1>7, BareInside, ErrorInside DEF Unrouted
<1>8. CASE EnforceConstraints
  BY <1>8, EnteredInside, ErrorInside DEF EnforceConstraints
<1>9. CASE RateLimit
  BY <1>9, EnteredInside, BareInside DEF RateLimit
<1>10. CASE Authorize
  <2>1. CASE Entered
    BY <1>10, <2>1, EnteredInside DEF Authorize
  <2>2. CASE \E status \in Refusals(endpoint.policies) : Answered(ApiError(status))
    <3>1. PICK status \in Refusals(endpoint.policies) : Answered(ApiError(status))
      BY <2>2
    <3>2. status \in Nat /\ (status = 401 => user = Anonymous)
      BY RefusalsAre
    <3> QED BY <1>10, <3>1, <3>2, ErrorInside DEF Authorize
  <2> QED BY <1>10, <2>1, <2>2 DEF Authorize
<1>11. CASE Extract
  <2>1. PICK a \in Unreadable : Answered(a)
    BY <1>11 DEF Extract
  <2>2. PICK status \in {400, 413, 415, 422, 500} : a = ApiError(status)
    BY RejectedIs
  <2> QED BY <1>11, <2>1, <2>2, ErrorInside DEF Extract
<1>12. CASE Handle
  BY <1>12, HandleInside
<1>13. CASE Panic
  <2>1. Placed' /\ At("handler") /\ way' = "panic" /\ ran'
        /\ UNCHANGED <<host, request, entered, endpoint, scope, user, left, answer, counted>>
    BY <1>13, Panicking DEF WrapInv, Panic
  <2>2. IsMonolith => On("catch_panic")
    BY <2>1, Turn, MonolithHas DEF WrapInv, On
  <2>3. Told'
    BY <2>1, <2>2 DEF WrapInv, Told, On, IsMonolith, Caller, At
  <2> QED BY <2>1, <2>3 DEF WrapInv
<1>14. CASE Leave
  BY <1>14, LeaveInside
<1>15. CASE Unwind
  BY <1>15, UnwindInside
<1>16. CASE Finish
  <2>1. /\ way' = "idle" /\ Idle' /\ UNCHANGED host /\ todo' = <<>>
    BY <1>16 DEF Finish, Finished, Idle, WrapInv, Placed, Told
  <2>2. Range(entered') = {} /\ InOrder(entered') /\ InOrder(todo') /\ endpoint' = None
        /\ UNCHANGED scope
    BY <1>16, <2>1, InOrderNone DEF Idle, Finish
  <2>3. Placed'
    BY <2>1, <2>2 DEF WrapInv, Placed
  <2>4. Told'
    BY <2>1, <2>2 DEF WrapInv, Told, On
  <2> QED BY <2>3, <2>4 DEF WrapInv
<1>17. CASE UNCHANGED pipelineVars
  <2> USE <1>17 DEF pipelineVars
  <2>1. Whole' = Whole /\ Idle' = Idle /\ Caller' = Caller /\ IsHealth' = IsHealth
    BY DEF Whole, Idle, Caller, IsHealth
  <2>2. Placed'
    BY <2>1 DEF WrapInv, Placed
  <2>3. Wrapped' = Wrapped
    BY <2>1 DEF Wrapped, On
  <2>4. Told'
    BY <2>1, <2>3 DEF WrapInv, Told, On, IsMonolith
  <2> QED BY <2>2, <2>4 DEF WrapInv
<1> QED BY <1>1, <1>2, <1>3, <1>4, <1>5, <1>6, <1>7, <1>8, <1>9, <1>10, <1>11, <1>12, <1>13, <1>14,
           <1>15, <1>16, <1>17 DEF PipelineNext

\* Whatever layer, handler or panic answered on the monolith, every answer leaves
\* with the request's one trace in its header and in its problem document, with
\* a charset on its JSON and with the security headers, but for a panic's; and
\* only authorization challenges: the order of app.rs's layers, for any requests.
THEOREM AlwaysWrapped == PipelineSpec => []EveryAnswerIsWrapped
<1>1. WrapInv => EveryAnswerIsWrapped
  <2> SUFFICES ASSUME WrapInv, Finished, IsMonolith PROVE EveryAnswerIsWrapped
    BY DEF EveryAnswerIsWrapped
  <2>1. \A x : ~On(x)
    BY InOrderNone DEF Finished, On
  <2>2. way = "out" /\ answer \in Answer /\ Wrapped
    BY <2>1 DEF WrapInv, Told, Finished
  <2> QED BY <2>1, <2>2, NoneIsNoAnswer DEF EveryAnswerIsWrapped, Wrapped, Caller, IsHealth
<1> QED BY <1>1, WrapInit, WrapStep, PTL DEF PipelineSpec

-----------------------------------------------------------------------------
(* Pipeline: who is let through *)

\* A route has taken the request, constraints and all.
Routable == endpoint # None /\ Accepted(endpoint, request.path)

\* The user is nobody, or the one the request's token is about.
Bearing == user = Anonymous \/ (user = IntoUser(request.token.claims) /\ Validate(request.token))

\* Every policy of the endpoint allows the caller.
Allowed == \A policy \in Range(endpoint.policies) : Evaluate(policy, user, request.tenant) = "allowed"

\* A login the host is configured with, by its last usable record.
KnownLogin ==
    /\ host.environment # "Production"
    /\ \E i \in DOMAIN InMemoryUsers :
          /\ InMemoryUsers[i].password = request.credentials.password
          /\ LoginName(InMemoryUsers[i]) = ToLowercase(request.credentials.username)
          /\ \A j \in DOMAIN InMemoryUsers :
                j > i /\ LoginName(InMemoryUsers[j]) = LoginName(InMemoryUsers[i])
                  => ~IsUsable(InMemoryUsers[j])

\* What OnlyTheEntitledRun wants of a handler that was called.
Run ==
    /\ Routable
    /\ endpoint.authorized => user # Anonymous
    /\ Allowed
    /\ endpoint.validates => request.body = "valid"

\* What an answer tells of who asked.
Justified ==
    /\ answer.status \in {401, 403} /\ ~ran => Routable /\ (RateLimited(endpoint) => left = 0)
    /\ ~Routable => answer.status \in {200, 404, 405}
    /\ ran /\ endpoint.name = "IdentityLogout" /\ answer.status = 204 =>
          request.token.claims.sub = request.credentials.userId
    /\ ran /\ endpoint.name = "IdentityLogin" /\ answer.status = 200 => KnownLogin

\* What the layers around the request have seen to.
Entitled ==
    /\ left \in {0, 1}
    /\ way # "idle" => Bearing
    /\ \A x \in Range(entered) : Rank[x] > 9 => Routable
    /\ way = "in" /\ On("rate_limit") => left = 0
    /\ way = "in" /\ On("authorize") => user # Anonymous /\ Allowed
    /\ ran => Run
    /\ counted # None => Routable
    /\ way = "out" => Justified

\* The inductive invariant of OnlyTheEntitledRun.
PassInv == WrapInv /\ Entitled

\* All of it but the answer's part says nothing of the way out.
Standing == <<host, request, endpoint, user, left, ran>>

\* So what is said of these lasts while they do.
LEMMA StandingKeeps ==
    ASSUME UNCHANGED Standing
    PROVE  /\ Routable' = Routable /\ Bearing' = Bearing /\ Allowed' = Allowed /\ Run' = Run
           /\ KnownLogin' = KnownLogin
BY DEF Standing, Routable, Bearing, Allowed, Run, KnownLogin, Accepted

\* At a layer of the route, the constraints have been met.
LEMMA Constrained ==
    ASSUME PassInv, NEW x, At(x), Rank[x] > 10
    PROVE  Routable
<1>1. endpoint # None /\ x \in Around(endpoint) /\ x \in Whole
  <2>1. x \in Whole /\ Rank[x] > 9
    BY Turn, WholeIs, Ranks DEF PassInv, WrapInv
  <2> QED BY <2>1, WholeIs
<1>2. CASE Constraints(endpoint.path) = {}
  BY <1>1, <1>2 DEF Routable, Accepted
<1>3. CASE Constraints(endpoint.path) # {}
  <2>1. "constraints" \in Whole
    BY <1>1, <1>3 DEF Whole, Around
  <2>2. "constraints" \in Range(entered)
    BY <2>1, Turn, RankIs DEF PassInv, WrapInv
  <2> QED BY <2>2, RankIs DEF PassInv, Entitled
<1> QED BY <1>2, <1>3

\* A layer is entered only when it has seen to what it is for.
LEMMA EnteredRight ==
    ASSUME PassInv, WrapInv', NEW x, At(x), Entered,
           UNCHANGED <<endpoint, ran, counted>>,
           \/ UNCHANGED <<user, left>> /\ x \notin {"rate_limit", "authorize"}
           \/ UNCHANGED user /\ x = "rate_limit" /\ left' = 0
           \/ UNCHANGED <<user, left>> /\ x = "authorize" /\ user # Anonymous /\ Allowed
           \/ UNCHANGED left /\ x = "authenticate" /\ Bearing',
           Rank[x] > 9 => Routable
    PROVE  PassInv'
<1>1. /\ Range(entered)' = Range(entered) \cup {x} /\ way' = "in" /\ way = "in"
      /\ UNCHANGED <<host, request, answer>>
  BY Entering DEF PassInv, WrapInv
<1>2. ~ran /\ ~ran' /\ counted' = None
  BY <1>1 DEF PassInv, WrapInv, Told
<1>3. Routable' = Routable
  BY <1>1 DEF Routable, Accepted
<1>4. left' \in {0, 1} /\ Bearing'
  BY <1>1 DEF PassInv, Entitled, Bearing
<1>5. On("rate_limit")' => left' = 0
  BY <1>1 DEF PassInv, Entitled, On
<1>6. On("authorize")' => user' # Anonymous /\ Allowed'
  <2>1. CASE x = "authenticate"
    <3>1. ~On("authorize")
      <4>1. x \in Layers /\ \A y \in Range(entered) : y \in Whole
        BY Turn DEF PassInv, WrapInv, Placed
      <4>2. \A y \in Range(entered) : Rank[y] < Rank[x]
        BY <4>1, Turn DEF PassInv, WrapInv
      <4> QED BY <4>2, <2>1, RankIs DEF On
    <3> QED BY <3>1, <2>1, <1>1 DEF On
  <2>2. CASE x # "authenticate"
    <3>1. UNCHANGED user
      BY <2>2
    <3>2. Allowed' = Allowed
      BY <3>1, <1>1 DEF Allowed
    <3> QED BY <3>1, <3>2, <2>2, <1>1 DEF PassInv, Entitled, On
  <2> QED BY <2>1, <2>2
<1>7. \A y \in Range(entered)' : Rank[y] > 9 => Routable'
  BY <1>1, <1>3 DEF PassInv, Entitled
<1> QED BY <1>1, <1>2, <1>4, <1>5, <1>6, <1>7 DEF PassInv, Entitled

\* An answer needs to be justified.
LEMMA AnsweredRight ==
    ASSUME PassInv, WrapInv', NEW x, At(x), NEW a, Answered(a), UNCHANGED <<endpoint, user, left, counted>>,
           ran' => Run, Justified'
    PROVE  PassInv'
<1>1. way' = "out" /\ way = "in" /\ UNCHANGED <<host, request, entered>>
  BY DEF Answered, At
<1>2. Routable' = Routable /\ Bearing' = Bearing /\ Run' = Run
  BY <1>1 DEF Routable, Bearing, Run, Allowed, Accepted
<1> QED BY <1>1, <1>2 DEF PassInv, Entitled

\* Before the handler, an answer that refuses nobody needs no justification.
LEMMA AnsweredEarly ==
    ASSUME PassInv, WrapInv', NEW x, At(x), NEW a, Answered(a), UNCHANGED <<endpoint, user, left, counted, ran>>,
           a.status \notin {401, 403} \/ (Routable /\ (RateLimited(endpoint) => left = 0)),
           a.status \in {200, 404, 405} \/ Routable
    PROVE  PassInv'
<1>1. way' = "out" /\ way = "in" /\ answer' = a /\ UNCHANGED <<host, request, entered>>
  BY DEF Answered, At
<1>2. ~ran /\ ~ran'
  BY <1>1 DEF PassInv, WrapInv, Told
<1>3. Routable' = Routable
  BY <1>1 DEF Routable, Accepted
<1>4. Justified'
  BY <1>1, <1>2, <1>3 DEF Justified
<1> QED BY <1>2, <1>4, AnsweredRight

-----------------------------------------------------------------------------
(* Pipeline: the login *)

\* A set of positions has a last one.
LEMMA MaxIs ==
    ASSUME NEW n \in Nat, NEW S \in SUBSET (1..n), S # {}
    PROVE  Max(S) \in S /\ \A y \in S : Max(S) >= y
<1> DEFINE T == {n - y : y \in S}
<1>1. T \subseteq Nat /\ T # {}
  <2>1. \A y \in S : y \in 1..n /\ n - y \in Nat
    OBVIOUS
  <2>2. PICK y \in S : TRUE
    OBVIOUS
  <2>3. n - y \in T
    BY <2>2
  <2> QED BY <2>1, <2>3
<1>2. PICK t \in T : \A u \in T : t <= u
  <2> HIDE DEF T
  <2> QED BY <1>1, LeastNatural
<1>3. PICK x \in S : t = n - x
  BY <1>2
<1>4. \A y \in S : x >= y
  <2> SUFFICES ASSUME NEW y \in S PROVE x >= y
    OBVIOUS
  <2>1. n - x <= n - y
    BY <1>2, <1>3
  <2> QED BY <2>1
<1> QED BY <1>3, <1>4 DEF Max

\* A host that finds a login by its password has it configured.
LEMMA LoginIsKnown ==
    ASSUME endpoint.name = "IdentityLogin", Found # {}
    PROVE  KnownLogin
<1> DEFINE store == UserStore(host.environment, InMemoryUsers)
           usable == {i \in DOMAIN InMemoryUsers : IsUsable(InMemoryUsers[i])}
           name == ToLowercase(request.credentials.username)
           named == {i \in usable : LoginName(InMemoryUsers[i]) = name}
<1>1. name \in DOMAIN store /\ store[name].password = request.credentials.password
  BY DEF Found, ValidateCredentials
<1>2. ExposesOperationalMetadata(host.environment)
  <2>1. SUFFICES ASSUME ~ExposesOperationalMetadata(host.environment) PROVE FALSE
    OBVIOUS
  <2>2. store = FromRecords(<<>>)
    BY <2>1 DEF UserStore, Disabled
  <2>3. DOMAIN store = {}
    BY <2>2 DEF FromRecords
  <2> QED BY <1>1, <2>3
<1>3. store = FromRecords(InMemoryUsers)
  BY <1>2 DEF UserStore
<1>4. /\ name \in {LoginName(InMemoryUsers[i]) : i \in usable}
      /\ store[name] = Loaded(InMemoryUsers[Max(named)])
  BY <1>1, <1>3 DEF FromRecords
<1>5. named # {} /\ named \in SUBSET (1..Len(InMemoryUsers)) /\ Len(InMemoryUsers) \in Nat
  BY <1>4, PipelineAssumption
<1>6. Max(named) \in named /\ \A j \in named : Max(named) >= j
  BY <1>5, MaxIs
<1>7. InMemoryUsers[Max(named)].password = request.credentials.password
  BY <1>1, <1>4 DEF Loaded
<1>8. host.environment # "Production"
  BY <1>2 DEF ExposesOperationalMetadata
<1>9. \A j \in DOMAIN InMemoryUsers :
          j > Max(named) /\ LoginName(InMemoryUsers[j]) = LoginName(InMemoryUsers[Max(named)])
            => ~IsUsable(InMemoryUsers[j])
  <2> SUFFICES ASSUME NEW j \in DOMAIN InMemoryUsers, j > Max(named),
                      LoginName(InMemoryUsers[j]) = LoginName(InMemoryUsers[Max(named)]),
                      IsUsable(InMemoryUsers[j])
               PROVE  FALSE
    OBVIOUS
  <2>1. j \in named
    BY <1>6
  <2> HIDE DEF named
  <2> QED BY <2>1, <1>5, <1>6
<1> QED BY <1>6, <1>7, <1>8, <1>9 DEF KnownLogin

-----------------------------------------------------------------------------
(* Pipeline: handlers *)

\* Refusing nobody is allowing everybody.
LEMMA RefusalsNone ==
    ASSUME NEW policies, Refusals(policies) = {}
    PROVE  /\ user # Anonymous
           /\ \A policy \in Range(policies) : Evaluate(policy, user, request.tenant) = "allowed"
<1>1. user # Anonymous
  BY DEF Refusals
<1>2. \A i \in DOMAIN policies : Evaluate(policies[i], user, request.tenant) = "allowed"
  <2> SUFFICES ASSUME NEW i \in DOMAIN policies,
                      Evaluate(policies[i], user, request.tenant) # "allowed"
               PROVE  Refusals(policies) # {}
    OBVIOUS
  <2> DEFINE refusing == {j \in DOMAIN policies :
                             Evaluate(policies[j], user, request.tenant) # "allowed"}
  <2>1. refusing # {}
    OBVIOUS
  <2>2. Refusals(policies) =
          {IF Evaluate(policies[Min(refusing)], user, request.tenant) = "denied" THEN 403 ELSE 500}
    BY <1>1, <2>1 DEF Refusals
  <2> QED BY <2>2
<1> QED BY <1>1, <1>2 DEF Range

\* A handler's turn is after every layer that lets through.
LEMMA HandlerTurn ==
    ASSUME PassInv, At("handler"), Unreadable = {}
    PROVE  /\ endpoint # None /\ Guarded(endpoint) /\ request \in Incoming
           /\ Routable /\ Bearing
           /\ endpoint.authorized => user # Anonymous
           /\ Allowed
           /\ endpoint.validates => request.body = "valid"
           /\ RateLimited(endpoint) => left = 0
<1> USE RankIs
<1>1. /\ "handler" \in Whole /\ request \in Incoming /\ way = "in"
      /\ \A y \in Whole : Rank[y] < 15 => On(y)
  BY Turn DEF PassInv, WrapInv, On, At
<1>2. /\ endpoint # None /\ "handler" \in Around(endpoint)
      /\ Whole = Host(host) \cup Around(endpoint)
  BY <1>1, WholeIs
<1>3. Guarded(endpoint)
  BY <1>2, ServedGuarded DEF PassInv, WrapInv, Placed
<1>4. Routable
  BY Constrained
<1>5. Bearing
  BY <1>1 DEF PassInv, Entitled
<1>6. endpoint.authorized => user # Anonymous /\ Allowed
  <2> SUFFICES ASSUME endpoint.authorized PROVE user # Anonymous /\ Allowed
    OBVIOUS
  <2>1. "authorize" \in Around(endpoint)
    BY DEF Around
  <2> QED BY <2>1, <1>1, <1>2 DEF PassInv, Entitled
<1>7. ~endpoint.authorized => Allowed
  <2> SUFFICES ASSUME ~endpoint.authorized PROVE Allowed
    OBVIOUS
  <2>1. Range(endpoint.policies) = {}
    BY <1>3, InOrderNone DEF Guarded
  <2> QED BY <2>1 DEF Allowed
<1>8. RateLimited(endpoint) => left = 0
  <2> SUFFICES ASSUME RateLimited(endpoint) PROVE left = 0
    OBVIOUS
  <2>1. "rate_limit" \in Around(endpoint)
    BY DEF Around
  <2> QED BY <2>1, <1>1, <1>2 DEF PassInv, Entitled
<1>9. endpoint.validates => request.body = "valid"
  <2> SUFFICES ASSUME endpoint.validates PROVE request.body = "valid"
    OBVIOUS
  <2>1. Rejected(request.body) = {}
    BY DEF Unreadable
  <2>2. request.body \in {"valid", "invalid", "garbled", "untyped", "mistyped", "large"}
    BY <1>1, PipelineAssumption
  <2> QED BY <2>1, <2>2 DEF Rejected
<1> QED BY <1>1, <1>2, <1>3, <1>4, <1>5, <1>6, <1>7, <1>8, <1>9

\* A handler called is a handler entitled, and its answer tells no lie of a login
\* or a logout.
LEMMA HandleRight ==
    ASSUME PassInv, WrapInv', Handle
    PROVE  PassInv'
<1>1. PICK status \in Decided : Answered(HandlerAnswer(endpoint, status))
  BY DEF Handle
<1> DEFINE a == HandlerAnswer(endpoint, status)
<1>2. At("handler") /\ Unreadable = {} /\ ran' /\ UNCHANGED <<endpoint, scope, user, left, counted>>
  BY DEF Handle
<1>3. status \in Answers(endpoint) /\ status \in Nat
  BY AnswersAre DEF Decided, Statuses
<1>4. a.status = status
  BY <1>3, HandlerAnswerIs DEF PassInv, WrapInv, Told
<1>5. answer' = a /\ UNCHANGED <<host, request, endpoint, user, left>>
  BY <1>1, <1>2 DEF Answered
<1> HIDE DEF a
<1>6. Run
  BY <1>2, HandlerTurn DEF Run
<1>7. Run' /\ Routable' /\ KnownLogin' = KnownLogin
  BY <1>5, <1>6 DEF Run, Routable, Accepted, Allowed, KnownLogin
<1>8. endpoint.name = "IdentityLogout" /\ status = 204
        => request.token.claims.sub = request.credentials.userId
  <2> SUFFICES ASSUME endpoint.name = "IdentityLogout", status = 204
               PROVE  request.token.claims.sub = request.credentials.userId
    OBVIOUS
  <2>1. user.subject = request.credentials.userId
    BY <1>1 DEF Decided
  <2>2. user # Anonymous /\ Bearing
    BY <1>2, HandlerTurn DEF Guarded
  <2>3. user = IntoUser(request.token.claims)
    BY <2>2 DEF Bearing
  <2> QED BY <2>1, <2>3 DEF IntoUser
<1>9. endpoint.name = "IdentityLogin" /\ status = 200 => KnownLogin
  <2> SUFFICES ASSUME endpoint.name = "IdentityLogin", status = 200 PROVE KnownLogin
    OBVIOUS
  <2>1. Found # {}
    BY <1>1 DEF Decided
  <2> QED BY <2>1, LoginIsKnown
<1>10. Justified'
  BY <1>2, <1>4, <1>5, <1>7, <1>8, <1>9 DEF Justified
<1>11. Answered(a) /\ UNCHANGED <<endpoint, user, left, counted>>
  BY <1>1, <1>2 DEF a
<1> QED BY <1>2, <1>6, <1>10, <1>11, AnsweredRight

-----------------------------------------------------------------------------
(* Pipeline: outward *)

\* A request that has come to a layer of its route, or past one, was routable.
LEMMA LeaveRight ==
    ASSUME PassInv, WrapInv', Leave
    PROVE  PassInv'
<1> DEFINE layer == Last(entered)
<1>1. /\ way = "out" /\ way' = "out" /\ entered # <<>> /\ Leaving(layer)
      /\ answer' = Passed(layer, answer)
      /\ counted' = IF layer = "metrics" THEN answer.status ELSE counted
  BY DEF Leave
<1>2. /\ On(layer) /\ layer \in Layers
      /\ Range(entered)' = Range(entered) \ {layer}
      /\ UNCHANGED <<host, request, endpoint, user, left, ran>>
  BY <1>1, Outward DEF PassInv, WrapInv
<1> HIDE DEF layer
<1>3. answer'.status = answer.status
  BY <1>1, <1>2, PassedIs DEF PassInv, WrapInv, Told
<1>4. /\ Routable' = Routable /\ Bearing' = Bearing /\ Run' = Run /\ KnownLogin' = KnownLogin
  BY <1>2, StandingKeeps DEF Standing
<1>5. counted' # None => Routable
  BY <1>1, <1>2, RankIs DEF PassInv, Entitled, On
<1>6. Justified'
  <2>1. Justified
    BY <1>1 DEF PassInv, Entitled
  <2> QED BY <2>1, <1>2, <1>3, <1>4 DEF Justified
<1>7. \A x \in Range(entered)' : Rank[x] > 9 => Routable'
  BY <1>2, <1>4 DEF PassInv, Entitled
<1>8. left' \in {0, 1} /\ Bearing' /\ (ran' => Run') /\ (counted' # None => Routable')
  BY <1>1, <1>2, <1>4, <1>5 DEF PassInv, Entitled
<1> QED BY <1>1, <1>6, <1>7, <1>8 DEF PassInv, Entitled

\* A panic is an entitled handler's.
LEMMA UnwindRight ==
    ASSUME PassInv, WrapInv', Unwind
    PROVE  PassInv'
<1> DEFINE layer == Last(entered)
<1>1. /\ way = "panic" /\ way' \in {"out", "panic"} /\ entered # <<>> /\ Leaving(layer)
      /\ layer = "catch_panic" => answer' = ProblemDetails(500)
      /\ layer # "catch_panic" => way' = "panic"
      /\ UNCHANGED counted
  BY DEF Unwind
<1>2. /\ On(layer) /\ layer \in Layers
      /\ Range(entered)' = Range(entered) \ {layer}
      /\ UNCHANGED <<host, request, endpoint, user, left, ran>>
  BY <1>1, Outward DEF PassInv, WrapInv
<1> HIDE DEF layer
<1>3. /\ Routable' = Routable /\ Bearing' = Bearing /\ Run' = Run
  BY <1>2, StandingKeeps DEF Standing
<1>4. ran /\ Routable
  BY <1>1 DEF PassInv, WrapInv, Told, Entitled, Run
<1>5. way' = "out" => answer'.status = 500
  BY <1>1, ProblemIs DEF PassInv, WrapInv, Told
<1>6. way' = "out" => Justified'
  BY <1>2, <1>3, <1>4, <1>5 DEF Justified
<1> QED BY <1>1, <1>2, <1>3, <1>6 DEF PassInv, Entitled

-----------------------------------------------------------------------------
(* Pipeline: only the entitled run *)

\* At first.
LEMMA PassInit == PipelineInit => PassInv
<1> SUFFICES ASSUME PipelineInit PROVE PassInv
  OBVIOUS
<1>1. WrapInv
  BY WrapInit
<1>2. Range(entered) = {}
  BY InOrderNone DEF PipelineInit
<1> QED BY <1>1, <1>2 DEF PipelineInit, PassInv, Entitled

\* By every step.
LEMMA PassStep == PassInv /\ [PipelineNext]_pipelineVars => PassInv'
<1> SUFFICES ASSUME PassInv, [PipelineNext]_pipelineVars PROVE PassInv'
  OBVIOUS
<1> USE RankIs
<1>0. WrapInv'
  BY WrapStep DEF PassInv
<1>1. CASE Receive
  <2>1. /\ way = "idle" /\ Idle /\ way' = "in" /\ left' \in {0, 1}
        /\ UNCHANGED <<host, entered, endpoint, user, answer, ran, counted>>
    BY <1>1 DEF Receive, PassInv, WrapInv, Placed
  <2>2. Range(entered') = {} /\ user' = Anonymous /\ ~ran' /\ counted' = None
    BY <2>1, InOrderNone DEF Idle
  <2> QED BY <1>0, <2>1, <2>2 DEF PassInv, Entitled, Bearing, On
<1>2. CASE RequestId
  BY <1>0, <1>2, EnteredRight DEF RequestId
<1>3. CASE Wrap
  <2>1. PICK x \in {"hsts", "catch_panic", "status_code_pages", "json_charset",
                    "security_headers", "metrics", "validator"} : At(x)
    BY <1>3 DEF Wrap
  <2>2. Rank[x] > 9 => Rank[x] > 10
    BY DEF Rank
  <2>3. Rank[x] > 9 => Routable
    BY <2>1, <2>2, Constrained
  <2> QED BY <1>0, <1>3, <2>1, <2>3, EnteredRight DEF Wrap
<1>4. CASE Cors
  <2>1. CASE Entered
    BY <1>0, <1>4, <2>1, EnteredRight DEF Cors
  <2>2. CASE Answered(Bare(200))
    BY <1>0, <1>4, <2>2, AnsweredEarly, BareIs DEF Cors
  <2> QED BY <1>4, <2>1, <2>2 DEF Cors
<1>5. CASE Authenticate
  <2>1. At("authenticate") /\ Entered /\ UNCHANGED <<endpoint, left, ran, counted>>
        /\ user' = Authenticated(request.scheme, request.token)
    BY <1>5 DEF Authenticate
  <2>2. UNCHANGED request
    BY <2>1 DEF Entered
  <2>3. Bearing'
    BY <2>1, <2>2 DEF Bearing, Authenticated, ValidateRemotely
  <2> QED BY <1>0, <2>1, <2>3, EnteredRight
<1>6. CASE Route
  <2>1. UNCHANGED <<host, request, way, entered, scope, user, left, answer, ran, counted>> /\ way = "in"
        /\ At("routing")
    BY <1>6 DEF Route, At
  <2>2. ~ran /\ counted = None /\ Range(entered)' = Range(entered)
    BY <2>1 DEF PassInv, WrapInv, Told
  <2>3. \A y \in Range(entered) : Rank[y] < 9
    <3>1. \A y \in Range(entered) : y \in Whole
      BY DEF PassInv, WrapInv, Placed
    <3> QED BY <3>1, <2>1, Turn DEF PassInv, WrapInv
  <2>4. Bearing' = Bearing
    BY <2>1 DEF Bearing
  <2>5. \A y \in Range(entered) : ~ Rank[y] > 9
    <3> SUFFICES ASSUME NEW y \in Range(entered) PROVE ~ Rank[y] > 9
      OBVIOUS
    <3>1. y \in Layers
      BY WholeIs DEF PassInv, WrapInv, Placed
    <3> QED BY <3>1, <2>3, Ranks
  <2>6. ~On("rate_limit") /\ ~On("authorize")
    BY <2>5 DEF On
  <2>7. ~On("rate_limit")' /\ ~On("authorize")'
    BY <2>1, <2>6 DEF On
  <2> QED BY <1>0, <2>1, <2>2, <2>4, <2>5, <2>7 DEF PassInv, Entitled
<1>7. CASE Unrouted
  <2>1. PICK status \in {404, 405} : Answered(Bare(status)) \/ Answered(ApiError(status))
    BY <1>7 DEF Unrouted
  <2>2. Bare(status).status = status /\ ApiError(status).status = status
    BY <2>1, BareIs, ApiErrorIs DEF PassInv, WrapInv, Told
  <2> QED BY <1>0, <1>7, <2>1, <2>2, AnsweredEarly DEF Unrouted
<1>8. CASE EnforceConstraints
  <2>1. At("constraints") /\ endpoint # None
    BY <1>8, Turn, WholeIs DEF EnforceConstraints, PassInv, WrapInv
  <2>2. CASE Accepted(endpoint, request.path) /\ Entered
    BY <1>0, <1>8, <2>1, <2>2, EnteredRight DEF EnforceConstraints, Routable
  <2>3. CASE Answered(ApiError(404))
    <3>1. ApiError(404).status = 404
      BY ApiErrorIs DEF PassInv, WrapInv, Told
    <3> QED BY <1>0, <1>8, <2>3, <3>1, AnsweredEarly DEF EnforceConstraints
  <2> QED BY <1>8, <2>2, <2>3 DEF EnforceConstraints
<1>9. CASE RateLimit
  <2>1. At("rate_limit") /\ Routable
    BY <1>9, Constrained DEF RateLimit
  <2>2. CASE Entered
    <3>1. left' = 0 /\ UNCHANGED <<endpoint, user, ran, counted>>
      <4>1. left \in {0, 1}
        BY DEF PassInv, Entitled
      <4>2. ~ Answered(Bare(429))
        BY <2>1, <2>2 DEF Answered, Entered, At
      <4> QED BY <1>9, <4>1, <4>2 DEF RateLimit
    <3> QED BY <1>0, <2>1, <2>2, <3>1, EnteredRight
  <2>3. CASE Answered(Bare(429)) /\ UNCHANGED left
    BY <1>0, <1>9, <2>1, <2>3, AnsweredEarly, BareIs DEF RateLimit
  <2> QED BY <1>9, <2>2, <2>3 DEF RateLimit
<1>10. CASE Authorize
  <2>1. At("authorize") /\ Routable /\ UNCHANGED <<endpoint, user, left, ran, counted>>
    BY <1>10, Constrained DEF Authorize
  <2>2. CASE Refusals(endpoint.policies) = {} /\ Entered
    <3>1. user # Anonymous /\ Allowed
      BY <2>2, RefusalsNone DEF Allowed
    <3> QED BY <1>0, <2>1, <2>2, <3>1, EnteredRight
  <2>3. CASE \E status \in Refusals(endpoint.policies) : Answered(ApiError(status))
    <3>1. PICK status \in Refusals(endpoint.policies) : Answered(ApiError(status))
      BY <2>3
    <3>2. RateLimited(endpoint) => left = 0
      <4> SUFFICES ASSUME RateLimited(endpoint) PROVE left = 0
        OBVIOUS
      <4>1. "rate_limit" \in Whole
        <5>1. endpoint # None /\ "rate_limit" \in Around(endpoint)
          BY <2>1 DEF Around, Routable
        <5> QED BY <5>1, WholeIs
      <4>2. "rate_limit" \in Range(entered)
        BY <4>1, <2>1, Turn DEF PassInv, WrapInv
      <4>3. way = "in"
        BY <2>1 DEF At
      <4> QED BY <4>2, <4>3 DEF PassInv, Entitled, On
    <3> QED BY <1>0, <2>1, <3>1, <3>2, AnsweredEarly
  <2> QED BY <1>10, <2>2, <2>3 DEF Authorize
<1>11. CASE Extract
  <2>1. PICK a \in Unreadable : Answered(a)
    BY <1>11 DEF Extract
  <2>2. PICK status \in {400, 413, 415, 422, 500} : a = ApiError(status)
    BY RejectedIs DEF PassInv
  <2>3. a.status \notin {401, 403}
    BY <2>2, ApiErrorIs DEF PassInv, WrapInv, Told
  <2>4. At("handler") /\ Routable
    BY <1>11, Constrained DEF Extract
  <2> QED BY <1>0, <1>11, <2>1, <2>3, <2>4, AnsweredEarly DEF Extract
<1>12. CASE Handle
  BY <1>0, <1>12, HandleRight
<1>13. CASE Panic
  <2>1. /\ At("handler") /\ Unreadable = {} /\ way' = "panic" /\ ran'
        /\ UNCHANGED <<host, request, entered, endpoint, user, left, counted>>
    BY <1>13 DEF Panic
  <2>2. Run
    BY <2>1, HandlerTurn DEF Run
  <2>3. Run' /\ Routable' /\ Routable /\ Bearing' = Bearing
    BY <2>1, <2>2 DEF Run, Routable, Accepted, Allowed, Bearing
  <2>4. Bearing
    BY <2>1, HandlerTurn
  <2> QED BY <1>0, <2>1, <2>3, <2>4 DEF PassInv, Entitled
<1>14. CASE Leave
  BY <1>0, <1>14, LeaveRight
<1>15. CASE Unwind
  BY <1>0, <1>15, UnwindRight
<1>16. CASE Finish
  <2>1. way' = "idle" /\ left' = 0 /\ ~ran' /\ counted' = None /\ UNCHANGED entered /\ entered = <<>>
    BY <1>16 DEF Finish, Finished
  <2>2. Range(entered)' = {}
    BY <2>1, InOrderNone
  <2> QED BY <1>0, <2>1, <2>2 DEF PassInv, Entitled
<1>17. CASE UNCHANGED pipelineVars
  <2>1. UNCHANGED Standing /\ UNCHANGED <<way, entered, counted, answer>>
    BY <1>17 DEF pipelineVars, Standing
  <2>2. /\ Routable' = Routable /\ Bearing' = Bearing /\ Allowed' = Allowed /\ Run' = Run
        /\ KnownLogin' = KnownLogin
    BY <2>1, StandingKeeps
  <2>3. Justified' = Justified
    BY <2>1, <2>2 DEF Justified, Standing
  <2> QED BY <1>0, <2>1, <2>2, <2>3 DEF PassInv, Entitled, On, Standing
<1> QED BY <1>1, <1>2, <1>3, <1>4, <1>5, <1>6, <1>7, <1>8, <1>9, <1>10, <1>11, <1>12, <1>13, <1>14,
           <1>15, <1>16, <1>17 DEF PipelineNext

\* No handler runs before every layer of its route let the request through:
\* constraints, limiter, authentication, policies and validator, for any tokens
\* and bodies; nobody logs in to production, or elsewhere without the password
\* of the last usable record of the name; and a caller logs out only itself.
THEOREM OnlyEntitledRun == PipelineSpec => []OnlyTheEntitledRun
<1>1. PassInv => OnlyTheEntitledRun
  <2> SUFFICES ASSUME PassInv PROVE OnlyTheEntitledRun
    OBVIOUS
  <2>1. way # "idle" => Bearing
    BY DEF PassInv, Entitled
  <2>2. ran => way # "idle"
    BY DEF PassInv, WrapInv, Placed, Idle
  <2>3. Finished /\ answer # None => way = "out"
    BY DEF PassInv, WrapInv, Told, Finished
  <2>4. Finished /\ ~ran => way = "out"
    BY DEF PassInv, WrapInv, Told, Finished
  <2>5. way = "out" => Justified
    BY DEF PassInv, Entitled
  <2>6. ran => Run
    BY DEF PassInv, Entitled
  <2>7. counted # None => Routable
    BY DEF PassInv, Entitled
  <2>8. ran /\ endpoint.authorized =>
            LET claims == request.token.claims
            IN  /\ user # Anonymous /\ request.token.signed
                /\ claims.iss = "issuer" /\ "audience" \in claims.aud
                /\ claims.nbf - 30 <= 0 /\ 0 <= claims.exp + 30
    <3> SUFFICES ASSUME ran, endpoint.authorized
                 PROVE  LET claims == request.token.claims
                        IN  /\ user # Anonymous /\ request.token.signed
                            /\ claims.iss = "issuer" /\ "audience" \in claims.aud
                            /\ claims.nbf - 30 <= 0 /\ 0 <= claims.exp + 30
      OBVIOUS
    <3>1. user # Anonymous /\ Validate(request.token)
      BY <2>1, <2>2, <2>6 DEF Run, Bearing
    <3>2. request \in Incoming
      BY <2>2 DEF PassInv, WrapInv, Placed
    <3>3. request.token.claims.exp \in Int /\ request.token.claims.nbf \in Int
      BY <3>2, PipelineAssumption
    <3> QED BY <3>1, <3>3 DEF Validate, CLOCK_SKEW_SECONDS
  <2>9. ran => /\ Routable
               /\ \A policy \in Range(endpoint.policies) :
                     Evaluate(policy, user, request.tenant) = "allowed"
               /\ endpoint.validates => request.body = "valid"
    BY <2>6 DEF Run, Allowed
  <2>10. ~Routable => ~ran /\ counted = None
    BY <2>6, <2>7 DEF Run
  <2> QED BY <2>3, <2>4, <2>5, <2>8, <2>9, <2>10
          DEF OnlyTheEntitledRun, Routable, Justified, KnownLogin
<1> QED BY <1>1, PassInit, PassStep, PTL DEF PipelineSpec
=============================================================================
