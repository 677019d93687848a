---------------------------- MODULE RateLimiter ----------------------------
(***************************************************************************)
(* One policy's RateLimiter (shared-kernel/src/traffic_control.rs): a       *)
(* fixed window per partition, with a queue for the next window and a       *)
(* sweep of the windows that have closed.                                   *)
(*                                                                         *)
(* A request is one RateLimiter::acquire.  It reads the clock, sweeps if it *)
(* is time to, decides under the partition's lock, and sleeps until the     *)
(* window reopens if it has to wait; other requests run between these       *)
(* steps.  admit has no await, so no request stays inside it for a whole    *)
(* tick: the clock advances only when none is.  A request that sleeps is    *)
(* dropped when its client goes away.                                       *)
(*                                                                         *)
(* A definition named X_Something is X with a bug: replacing X by it breaks *)
(* a property below, which shows that the property depends on X.           *)
(***************************************************************************)
EXTENDS Integers, FiniteSets

CONSTANTS
    Requests,    \* the calls of acquire
    Partitions,  \* the callers' addresses
    PartitionOf, \* [Requests -> Partitions]
    Impatient,   \* the requests whose client may go away
    PermitLimit, QueueLimit, Window, \* RateLimitOptions, Window in ticks
    MaxTime      \* bound: the last tick

ASSUME RequestsAssumption ==
    /\ IsFiniteSet(Requests)
    /\ PartitionOf \in [Requests -> Partitions]
    /\ Impatient \subseteq Requests
ASSUME OptionsAssumption ==
    PermitLimit \in Nat /\ QueueLimit \in Nat /\ Window \in Nat \ {0}
ASSUME BoundAssumption == MaxTime \in Nat

VARIABLES
    time,      \* Instant::now()
    windows,   \* [Partitions -> the partition's entry, or Absent]
    lastSweep, \* last_sweep; -Window stands for None
    stage,     \* [Requests -> where the call stands]
    now,       \* [Requests -> the clock reading admit was called with]
    arrival,   \* [Requests -> {"New", "Queued"}]
    wake,      \* [Requests -> when it sleeps until]
    opened     \* [Partitions -> the instants its windows started], a record of
               \* what happened, for the properties to speak of

callVars == <<stage, now, arrival, wake>>
vars     == <<time, windows, lastSweep, callVars, opened>>

-----------------------------------------------------------------------------

Absent == [started |-> 0, used |-> 0, queued |-> 0, tracked |-> FALSE]

\* A tracked entry.  One that is not carries no information.
Entry(started, used, queued) ==
    [started |-> started, used |-> used, queued |-> queued, tracked |-> TRUE]

Init ==
    /\ time = 0
    /\ windows = [p \in Partitions |-> Absent]
    /\ lastSweep = -Window
    /\ stage = [r \in Requests |-> "new"]
    /\ now = [r \in Requests |-> 0]
    /\ arrival = [r \in Requests |-> "New"]
    /\ wake = [r \in Requests |-> 0]
    /\ opened = [p \in Partitions |-> {}]

\* The clock is read: for the first time, or on waking.
Call(r) ==
    /\ \/ stage[r] = "new" /\ UNCHANGED arrival
       \/ /\ stage[r] = "asleep" /\ time >= wake[r]
          /\ arrival' = [arrival EXCEPT ![r] = "Queued"]
    /\ now' = [now EXCEPT ![r] = time]
    /\ stage' = [stage EXCEPT ![r] = "called"]
    /\ UNCHANGED <<time, windows, lastSweep, wake, opened>>

\* sweep_if_due: one request per window claims the sweep.
ClaimSweep(r) ==
    /\ stage[r] = "called"
    /\ IF now[r] - lastSweep >= Window
       THEN /\ lastSweep' = now[r]
            /\ stage' = [stage EXCEPT ![r] = "sweeping"]
       ELSE /\ stage' = [stage EXCEPT ![r] = "deciding"]
            /\ UNCHANGED lastSweep
    /\ UNCHANGED <<time, windows, now, arrival, wake, opened>>

\* The window is taken for closed one tick early.
Kept_ClosedEarly(w, t) == w.queued > 0 \/ t - w.started < Window - 1

\* What retain keeps: a window somebody holds a place in, or one still open.
Kept(w, t) == w.queued > 0 \/ t - w.started < Window

\* sweep_closed_windows_as_of.
Sweep(r) ==
    /\ stage[r] = "sweeping"
    /\ windows' = [p \in Partitions |->
                     IF windows[p].tracked /\ Kept(windows[p], now[r])
                     THEN windows[p] ELSE Absent]
    /\ stage' = [stage EXCEPT ![r] = "deciding"]
    /\ UNCHANGED <<time, lastSweep, now, arrival, wake, opened>>

\* The entry admit works on: inserted if missing, started over if closed.
Current(r) ==
    LET w == windows[PartitionOf[r]]
    IN  IF ~ w.tracked THEN Entry(now[r], 0, 0)
        ELSE IF now[r] - w.started >= Window THEN Entry(now[r], 0, w.queued)
        ELSE w

\* A new arrival looks at the permits only.
Ahead_Nobody(r) == 0

\* waiting_ahead: those who wait go before a new arrival.
Ahead(r) == IF arrival[r] = "New" THEN Current(r).queued ELSE 0

\* A new arrival may queue; one that waited has its place already.
PlaceFree(r) == arrival[r] = "New" /\ Current(r).queued < QueueLimit

\* A request that waited keeps its place in the queue.
LeaveQueue_Stays(r) == Current(r).queued

\* saturating_sub, for a request that waited.
LeaveQueue(r) ==
    LET q == Current(r).queued
    IN  IF arrival[r] = "Queued" /\ q > 0 THEN q - 1 ELSE q

\* admit, under the entry's lock: admitted, queued for the next window, or
\* refused.
Admit(r) ==
    LET p == PartitionOf[r]
        w == Current(r)
        free == w.used + Ahead(r) < PermitLimit
        Become(s) == stage' = [stage EXCEPT ![r] = s]
        Leave(used, queued) ==
            windows' = [windows EXCEPT ![p] = Entry(w.started, used, queued)]
        Sleep == wake' = [wake EXCEPT ![r] = w.started + Window]
    IN  /\ stage[r] = "deciding"
        /\ \/ /\ free
              /\ Become("admitted")
              /\ Leave(w.used + 1, LeaveQueue(r))
              /\ UNCHANGED wake
           \/ /\ ~ free /\ arrival[r] = "Queued"
              /\ Become("asleep")
              /\ Leave(w.used, w.queued)
              /\ Sleep
           \/ /\ ~ free /\ PlaceFree(r)
              /\ Become("asleep")
              /\ Leave(w.used, w.queued + 1)
              /\ Sleep
           \/ /\ ~ free /\ arrival[r] = "New" /\ ~ PlaceFree(r)
              /\ Become("refused")
              /\ Leave(w.used, w.queued)
              /\ UNCHANGED wake
        /\ opened' = [opened EXCEPT ![p] = @ \cup {w.started}]
        /\ UNCHANGED <<time, lastSweep, now, arrival>>

\* The client of a sleeping request goes away.  Nothing is told.
GiveUp(r) ==
    /\ r \in Impatient
    /\ stage[r] = "asleep"
    /\ stage' = [stage EXCEPT ![r] = "dropped"]
    /\ UNCHANGED <<time, windows, lastSweep, now, arrival, wake, opened>>

Inside(r) == stage[r] \in {"called", "sweeping", "deciding"}

Tick ==
    /\ time < MaxTime
    /\ \A r \in Requests : ~ Inside(r)
    /\ time' = time + 1
    /\ UNCHANGED <<windows, lastSweep, callVars, opened>>

Next ==
    \/ \E r \in Requests : Call(r) \/ ClaimSweep(r) \/ Sweep(r) \/ Admit(r) \/ GiveUp(r)
    \/ Tick

Spec == Init /\ [][Next]_vars

-----------------------------------------------------------------------------
(* Properties *)

TypeOK ==
    /\ time \in 0..MaxTime
    /\ windows \in [Partitions -> [started : 0..MaxTime, used : 0..PermitLimit,
                                   queued : 0..QueueLimit, tracked : BOOLEAN]]
    /\ lastSweep \in (-Window)..MaxTime
    /\ stage \in [Requests -> {"new", "called", "sweeping", "deciding", "asleep",
                               "admitted", "refused", "dropped"}]
    /\ now \in [Requests -> 0..MaxTime]
    /\ arrival \in [Requests -> {"New", "Queued"}]
    /\ wake \in [Requests -> Nat]
    /\ opened \in [Partitions -> SUBSET (0..MaxTime)]

\* The requests of p admitted on a clock reading from one instant to another.
Admitted(p, from, to) ==
    {r \in Requests : /\ PartitionOf[r] = p
                      /\ stage[r] = "admitted"
                      /\ from <= now[r] /\ now[r] < to}

\* PermitLimit requests per window and no more, though windows are swept away,
\* inserted again and started over by whichever request comes first.
PermitsPerWindow ==
    \A p \in Partitions : \A s \in opened[p] :
        Cardinality(Admitted(p, s, s + Window)) <= PermitLimit

\* The requests of p that hold a place in its queue.
Waiting(p) ==
    {r \in Requests :
        /\ PartitionOf[r] = p
        /\ stage[r] = "asleep" \/ (Inside(r) /\ arrival[r] = "Queued")}

Gone(p) == {r \in Requests : PartitionOf[r] = p /\ stage[r] = "dropped"}

\* `queued` is the requests that hold a place, and those that went away with
\* theirs: no sweep, reset or late waker loses a place or frees one twice.
PlacesCounted ==
    \A p \in Partitions :
        windows[p].queued = Cardinality(Waiting(p)) + Cardinality(Gone(p))

\* If r waited and is sent back, others that waited have all the permits of
\* the window it woke in.
SentBackByWaiters(r) ==
    LET p == PartitionOf[r]
        s == windows'[p].started
    IN  (/\ stage[r] = "deciding" /\ arrival[r] = "Queued"
         /\ stage'[r] = "asleep")
        => \A other \in Admitted(p, s, s + Window) : arrival[other] = "Queued"

\* Those who wait go first: a request that waited is sent back to sleep only by
\* others that waited, however many arrived before it polled again.
WaitersFirst == [][\A r \in Requests : SentBackByWaiters(r)]_stage
=============================================================================
