----------------------------- MODULE OutboxFeed -----------------------------
(***************************************************************************)
(* Catalog in a process of its own (samples/catalog-host) reads Orders'    *)
(* outbox by a cursor over (OccurredAt, Id) while the monolith's dispatcher *)
(* delivers the same rows.  Both run Catalog's InvoiceFinalizedHandler in  *)
(* the inbox guard's transaction, so an event either applied is applied    *)
(* once, and both upsert the TrackSales rows of the invoice's tracks, one  *)
(* statement per track, in the order of the invoice's lines.               *)
(*                                                                         *)
(* Workers are the feeds and the monolith's dispatchers.  A transaction is *)
(* modelled with what PostgreSQL does for it: the inbox key makes a second *)
(* insert wait, an upserted row stays locked to the end, of the workers in *)
(* a cycle of waits one is made to fail, and a failure undoes everything   *)
(* not committed.  A crash of a process is such a failure: all a feed      *)
(* keeps in memory is its batch.                                           *)
(*                                                                         *)
(* A row is stamped with OccurredAt before its transaction commits, and is *)
(* visible only afterwards; CommitDelay bounds the time between.           *)
(***************************************************************************)
EXTENDS Integers, Sequences, FiniteSets, FiniteSetsExt, Sums

CONSTANTS
    Events,        \* outbox ids, numbers so that "Id" orders them
    Lines,         \* [Events -> Seq([track, quantity])]
    InvoiceDate,   \* [Events -> Nat]
    Foreign,       \* events of a type Catalog does not handle
    Undecodable,   \* InvoiceFinalized events with an unreadable payload
    Tracks,
    Backlog,       \* the rows the monolith had committed at the start
    Feeds,         \* the running catalog hosts
    Dispatchers,   \* the monolith's dispatchers
    Settle,        \* SettleSeconds, in ticks
    CommitDelay,   \* ticks from OccurredAt to the commit, at most
    BatchSize,     \* BATCH_SIZE
    MaxTries,      \* deliveries of a row before it is a dead letter
    MaxInt,        \* the largest value of an i32, and of an integer column
    MaxTime,       \* bound: ticks
    MaxFaults,     \* bound: failed statements, lost answers, crashes
    Free           \* no worker

Workers == Feeds \cup Dispatchers

ASSUME FeedEventsAssumption == Events \subseteq Nat \ {0} /\ Backlog \subseteq Events
ASSUME InvoicesAssumption ==
    /\ Lines \in [Events -> Seq([track : Tracks, quantity : Int])]
    /\ InvoiceDate \in [Events -> Nat]
ASSUME FeedWorkersAssumption == Feeds \cap Dispatchers = {} /\ Free \notin Workers
ASSUME FeedTimesAssumption == /\ Settle \in Nat /\ CommitDelay \in Nat
                              /\ BatchSize \in Nat \ {0} /\ MaxTries \in Nat /\ MaxInt \in Nat

\* What the settle window is for: a row's transaction commits inside it.
ASSUME SettleAssumption == CommitDelay < Settle

VARIABLES
    now,      \* the clock
    occurred, \* [Events -> time]: OccurredAt as stamped, Never before
    outbox,   \* the committed rows
    tries,    \* [Events -> deliveries of the row by the dispatchers]
    cursor,   \* the row of orders_outbox_cursor: <<occurred_at, event_id>>
    inbox,    \* events in Catalog's committed InboxMessage
    sales,    \* [Tracks -> [sold, last]]: committed TrackSales
    rows,     \* [Feeds -> SUBSET Events]: the rest of the batch
    stage,    \* [Workers -> where the worker is with its event]
    event,    \* [Workers -> the event in hand]
    todo,     \* [Workers -> lines whose tracks the handler has still to upsert]
    owner,    \* [Tracks -> the worker whose transaction has the row locked]
    faults

worldVars == <<now, occurred>>
boxVars   == <<outbox, tries>>
dbVars    == <<cursor, inbox, sales>>
workVars  == <<rows, stage, event, todo, owner>>
feedVars  == <<worldVars, boxVars, dbVars, workVars, faults>>

-----------------------------------------------------------------------------
(* One invoice *)

Never == -1
NoSale == [sold |-> 0, last |-> Never]

\* An i32 sum as the release build computes it.
Wrap(n) == ((n + MaxInt + 1) % (2 * (MaxInt + 1))) - (MaxInt + 1)

\* The lines of an invoice that are the first of their track: per_track has the
\* tracks in this order.
PerTrack ==
    [e \in Events |-> {i \in DOMAIN Lines[e] :
                         \A j \in 1..(i - 1) : Lines[e][j].track # Lines[e][i].track}]

\* The units of a track on an invoice.
Units(e, t) == SumOf([i \in DOMAIN Lines[e] |-> Lines[e][i].quantity],
                     {i \in DOMAIN Lines[e] : Lines[e][i].track = t})

\* The lines' quantities added up per track; a sum wraps as often as its terms do.
Quantity == [e \in Events |-> [t \in Tracks |-> Wrap(Units(e, t))]]

\* The row after ON CONFLICT DO UPDATE.
Upserted(t, e) ==
    [sold |-> sales[t].sold + Quantity[e][t],
     last |-> Max({sales[t].last, InvoiceDate[e]})]

OutOfRange(t, e) == sales[t].sold + Quantity[e][t] \notin (-MaxInt - 1)..MaxInt

-----------------------------------------------------------------------------
(* The cursor *)

Position(e) == <<occurred[e], e>>

\* (o."OccurredAt", o."Id") > (c.occurred_at, c.event_id)
After(p, q) == \/ p[1] > q[1]
               \/ p[1] = q[1] /\ p[2] > q[2]

\* No settle window.
Settled_AtOnce(e) == occurred[e] <= now

Settled(e) == occurred[e] <= now - Settle

Unread == {e \in outbox : After(Position(e), cursor) /\ Settled(e)}

\* Of a set of rows, in the order of "OccurredAt" and "Id".
First(e, S) == e \in S /\ \A d \in S \ {e} : After(Position(d), Position(e))

\* ORDER BY "OccurredAt", "Id" LIMIT BATCH_SIZE
Batch(S) ==
    /\ S \subseteq Unread
    /\ \A e \in S, d \in Unread \ S : After(Position(d), Position(e))
    /\ Cardinality(S) = Min({BatchSize, Cardinality(Unread)})

-----------------------------------------------------------------------------
(* Transactions *)

\* Workers whose transaction holds the inbox key of e.
KeyHolders(e) == {w \in Workers : stage[w] = "applying" /\ event[w] = e}

\* The track of the handler's next statement.
NextTrack(w) == Lines[event[w]][Min(todo[w])].track

\* The worker w waits for, if it waits.
Blocker(w) ==
    CASE stage[w] = "claiming" -> KeyHolders(event[w])
      [] stage[w] = "applying" /\ todo[w] # {} -> {owner[NextTrack(w)]} \ {Free, w}
      [] OTHER -> {}

\* The workers in a cycle of waits: every worker waits for at most one.
Deadlocked == UNION {C \in SUBSET Workers :
                        /\ C # {}
                        /\ \A w \in C : Blocker(w) # {} /\ Blocker(w) \subseteq C
                        /\ \A w \in C : \E v \in C : w \in Blocker(v)}

\* Locks are kept after the transaction.
Release_None(w) == owner

Release(w) == [t \in Tracks |-> IF owner[t] = w THEN Free ELSE owner[t]]

\* The batch ends; nothing uncommitted stays.
Forget(w) ==
    /\ stage' = [stage EXCEPT ![w] = "idle"]
    /\ event' = [event EXCEPT ![w] = 0]
    /\ todo' = [todo EXCEPT ![w] = {}]
    /\ owner' = Release(w)
    /\ rows' = [f \in Feeds |-> IF f = w THEN {} ELSE rows[f]]

-----------------------------------------------------------------------------
(* Orders and the monolith *)

FeedInit ==
    /\ now = 0
    /\ occurred = [e \in Events |-> IF e \in Backlog THEN 0 ELSE Never]
    /\ outbox = Backlog
    /\ tries = [e \in Events |-> 0]
    /\ cursor = <<Never, 0>>
    /\ inbox = {}
    /\ sales = [t \in Tracks |-> NoSale]
    /\ rows = [f \in Feeds |-> {}]
    /\ stage = [w \in Workers |-> "idle"]
    /\ event = [w \in Workers |-> 0]
    /\ todo = [w \in Workers |-> {}]
    /\ owner = [t \in Tracks |-> Free]
    /\ faults = 0

\* A transaction with an outbox row is open no longer than CommitDelay.
Tick ==
    /\ now < MaxTime
    /\ \A e \in Events \ outbox : occurred[e] = Never \/ now - occurred[e] < CommitDelay
    /\ now' = now + 1
    /\ UNCHANGED <<occurred, boxVars, dbVars, workVars, faults>>

\* finalize_invoice reads the clock (while MaxTime lets the row settle) ...
Stamp(e) ==
    /\ occurred[e] = Never /\ now + Settle <= MaxTime
    /\ occurred' = [occurred EXCEPT ![e] = now]
    /\ UNCHANGED <<now, boxVars, dbVars, workVars, faults>>

\* ... and commits the row.
CommitRow(e) ==
    /\ occurred[e] # Never /\ e \notin outbox
    /\ outbox' = outbox \cup {e}
    /\ UNCHANGED <<worldVars, tries, dbVars, workVars, faults>>

\* The dispatcher takes a row to Catalog's handler, in any order: a failed
\* row comes back later than its successors, and not for ever.
Dispatch(d, e) ==
    /\ stage[d] = "idle"
    /\ e \in outbox \ (Foreign \cup Undecodable \cup inbox)
    /\ \A other \in Dispatchers : event[other] # e
    /\ tries[e] < MaxTries
    /\ tries' = [tries EXCEPT ![e] = @ + 1]
    /\ stage' = [stage EXCEPT ![d] = "claiming"]
    /\ event' = [event EXCEPT ![d] = e]
    /\ UNCHANGED <<worldVars, outbox, dbVars, rows, todo, owner, faults>>

-----------------------------------------------------------------------------
(* The feed *)

\* process_batch: the rows past the cursor that have settled.
Poll(f) ==
    /\ stage[f] = "idle" /\ rows[f] = {} /\ Unread # {}
    /\ \E S \in SUBSET Unread : Batch(S) /\ rows' = [rows EXCEPT ![f] = S]
    /\ UNCHANGED <<worldVars, boxVars, dbVars, stage, event, todo, owner, faults>>

\* A row Catalog handles goes to the inbox guard; any other is passed over.
NextRow(f) ==
    /\ stage[f] = "idle"
    /\ \E e \in rows[f] \ Undecodable :
          /\ First(e, rows[f])
          /\ event' = [event EXCEPT ![f] = e]
          /\ stage' = [stage EXCEPT ![f] = IF e \in Foreign THEN "passing" ELSE "claiming"]
    /\ UNCHANGED <<worldVars, boxVars, dbVars, rows, todo, owner, faults>>

\* The batch ends at a row it cannot read.
Unreadable(f) ==
    /\ stage[f] = "idle"
    /\ \E e \in rows[f] \cap Undecodable : First(e, rows[f])
    /\ Forget(f)
    /\ UNCHANGED <<worldVars, boxVars, dbVars, faults>>

\* The cursor, whatever it is by now, is set to the row.
MoveCursor(f) ==
    /\ stage[f] = "passing"
    /\ cursor' = Position(event[f])
    /\ rows' = [rows EXCEPT ![f] = rows[f] \ {event[f]}]
    /\ stage' = [stage EXCEPT ![f] = "idle"]
    /\ event' = [event EXCEPT ![f] = 0]
    /\ UNCHANGED <<worldVars, boxVars, inbox, sales, todo, owner, faults>>

-----------------------------------------------------------------------------
(* inbox::run and the handler *)

\* What follows the transaction: a feed moves its cursor, a dispatcher is done.
AfterDelivery(w) == IF w \in Feeds THEN "passing" ELSE "idle"

\* Two workers may hold the key.
Claim_Unguarded(w) ==
    /\ stage[w] = "claiming"
    /\ stage' = [stage EXCEPT ![w] = "applying"]
    /\ todo' = [todo EXCEPT ![w] = PerTrack[event[w]]]
    /\ UNCHANGED <<worldVars, boxVars, dbVars, rows, event, owner, faults>>

\* INSERT ... ON CONFLICT DO NOTHING: waits for a transaction that has the key,
\* then finds the row or inserts it.
Claim(w) ==
    /\ stage[w] = "claiming" /\ Blocker(w) = {}
    /\ \/ /\ event[w] \notin inbox
          /\ stage' = [stage EXCEPT ![w] = "applying"]
          /\ todo' = [todo EXCEPT ![w] = PerTrack[event[w]]]
          /\ UNCHANGED event
       \/ /\ event[w] \in inbox
          /\ stage' = [stage EXCEPT ![w] = AfterDelivery(w)]
          /\ event' = [event EXCEPT ![w] = IF w \in Feeds THEN event[w] ELSE 0]
          /\ UNCHANGED todo
    /\ UNCHANGED <<worldVars, boxVars, dbVars, rows, owner, faults>>

\* One track's statement: it waits for the row, then keeps it locked.
Upsert(w) ==
    /\ stage[w] = "applying" /\ todo[w] # {} /\ Blocker(w) = {}
    /\ ~OutOfRange(NextTrack(w), event[w])
    /\ owner' = [owner EXCEPT ![NextTrack(w)] = w]
    /\ todo' = [todo EXCEPT ![w] = todo[w] \ {Min(todo[w])}]
    /\ UNCHANGED <<worldVars, boxVars, dbVars, rows, stage, event, faults>>

\* "integer out of range": the handler fails.
Overflow(w) ==
    /\ stage[w] = "applying" /\ todo[w] # {} /\ Blocker(w) = {}
    /\ OutOfRange(NextTrack(w), event[w])
    /\ Forget(w)
    /\ UNCHANGED <<worldVars, boxVars, dbVars, faults>>

\* PostgreSQL fails one transaction of a cycle of waits.
DeadlockVictim(w) ==
    /\ Blocker(w) # {} /\ w \in Deadlocked
    /\ Forget(w)
    /\ UNCHANGED <<worldVars, boxVars, dbVars, faults>>

\* The writes of w's transaction and its inbox row.
Land(w) ==
    /\ stage[w] = "applying" /\ todo[w] = {}
    /\ inbox' = inbox \cup {event[w]}
    /\ sales' = [t \in Tracks |-> IF owner[t] = w THEN Upserted(t, event[w]) ELSE sales[t]]

Commit(w) ==
    /\ Land(w)
    /\ stage' = [stage EXCEPT ![w] = AfterDelivery(w)]
    /\ event' = [event EXCEPT ![w] = IF w \in Feeds THEN event[w] ELSE 0]
    /\ owner' = Release(w)
    /\ UNCHANGED <<worldVars, boxVars, cursor, rows, todo, faults>>

-----------------------------------------------------------------------------
(* Failures *)

\* A statement fails, or the process dies.
Fail(w) ==
    /\ faults < MaxFaults
    /\ stage[w] # "idle" \/ (w \in Feeds /\ rows[w] # {})
    /\ Forget(w)
    /\ faults' = faults + 1
    /\ UNCHANGED <<worldVars, boxVars, dbVars>>

\* The transaction commits, and the worker does not learn of it.
CommitLost(w) ==
    /\ faults < MaxFaults
    /\ Land(w)
    /\ Forget(w)
    /\ faults' = faults + 1
    /\ UNCHANGED <<worldVars, boxVars, cursor>>

\* The cursor's statement is done, and the feed does not learn of it.
MoveLost(f) ==
    /\ faults < MaxFaults /\ stage[f] = "passing"
    /\ cursor' = Position(event[f])
    /\ Forget(f)
    /\ faults' = faults + 1
    /\ UNCHANGED <<worldVars, boxVars, inbox, sales>>

Finalize(e) == Stamp(e) \/ CommitRow(e)

FeedStep(f) == Poll(f) \/ NextRow(f) \/ Unreadable(f) \/ MoveCursor(f)

Handle(w) == \/ Claim(w) \/ Upsert(w) \/ Overflow(w)
             \/ DeadlockVictim(w) \/ Commit(w)

FeedNext ==
    \/ Tick
    \/ \E e \in Events : Finalize(e)
    \/ \E d \in Dispatchers, e \in Events : Dispatch(d, e)
    \/ \E f \in Feeds : FeedStep(f) \/ MoveLost(f)
    \/ \E w \in Workers : Handle(w) \/ Fail(w) \/ CommitLost(w)

FeedSpec == FeedInit /\ [][FeedNext]_feedVars

\* A feed polls for as long as its process runs, and is restarted when it does
\* not; a transaction that has begun is driven on, finalize_invoice's too; the
\* clock goes on.  The dispatchers' own fairness is not assumed: the feed does
\* without them.
FeedFairness ==
    /\ WF_feedVars(Tick)
    /\ WF_feedVars(\E e \in Events : CommitRow(e))
    /\ \A f \in Feeds : WF_feedVars(FeedStep(f))
    /\ \A w \in Workers : WF_feedVars(Handle(w))

FeedFairSpec == FeedSpec /\ FeedFairness

-----------------------------------------------------------------------------
(* Properties *)

Total == [t \in Tracks |-> [e \in Events |-> Units(e, t)]]

\* The invoices whose sum an i32 holds.
Fitting == [t \in Tracks |-> {e \in Events : Units(e, t) \in (-MaxInt - 1)..MaxInt}]

Sold(e) == {Lines[e][i].track : i \in DOMAIN Lines[e]}

Sells(t) == {e \in inbox : t \in Sold(e)}

\* A track's TrackSales row adds up what exactly the events in the inbox sold
\* of it, and has the latest of their dates: whichever of the processes applied
\* an event, in whatever order, however the row locks of two invoices met and
\* wherever one of them failed.  A track an invoice of which does not fit an
\* i32 is left out: the release build's sum wraps.
SalesAreExact ==
    \A t \in Tracks : Sells(t) \subseteq Fitting[t] =>
        /\ sales[t].sold = SumOf(Total[t], Sells(t))
        /\ sales[t].last = Max({Never} \cup {InvoiceDate[e] : e \in Sells(t)})

\* A row the cursor has passed has been applied, if Catalog handles its type,
\* and is not one the feed failed to read: no row commits behind the cursor
\* inside the settle window, and the cursor, set unconditionally by feeds that
\* do not know of each other, never stands beyond a row that failed.
CursorSkipsNothing ==
    \A e \in Events : occurred[e] # Never /\ ~After(Position(e), cursor)
                        => e \in inbox \cup Foreign

\* A committed row that will never be applied, and the rows it holds up: the
\* feed has no backoff and no dead letter.
Stuck(e) == e \notin inbox /\ \/ e \in Undecodable
                              \/ \E t \in Sold(e) : OutOfRange(t, e)

HeldUp(e) == \E b \in outbox : Stuck(b) /\ ~After(Position(b), Position(e))

\* Every committed invoice is counted by the feed alone, through failed
\* statements, deadlocks and restarts, unless it is held up.
EveryEventCounted ==
    <>[](\A e \in outbox \ Foreign : e \in inbox \/ HeldUp(e))
=============================================================================
