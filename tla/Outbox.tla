------------------------------- MODULE Outbox -------------------------------
(***************************************************************************)
(* Integration events from the finalized invoice to the read models:       *)
(*                                                                         *)
(*   - finalize_invoice (module-orders) changes an invoice and writes its  *)
(*     InvoiceFinalized row to orders."OutboxMessage" in one transaction;  *)
(*   - one OutboxDispatcher per running host polls that table, delivers    *)
(*     each due row to every subscribed handler, and records the outcome;  *)
(*   - inbox::run gives each handler a transaction of its own that starts  *)
(*     with the (EventId, HandlerName) row;                                *)
(*   - DeadLetters.retry sends a dead letter back.                         *)
(*                                                                         *)
(* What PostgreSQL contributes is modelled as far as the code relies on    *)
(* it: row locks held to the end of a transaction, SKIP LOCKED, the unique *)
(* inbox key that makes a second insert wait for the first one's           *)
(* transaction, rollback of whatever was not committed, and the loss of a  *)
(* connection, which releases locks while the client has not noticed.      *)
(*                                                                         *)
(* Time: a row keeps the time left until NextAttemptAt, so a Tick is one   *)
(* unit passing and a row is due when nothing is left.  OccurredAt is the  *)
(* rank of the clock reading that produced it.                             *)
(*                                                                         *)
(* A definition named X_Something is X with a bug: replacing X by it breaks *)
(* a property below, which shows that the property depends on X.           *)
(***************************************************************************)
EXTENDS Integers, Sequences, FiniteSets

CONSTANTS
    Events,        \* event ids; finalize_invoice draws a fresh one per call
    Invoices,      \* the rows of orders."Invoice"
    InvoiceOf,     \* [Events -> id]: the invoice a call asks to finalize
    Handlers,      \* the handler names subscribed to InvoiceFinalized
    Subscriptions, \* the handlers in registration order
    Unregistered,  \* handlers whose module registered no database
    Undecodable,   \* events of unknown type, or with an unreadable payload
    Panicking,     \* events on which a handler panics, every time
    Dispatchers,   \* the running hosts' dispatchers
    RetryDelays,   \* RETRY_DELAYS, in ticks
    BatchSize,     \* BATCH_SIZE
    MaxFaults,     \* bound: crashes, lost connections, refused writes
    NoEvent        \* "no row in hand"

ASSUME EventsAssumption == NoEvent \notin Events
ASSUME SubscriptionsAssumption ==
    /\ Subscriptions \in Seq(Handlers)
    /\ \A h \in Handlers : \E i \in 1..Len(Subscriptions) : Subscriptions[i] = h
\* InvoiceFinalized has subscribers, Catalog and Administration.
ASSUME HandlersAssumption == Handlers # {} /\ Unregistered \subseteq Handlers
ASSUME DelaysAssumption == RetryDelays \in Seq(Nat \ {0})
ASSUME BoundsAssumption == BatchSize \in Nat \ {0} /\ MaxFaults \in Nat

VARIABLES
    call,      \* [Events -> stage of the finalize_invoice call with that event]
    finalized, \* the invoices whose committed Status is Finalized
    occurred,  \* [Events -> Nat]: OccurredAt, 0 before it is read
    clock,     \* the last OccurredAt handed out
    outbox,    \* [Events -> Row]: committed rows of "OutboxMessage"
    inbox,     \* committed rows of the handlers' "InboxMessage" tables
    applied,   \* [Events \X Handlers -> Nat]: committed runs of a handler
    phase,     \* [Dispatchers -> where process_batch stands]
    held,      \* [Dispatchers -> SUBSET Events]: rows locked by the batch
    todo,      \* [Dispatchers -> SUBSET Events]: selected, not yet delivered
    seen,      \* [Dispatchers -> [Events -> Nat]]: Attempts as selected
    current,   \* [Dispatchers -> the row being delivered]
    next,      \* [Dispatchers -> index of the subscription to run]
    failed,    \* [Dispatchers -> BOOLEAN]: `failures` is not empty
    writes,    \* [Dispatchers -> [Events -> Row]]: uncommitted row updates
    faults     \* faults so far

callVars  == <<call, finalized, occurred, clock>>
dbVars    == <<outbox, inbox, applied>>
batchVars == <<phase, held, todo, seen, current, next, failed, writes>>
vars      == <<callVars, dbVars, batchVars, faults>>

-----------------------------------------------------------------------------
(* Rows *)

NoRow == [state |-> "absent", attempts |-> 0, wait |-> 0]

Row == [state : {"absent", "pending", "processed", "dead"},
        attempts : Nat,
        wait : Nat]

\* What EventPublisher.publish inserts, and what DeadLetters.retry resets to.
FreshRow == [state |-> "pending", attempts |-> 0, wait |-> 0]

\* The row of an event all of whose handlers succeeded.
ProcessedRow(attempts) ==
    [state |-> "processed", attempts |-> attempts, wait |-> 0]

\* The schedule off by one.
FailedRow_OneDelayMore(attempts) ==
    IF attempts <= Len(RetryDelays)
    THEN [state |-> "pending", attempts |-> attempts + 1,
          wait |-> RetryDelays[IF attempts = 0 THEN 1 ELSE attempts]]
    ELSE [state |-> "dead", attempts |-> attempts + 1, wait |-> 0]

\* The failure is not counted.
FailedRow_Uncounted(attempts) ==
    [state |-> "pending", attempts |-> attempts, wait |-> 1]

\* The row after one more failed delivery: the next delay, or a dead letter
\* when the schedule has run out.
FailedRow(attempts) ==
    IF attempts + 1 \in DOMAIN RetryDelays
    THEN [state |-> "pending", attempts |-> attempts + 1,
          wait |-> RetryDelays[attempts + 1]]
    ELSE [state |-> "dead", attempts |-> attempts + 1, wait |-> 0]

\* A row one tick later.
Age(row) == [row EXCEPT !.wait = IF row.wait > 0 THEN row.wait - 1 ELSE 0]

\* Rows that have failed as often as there are delays are left out.
Due_NotTheLastTime ==
    {e \in Events : /\ outbox[e].state = "pending"
                    /\ outbox[e].wait = 0
                    /\ outbox[e].attempts < Len(RetryDelays)}

Due == {e \in Events : outbox[e].state = "pending" /\ outbox[e].wait = 0}

Locked == UNION {held[d] : d \in Dispatchers}

\* Without FOR UPDATE SKIP LOCKED.
Available_NoLocks == Due

\* Rows a SELECT ... FOR UPDATE SKIP LOCKED can return now.
Available == Due \ Locked

-----------------------------------------------------------------------------
(* finalize_invoice *)

Init ==
    /\ call = [e \in Events |-> "new"]
    /\ finalized = {}
    /\ occurred = [e \in Events |-> 0]
    /\ clock = 0
    /\ outbox = [e \in Events |-> NoRow]
    /\ inbox = {}
    /\ applied = [key \in Events \X Handlers |-> 0]
    /\ phase = [d \in Dispatchers |-> "idle"]
    /\ held = [d \in Dispatchers |-> {}]
    /\ todo = [d \in Dispatchers |-> {}]
    /\ seen = [d \in Dispatchers |-> [e \in Events |-> 0]]
    /\ current = [d \in Dispatchers |-> NoEvent]
    /\ next = [d \in Dispatchers |-> 1]
    /\ failed = [d \in Dispatchers |-> FALSE]
    /\ writes = [d \in Dispatchers |-> [e \in Events |-> NoRow]]
    /\ faults = 0

\* Without FOR UPDATE on the invoice.
InvoiceFree_Unlocked(i) == TRUE

\* SELECT ... FOR UPDATE waits while another open transaction has the row.
InvoiceFree(i) == \A f \in Events : call[f] = "open" => InvoiceOf[f] # i

\* The event is inserted outside the transaction.
BeginFinalize_PublishEarly(e) ==
    /\ call[e] = "new"
    /\ InvoiceOf[e] \in Invoices \ finalized
    /\ InvoiceFree(InvoiceOf[e])
    /\ call' = [call EXCEPT ![e] = "open"]
    /\ clock' = clock + 1
    /\ occurred' = [occurred EXCEPT ![e] = clock + 1]
    /\ outbox' = [outbox EXCEPT ![e] = FreshRow]
    /\ UNCHANGED <<finalized, inbox, applied, batchVars, faults>>

\* The invoice is locked and still a draft: update its status, read the clock
\* and insert the outbox row, none of it visible before the commit.
BeginFinalize(e) ==
    /\ call[e] = "new"
    /\ InvoiceOf[e] \in Invoices \ finalized
    /\ InvoiceFree(InvoiceOf[e])
    /\ call' = [call EXCEPT ![e] = "open"]
    /\ clock' = clock + 1
    /\ occurred' = [occurred EXCEPT ![e] = clock + 1]
    /\ UNCHANGED <<finalized, dbVars, batchVars, faults>>

\* NotFound, or AlreadyFinalized as read under the lock: nothing is written.
RefuseFinalize(e) ==
    /\ call[e] = "new"
    /\ \/ /\ InvoiceOf[e] \notin Invoices
          /\ call' = [call EXCEPT ![e] = "notFound"]
       \/ /\ InvoiceOf[e] \in finalized
          /\ InvoiceFree(InvoiceOf[e])
          /\ call' = [call EXCEPT ![e] = "alreadyFinalized"]
    /\ UNCHANGED <<finalized, occurred, clock, dbVars, batchVars, faults>>

\* The status and the outbox row become visible together.  The caller may
\* still be told of an error, when only the answer to the COMMIT was lost.
CommitFinalize(e) ==
    /\ call[e] = "open"
    /\ \E answer \in {"finalized", "unanswered"} :
          call' = [call EXCEPT ![e] = answer]
    /\ finalized' = finalized \cup {InvoiceOf[e]}
    /\ outbox' = [outbox EXCEPT ![e] = FreshRow]
    /\ UNCHANGED <<occurred, clock, inbox, applied, batchVars, faults>>

\* The transaction ends without a commit: a database error, a crash, or a
\* request dropped by its client.
AbortFinalize(e) ==
    /\ call[e] = "open"
    /\ call' = [call EXCEPT ![e] = "aborted"]
    /\ UNCHANGED <<finalized, occurred, clock, dbVars, batchVars, faults>>

-----------------------------------------------------------------------------
(* OutboxDispatcher.process_batch *)

\* The process_batch call of d is over; whatever it did not commit is undone.
EndBatch(d) ==
    /\ phase' = [phase EXCEPT ![d] = "idle"]
    /\ held' = [held EXCEPT ![d] = {}]
    /\ todo' = [todo EXCEPT ![d] = {}]
    /\ seen' = [seen EXCEPT ![d] = [e \in Events |-> 0]]
    /\ current' = [current EXCEPT ![d] = NoEvent]
    /\ next' = [next EXCEPT ![d] = 1]
    /\ failed' = [failed EXCEPT ![d] = FALSE]
    /\ writes' = [writes EXCEPT ![d] = [e \in Events |-> NoRow]]

\* The batch's transaction is still open on the server.  A batch is never
\* empty, so it holds locks until its connection is lost.
Connected(d) == held[d] # {}

\* The first BatchSize available rows by (OccurredAt, Id), locked.  A poll that
\* finds nothing changes nothing and is not a step.
SelectBatch(d) ==
    /\ phase[d] = "idle"
    /\ \E batch \in SUBSET Available :
          /\ batch # {}
          /\ Cardinality(batch) <= BatchSize
          /\ batch # Available => Cardinality(batch) = BatchSize
          /\ \A e \in batch, f \in Available \ batch : occurred[e] < occurred[f]
          /\ held' = [held EXCEPT ![d] = batch]
          /\ todo' = [todo EXCEPT ![d] = batch]
          /\ seen' = [seen EXCEPT ![d] =
                        [e \in Events |-> IF e \in batch
                                          THEN outbox[e].attempts ELSE 0]]
    /\ phase' = [phase EXCEPT ![d] = "next"]
    /\ UNCHANGED <<callVars, dbVars, current, next, failed, writes, faults>>

\* A row that cannot be decoded has nothing to deliver, and no failure.
TakeRow_SkipUndecodable(d) ==
    /\ phase[d] = "next"
    /\ \E e \in todo[d] :
          /\ \A f \in todo[d] \ {e} : occurred[e] < occurred[f]
          /\ todo' = [todo EXCEPT ![d] = todo[d] \ {e}]
          /\ current' = [current EXCEPT ![d] = e]
          /\ next' = [next EXCEPT ![d] = IF e \in Undecodable
                                         THEN Len(Subscriptions) + 1 ELSE 1]
    /\ phase' = [phase EXCEPT ![d] = "deliver"]
    /\ UNCHANGED <<callVars, dbVars, held, seen, failed, writes, faults>>

\* The next row of the batch.  One that cannot be decoded fails outright.
TakeRow(d) ==
    /\ phase[d] = "next"
    /\ \E e \in todo[d] :
          /\ \A f \in todo[d] \ {e} : occurred[e] < occurred[f]
          /\ todo' = [todo EXCEPT ![d] = todo[d] \ {e}]
          /\ current' = [current EXCEPT ![d] = e]
          /\ failed' = [failed EXCEPT ![d] = e \in Undecodable]
          /\ next' = [next EXCEPT ![d] = IF e \in Undecodable
                                         THEN Len(Subscriptions) + 1 ELSE 1]
    /\ phase' = [phase EXCEPT ![d] = "deliver"]
    /\ UNCHANGED <<callVars, dbVars, held, seen, writes, faults>>

Delivering(d) == phase[d] = "deliver" /\ next[d] <= Len(Subscriptions)

\* The (EventId, HandlerName) key of the delivery d is in.
Key(d) == <<current[d], Subscriptions[next[d]]>>

\* The loop moves to the next subscription, with one more failure or not.
Advance(d, failure) ==
    /\ failed' = [failed EXCEPT ![d] = failed[d] \/ failure]
    /\ next' = [next EXCEPT ![d] = next[d] + 1]
    /\ phase' = [phase EXCEPT ![d] = "deliver"]

\* The failure is not noted.
SkipHandler_Unnoticed(d) ==
    /\ Delivering(d)
    /\ Advance(d, FALSE)
    /\ UNCHANGED <<callVars, dbVars, held, todo, seen, current, writes, faults>>

\* No database for the handler's module, or inbox::run failing before the
\* handler starts: a failure is noted and the remaining handlers still run.
SkipHandler(d) ==
    /\ Delivering(d)
    /\ Advance(d, TRUE)
    /\ UNCHANGED <<callVars, dbVars, held, todo, seen, current, writes, faults>>

\* The inbox row exists: the handler is not run again.
SkipDuplicate(d) ==
    /\ Delivering(d)
    /\ Subscriptions[next[d]] \notin Unregistered
    /\ Key(d) \in inbox
    /\ Advance(d, FALSE)
    /\ UNCHANGED <<callVars, dbVars, held, todo, seen, current, writes, faults>>

\* The inbox is looked up, without a unique key to wait on.
InsertInbox_NoKey(d) ==
    /\ Delivering(d)
    /\ Subscriptions[next[d]] \notin Unregistered
    /\ Key(d) \notin inbox
    /\ phase' = [phase EXCEPT ![d] = "handle"]
    /\ UNCHANGED <<callVars, dbVars, held, todo, seen, current, next, failed,
                   writes, faults>>

\* The inbox row is inserted, uncommitted.  An insert of a key that another
\* open transaction has inserted waits for that transaction to end.
InsertInbox(d) ==
    /\ Delivering(d)
    /\ Subscriptions[next[d]] \notin Unregistered
    /\ Key(d) \notin inbox
    /\ \A c \in Dispatchers : phase[c] = "handle" => Key(c) # Key(d)
    /\ phase' = [phase EXCEPT ![d] = "handle"]
    /\ UNCHANGED <<callVars, dbVars, held, todo, seen, current, next, failed,
                   writes, faults>>

\* The handler succeeded: its writes and the inbox row commit together.  The
\* dispatcher counts a failure if only the answer was lost.
CommitHandler(d) ==
    /\ phase[d] = "handle"
    /\ current[d] \notin Panicking
    /\ inbox' = inbox \cup {Key(d)}
    /\ applied' = [applied EXCEPT ![Key(d)] = applied[Key(d)] + 1]
    /\ \E answerLost \in BOOLEAN : Advance(d, answerLost)
    /\ UNCHANGED <<callVars, outbox, held, todo, seen, current, writes, faults>>

\* The handler, or its commit, failed: its writes and the inbox row roll back.
FailHandler(d) ==
    /\ phase[d] = "handle"
    /\ current[d] \notin Panicking
    /\ Advance(d, TRUE)
    /\ UNCHANGED <<callVars, dbVars, held, todo, seen, current, writes, faults>>

\* The handler panicked: the unwinding drops the handler's transaction and the
\* batch's, and ModuleWorkQueue::run catches it.
PanicHandler(d) ==
    /\ phase[d] = "handle"
    /\ current[d] \in Panicking
    /\ EndBatch(d)
    /\ UNCHANGED <<callVars, dbVars, faults>>

\* The outcome forgets the failures.
RecordOutcome_Forgetful(d) ==
    /\ phase[d] = "deliver"
    /\ next[d] > Len(Subscriptions)
    /\ Connected(d)
    /\ writes' = [writes EXCEPT ![d][current[d]] =
                    ProcessedRow(seen[d][current[d]])]
    /\ phase' = [phase EXCEPT ![d] = "next"]
    /\ current' = [current EXCEPT ![d] = NoEvent]
    /\ next' = [next EXCEPT ![d] = 1]
    /\ failed' = [failed EXCEPT ![d] = FALSE]
    /\ UNCHANGED <<callVars, dbVars, held, todo, seen, faults>>

\* Every handler was tried: write ProcessedAt, or record_failure.
RecordOutcome(d) ==
    /\ phase[d] = "deliver"
    /\ next[d] > Len(Subscriptions)
    /\ Connected(d)
    /\ writes' = [writes EXCEPT ![d][current[d]] =
                    IF failed[d] THEN FailedRow(seen[d][current[d]])
                    ELSE ProcessedRow(seen[d][current[d]])]
    /\ phase' = [phase EXCEPT ![d] = "next"]
    /\ current' = [current EXCEPT ![d] = NoEvent]
    /\ next' = [next EXCEPT ![d] = 1]
    /\ failed' = [failed EXCEPT ![d] = FALSE]
    /\ UNCHANGED <<callVars, dbVars, held, todo, seen, faults>>

\* The whole batch commits at once.
CommitBatch(d) ==
    /\ phase[d] = "next"
    /\ todo[d] = {}
    /\ Connected(d)
    /\ outbox' = [e \in Events |-> IF writes[d][e] = NoRow THEN outbox[e]
                                   ELSE writes[d][e]]
    /\ EndBatch(d)
    /\ UNCHANGED <<callVars, inbox, applied, faults>>

\* The batch's own statement finds its connection gone: process_batch returns
\* the error, and what the handlers committed stands.
FailBatch(d) ==
    /\ ~ Connected(d)
    /\ \/ phase[d] = "next" /\ todo[d] = {}
       \/ phase[d] = "deliver" /\ next[d] > Len(Subscriptions)
    /\ EndBatch(d)
    /\ UNCHANGED <<callVars, dbVars, faults>>

-----------------------------------------------------------------------------
(* Faults, each counted against MaxFaults *)

Fault == faults < MaxFaults /\ faults' = faults + 1

\* The server ends the batch's session: locks and updates are gone, while the
\* dispatcher carries on until it next uses the connection.
LoseConnection(d) ==
    /\ Fault
    /\ Connected(d)
    /\ held' = [held EXCEPT ![d] = {}]
    /\ writes' = [writes EXCEPT ![d] = [e \in Events |-> NoRow]]
    /\ UNCHANGED <<callVars, dbVars, phase, todo, seen, current, next, failed>>

\* The host dies and another takes its place, or the database refuses one of
\* the batch's statements.
Crash(d) ==
    /\ Fault
    /\ phase[d] # "idle"
    /\ EndBatch(d)
    /\ UNCHANGED <<callVars, dbVars>>

-----------------------------------------------------------------------------
(* DeadLetters.retry, and time *)

\* A dead letter goes back with its schedule restarted.  For any other id the
\* update matches no row and the caller gets 404.
RetryDeadLetter(e) ==
    /\ outbox[e].state = "dead"
    /\ outbox' = [outbox EXCEPT ![e] = FreshRow]
    /\ UNCHANGED <<callVars, inbox, applied, batchVars, faults>>

Tick ==
    /\ \/ \E e \in Events : outbox[e].wait > 0
       \/ \E d \in Dispatchers, e \in Events : writes[d][e].wait > 0
    /\ outbox' = [e \in Events |-> Age(outbox[e])]
    /\ writes' = [d \in Dispatchers |-> [e \in Events |-> Age(writes[d][e])]]
    /\ UNCHANGED <<callVars, inbox, applied, phase, held, todo, seen, current,
                   next, failed, faults>>

-----------------------------------------------------------------------------

\* What d does on its own, without a fault.
Work(d) ==
    \/ SelectBatch(d) \/ TakeRow(d)
    \/ SkipHandler(d) \/ SkipDuplicate(d) \/ InsertInbox(d)
    \/ CommitHandler(d) \/ FailHandler(d) \/ PanicHandler(d)
    \/ RecordOutcome(d) \/ CommitBatch(d) \/ FailBatch(d)

Finalize(e) ==
    BeginFinalize(e) \/ RefuseFinalize(e) \/ CommitFinalize(e) \/ AbortFinalize(e)

Next ==
    \/ \E e \in Events : Finalize(e) \/ RetryDeadLetter(e)
    \/ \E d \in Dispatchers : Work(d) \/ LoseConnection(d) \/ Crash(d)
    \/ Tick

Spec == Init /\ [][Next]_vars

\* The hosted loop polls for as long as the host runs, every statement ends,
\* and time passes.  Nobody is obliged to finalize, to retry a dead letter,
\* or to cause a fault.
Fairness ==
    /\ \A d \in Dispatchers : WF_vars(Work(d))
    /\ WF_vars(Tick)

FairSpec == Spec /\ Fairness

-----------------------------------------------------------------------------
(* Properties *)

TypeOK ==
    /\ call \in [Events -> {"new", "open", "finalized", "unanswered", "aborted",
                            "alreadyFinalized", "notFound"}]
    /\ finalized \subseteq Invoices
    /\ occurred \in [Events -> Nat]
    /\ clock \in Nat
    /\ outbox \in [Events -> Row]
    /\ inbox \subseteq Events \X Handlers
    /\ applied \in [Events \X Handlers -> Nat]
    /\ phase \in [Dispatchers -> {"idle", "next", "deliver", "handle"}]
    /\ held \in [Dispatchers -> SUBSET Events]
    /\ todo \in [Dispatchers -> SUBSET Events]
    /\ seen \in [Dispatchers -> [Events -> Nat]]
    /\ current \in [Dispatchers -> Events \cup {NoEvent}]
    /\ next \in [Dispatchers -> 1..(Len(Subscriptions) + 1)]
    /\ failed \in [Dispatchers -> BOOLEAN]
    /\ writes \in [Dispatchers -> [Events -> Row]]
    /\ faults \in 0..MaxFaults

Published(e) == outbox[e].state # "absent"

Handled(e) == \A h \in Handlers : <<e, h>> \in inbox

\* Publish with the write: an invoice is final exactly when its event is in
\* the outbox, and concurrent or repeated calls to finalize_invoice leave one
\* event, whatever was aborted, refused or left unanswered.
PublishedOnce ==
    /\ finalized = {InvoiceOf[e] : e \in {f \in Events : Published(f)}}
    /\ \A e, f \in Events :
          Published(e) /\ Published(f) /\ InvoiceOf[e] = InvoiceOf[f] => e = f

\* What finalize_invoice answered is what it did: Finalized published,
\* AlreadyFinalized left it to another call that did publish, and a call that
\* was refused or rolled back never leaves an event or an effect behind.
AnswersAreTrue ==
    \A e \in Events :
        /\ call[e] \in {"finalized", "unanswered"} => Published(e)
        /\ call[e] = "alreadyFinalized" =>
              \E f \in Events \ {e} : Published(f) /\ InvoiceOf[f] = InvoiceOf[e]
        /\ call[e] \in {"open", "aborted", "alreadyFinalized", "notFound"} =>
              ~ Published(e) /\ \A h \in Handlers : applied[e, h] = 0

\* Apply once: inbox::run lets a handler's writes commit at most once for an
\* event, and exactly when its inbox row does, though the event is delivered
\* again after a crash, a lost commit, a sibling's failure or a retry, and
\* though a dispatcher that lost its locks delivers beside another.
AppliedOnce ==
    \A key \in Events \X Handlers :
        applied[key] = IF key \in inbox THEN 1 ELSE 0

\* A row is marked processed only when every handler has succeeded on it, over
\* however many deliveries, and an uncommitted mark says no more than that.
ProcessedMeansHandled ==
    \A e \in Events :
        /\ outbox[e].state = "processed" => Handled(e)
        /\ \A d \in Dispatchers : writes[d][e].state = "processed" => Handled(e)

\* A row some subscriber cannot take is never passed off as delivered: not one
\* that cannot be decoded, not one whose handler panics, and none at all while
\* a subscribed module has no database.
UndeliverableNeverSettles ==
    \A e \in Events :
        e \in Undecodable \cup Panicking \/ Unregistered # {} =>
            /\ outbox[e].state # "processed"
            /\ \A h \in Handlers :
                  e \in Undecodable \/ h \in Unregistered => applied[e, h] = 0

\* FOR UPDATE SKIP LOCKED: no two live batches hold a row, and what a batch
\* read of a row it still holds (process_batch computes the new Attempts from
\* it) is what the table says.
BatchesAreIsolated ==
    \A d \in Dispatchers :
        /\ \A c \in Dispatchers \ {d} : held[c] \cap held[d] = {}
        /\ \A e \in held[d] : /\ outbox[e].state = "pending"
                              /\ seen[d][e] = outbox[e].attempts
        /\ \A e \in Events : writes[d][e] # NoRow => e \in held[d]

\* The retry schedule: a pending row has failed at most once per delay, and a
\* dead letter exactly once more, whichever dispatchers counted the failures.
ScheduleKept ==
    \A e \in Events :
        /\ outbox[e].state \in {"pending", "processed"} =>
              outbox[e].attempts <= Len(RetryDelays)
        /\ outbox[e].state = "dead" => outbox[e].attempts = Len(RetryDelays) + 1

\* The outbox implements what EventDelivery promises.
Delivery == INSTANCE EventDelivery WITH
    ChangeOf <- InvoiceOf,
    accepted <- {e \in Events : Published(e)},
    effects  <- inbox,
    settled  <- {e \in Events : outbox[e].state = "processed"},
    parked   <- {e \in Events : outbox[e].state = "dead"}

ImplementsDelivery == Delivery!Spec

\* Every row is settled, for now or for good: under any handler failures and
\* finitely many faults, a pending row is processed or becomes a dead letter.
EveryRowSettles ==
    \A e \in Events :
        outbox[e].state = "pending" ~> outbox[e].state \in {"processed", "dead"}

\* Deliveries stop failing at some point, and a person sends dead letters back.
Recovery ==
    /\ <>[][\A d \in Dispatchers : failed'[d] => failed[d]]_vars
    /\ \A e \in Events : WF_vars(RetryDeadLetter(e))

\* Deliver at least once: if consumers recover and dead letters are sent back,
\* every published event is marked processed, hence handled by everyone; no
\* inbox row, lost answer or crash wedges it.
AtLeastOnce ==
    Recovery => \A e \in Events : Published(e) ~> outbox[e].state = "processed"
=============================================================================
