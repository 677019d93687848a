---------------------------- MODULE OutboxProofs ----------------------------
(***************************************************************************)
(* What Outbox guarantees for any invoices, calls, handlers, dispatchers,  *)
(* retry schedule, batch size and number of faults.                        *)
(***************************************************************************)
EXTENDS Outbox, TLAPS

-----------------------------------------------------------------------------
(* Rows *)

\* Every row the dispatcher, the publisher or a retry writes is a row, and
\* ageing a row changes nothing but its wait.
LEMMA RowTypes ==
    /\ NoRow \in Row
    /\ FreshRow \in Row
    /\ \A n \in Nat : ProcessedRow(n) \in Row /\ FailedRow(n) \in Row
    /\ \A r \in Row : /\ Age(r) \in Row
                      /\ Age(r).state = r.state
                      /\ Age(r).attempts = r.attempts
    /\ Age(NoRow) = NoRow
<1>1. NoRow \in Row /\ FreshRow \in Row
  BY DEF NoRow, FreshRow, Row
<1>2. ASSUME NEW n \in Nat PROVE ProcessedRow(n) \in Row
  BY DEF ProcessedRow, Row
<1>3. ASSUME NEW n \in Nat PROVE FailedRow(n) \in Row
  <2>1. CASE n + 1 \in DOMAIN RetryDelays
    <3>1. RetryDelays[n + 1] \in Nat
      BY <2>1, DelaysAssumption
    <3>2. QED
      BY <2>1, <3>1 DEF FailedRow, Row
  <2>2. CASE n + 1 \notin DOMAIN RetryDelays
    BY <2>2 DEF FailedRow, Row
  <2>3. QED
    BY <2>1, <2>2
<1>4. ASSUME NEW r \in Row
      PROVE  Age(r) \in Row /\ Age(r).state = r.state /\ Age(r).attempts = r.attempts
  BY DEF Age, Row
<1>5. Age(NoRow) = NoRow
  BY DEF Age, NoRow
<1>6. QED
  BY <1>1, <1>2, <1>3, <1>4, <1>5

\* What kind of row each of them is.
LEMMA RowStates ==
    /\ NoRow.state = "absent"
    /\ FreshRow.state = "pending"
    /\ \A n \in Nat : /\ ProcessedRow(n).state = "processed"
                      /\ FailedRow(n).state \in {"pending", "dead"}
                      /\ ProcessedRow(n).attempts = n
                      /\ FailedRow(n).attempts = n + 1
BY DEF NoRow, FreshRow, ProcessedRow, FailedRow

-----------------------------------------------------------------------------
(* Types *)

\* The end of a batch leaves the dispatcher's state well typed.
LEMMA EndBatchType ==
    ASSUME TypeOK, NEW d \in Dispatchers, EndBatch(d)
    PROVE  /\ phase' \in [Dispatchers -> {"idle", "next", "deliver", "handle"}]
           /\ held' \in [Dispatchers -> SUBSET Events]
           /\ todo' \in [Dispatchers -> SUBSET Events]
           /\ seen' \in [Dispatchers -> [Events -> Nat]]
           /\ current' \in [Dispatchers -> Events \cup {NoEvent}]
           /\ next' \in [Dispatchers -> 1..(Len(Subscriptions) + 1)]
           /\ failed' \in [Dispatchers -> BOOLEAN]
           /\ writes' \in [Dispatchers -> [Events -> Row]]
<1>1. 1 \in 1..(Len(Subscriptions) + 1)
  BY SubscriptionsAssumption
<1>2. [e \in Events |-> NoRow] \in [Events -> Row]
  BY RowTypes
<1>3. [e \in Events |-> 0] \in [Events -> Nat]
  OBVIOUS
<1>4. QED
  BY <1>1, <1>2, <1>3 DEF EndBatch, TypeOK

\* Moving to the next subscription does, too, while there is one.
LEMMA AdvanceType ==
    ASSUME TypeOK, NEW d \in Dispatchers, NEW b \in BOOLEAN, Advance(d, b),
           next[d] <= Len(Subscriptions)
    PROVE  /\ phase' \in [Dispatchers -> {"idle", "next", "deliver", "handle"}]
           /\ next' \in [Dispatchers -> 1..(Len(Subscriptions) + 1)]
           /\ failed' \in [Dispatchers -> BOOLEAN]
<1>1. next[d] + 1 \in 1..(Len(Subscriptions) + 1)
  BY SubscriptionsAssumption DEF TypeOK
<1>2. next' \in [Dispatchers -> 1..(Len(Subscriptions) + 1)]
  BY <1>1 DEF Advance, TypeOK
<1>3. failed' \in [Dispatchers -> BOOLEAN]
  BY DEF Advance, TypeOK
<1>4. phase' \in [Dispatchers -> {"idle", "next", "deliver", "handle"}]
  BY DEF Advance, TypeOK
<1>5. QED
  BY <1>2, <1>3, <1>4

\* A delivery has a row in hand, a running handler is one of the subscribed
\* ones (so Key(d) is an inbox key), and an open call found its invoice.
InHand ==
    /\ \A d \in Dispatchers :
          /\ phase[d] \in {"deliver", "handle"} => current[d] \in Events
          /\ phase[d] = "handle" => next[d] <= Len(Subscriptions)
    /\ \A e \in Events : call[e] = "open" => InvoiceOf[e] \in Invoices

Typed == TypeOK /\ InHand

\* The key of a running handler is an inbox key.
LEMMA KeyType ==
    ASSUME Typed, NEW d \in Dispatchers,
           \/ phase[d] = "handle"
           \/ Delivering(d)
    PROVE  /\ current[d] \in Events
           /\ Subscriptions[next[d]] \in Handlers
           /\ Key(d) \in Events \X Handlers
<1>1. current[d] \in Events /\ next[d] \in 1..Len(Subscriptions)
  BY SubscriptionsAssumption DEF Typed, TypeOK, InHand, Delivering
<1>2. Subscriptions[next[d]] \in Handlers
  BY <1>1, SubscriptionsAssumption
<1>3. QED
  BY <1>1, <1>2 DEF Key

\* Every action of the dispatcher leaves the state well typed.
LEMMA WorkType ==
    ASSUME Typed, NEW d \in Dispatchers, Work(d)
    PROVE  TypeOK'
<1> USE DEF callVars, dbVars, batchVars
<1>1. CASE SelectBatch(d)
  <2>1. PICK batch \in SUBSET Available :
          /\ held' = [held EXCEPT ![d] = batch]
          /\ todo' = [todo EXCEPT ![d] = batch]
          /\ seen' = [seen EXCEPT ![d] =
                        [e \in Events |-> IF e \in batch
                                          THEN outbox[e].attempts ELSE 0]]
    BY <1>1 DEF SelectBatch
  <2>2. batch \subseteq Events
    BY <2>1 DEF Available, Due
  <2>3. [e \in Events |-> IF e \in batch THEN outbox[e].attempts ELSE 0]
          \in [Events -> Nat]
    BY DEF Typed, TypeOK, Row
  <2>4. /\ held' \in [Dispatchers -> SUBSET Events]
        /\ todo' \in [Dispatchers -> SUBSET Events]
        /\ seen' \in [Dispatchers -> [Events -> Nat]]
    BY <2>1, <2>2, <2>3 DEF Typed, TypeOK
  <2>5. phase' \in [Dispatchers -> {"idle", "next", "deliver", "handle"}]
    BY <1>1 DEF SelectBatch, Typed, TypeOK
  <2>6. QED
    BY <1>1, <2>4, <2>5 DEF SelectBatch, Typed, TypeOK
<1>2. CASE TakeRow(d)
  <2>1. \A e \in Events : (IF e \in Undecodable THEN Len(Subscriptions) + 1 ELSE 1)
                            \in 1..(Len(Subscriptions) + 1)
    BY SubscriptionsAssumption
  <2>2. QED
    BY <1>2, <2>1 DEF TakeRow, Typed, TypeOK
<1>3. CASE SkipHandler(d)
  BY <1>3, AdvanceType DEF SkipHandler, Delivering, Typed, TypeOK
<1>4. CASE SkipDuplicate(d)
  BY <1>4, AdvanceType DEF SkipDuplicate, Delivering, Typed, TypeOK
<1>5. CASE InsertInbox(d)
  BY <1>5 DEF InsertInbox, Typed, TypeOK
<1>6. CASE CommitHandler(d)
  <2>1. Key(d) \in Events \X Handlers
    BY <1>6, KeyType DEF CommitHandler
  <2>2. /\ inbox' \subseteq Events \X Handlers
        /\ applied' \in [Events \X Handlers -> Nat]
    BY <1>6, <2>1 DEF CommitHandler, Typed, TypeOK
  <2>3. /\ phase' \in [Dispatchers -> {"idle", "next", "deliver", "handle"}]
        /\ next' \in [Dispatchers -> 1..(Len(Subscriptions) + 1)]
        /\ failed' \in [Dispatchers -> BOOLEAN]
    BY <1>6, AdvanceType DEF CommitHandler, Typed, InHand
  <2>4. QED
    BY <1>6, <2>2, <2>3 DEF CommitHandler, Typed, TypeOK
<1>7. CASE FailHandler(d)
  BY <1>7, AdvanceType DEF FailHandler, Typed, InHand, TypeOK
<1>8. CASE PanicHandler(d)
  BY <1>8, EndBatchType DEF PanicHandler, Typed, TypeOK
<1>9. CASE RecordOutcome(d)
  <2> DEFINE n == seen[d][current[d]]
             row == IF failed[d] THEN FailedRow(n) ELSE ProcessedRow(n)
  <2>1. current[d] \in Events /\ n \in Nat
    BY <1>9 DEF RecordOutcome, Typed, TypeOK, InHand
  <2>2. row \in Row
    BY <2>1, RowTypes
  <2>3. writes' = [writes EXCEPT ![d][current[d]] = row]
    BY <1>9 DEF RecordOutcome
  <2>4. writes' \in [Dispatchers -> [Events -> Row]]
    <3> HIDE DEF row
    <3> QED  BY <2>1, <2>2, <2>3 DEF Typed, TypeOK
  <2>5. 1 \in 1..(Len(Subscriptions) + 1)
    BY SubscriptionsAssumption
  <2>6. QED
    BY <1>9, <2>4, <2>5 DEF RecordOutcome, Typed, TypeOK
<1>10. CASE CommitBatch(d)
  <2>1. outbox' \in [Events -> Row]
    BY <1>10 DEF CommitBatch, Typed, TypeOK
  <2>2. QED
    BY <1>10, <2>1, EndBatchType DEF CommitBatch, Typed, TypeOK
<1>11. CASE FailBatch(d)
  BY <1>11, EndBatchType DEF FailBatch, Typed, TypeOK
<1>12. QED
  BY <1>1, <1>2, <1>3, <1>4, <1>5, <1>6, <1>7, <1>8, <1>9, <1>10, <1>11 DEF Work

\* So does every other action.
LEMMA TypeStep == Typed /\ [Next]_vars => TypeOK'
<1> SUFFICES ASSUME Typed, [Next]_vars
             PROVE  TypeOK'
  OBVIOUS
<1> USE DEF callVars, dbVars, batchVars
<1>1. ASSUME NEW e \in Events, Finalize(e)
      PROVE  TypeOK'
  <2>1. CASE BeginFinalize(e)
    BY <2>1 DEF BeginFinalize, Typed, TypeOK
  <2>2. CASE RefuseFinalize(e)
    BY <2>2 DEF RefuseFinalize, Typed, TypeOK
  <2>3. CASE CommitFinalize(e)
    BY <2>3, RowTypes DEF CommitFinalize, Typed, TypeOK, InHand
  <2>4. CASE AbortFinalize(e)
    BY <2>4 DEF AbortFinalize, Typed, TypeOK
  <2>5. QED
    BY <1>1, <2>1, <2>2, <2>3, <2>4 DEF Finalize
<1>2. ASSUME NEW e \in Events, RetryDeadLetter(e)
      PROVE  TypeOK'
  BY <1>2, RowTypes DEF RetryDeadLetter, Typed, TypeOK
<1>3. ASSUME NEW d \in Dispatchers, LoseConnection(d)
      PROVE  TypeOK'
  <2>1. [e \in Events |-> NoRow] \in [Events -> Row]
    BY RowTypes
  <2>2. QED
    BY <1>3, <2>1, BoundsAssumption DEF LoseConnection, Fault, Typed, TypeOK
<1>4. ASSUME NEW d \in Dispatchers, Crash(d)
      PROVE  TypeOK'
  BY <1>4, EndBatchType, BoundsAssumption DEF Crash, Fault, Typed, TypeOK
<1>5. CASE Tick
  <2>1. /\ outbox' \in [Events -> Row]
        /\ writes' \in [Dispatchers -> [Events -> Row]]
    BY <1>5, RowTypes DEF Tick, Typed, TypeOK
  <2>2. QED
    BY <1>5, <2>1 DEF Tick, Typed, TypeOK
<1>6. CASE UNCHANGED vars
  BY <1>6 DEF vars, Typed, TypeOK
<1>7. QED
  BY <1>1, <1>2, <1>3, <1>4, <1>5, <1>6, WorkType DEF Next

\* A dispatcher's step changes no other dispatcher's batch.
LEMMA OthersUnchanged ==
    ASSUME Typed, NEW d \in Dispatchers, NEW c \in Dispatchers \ {d},
           Work(d) \/ LoseConnection(d) \/ Crash(d)
    PROVE  /\ phase'[c] = phase[c]
           /\ held'[c] = held[c]
           /\ todo'[c] = todo[c]
           /\ seen'[c] = seen[c]
           /\ current'[c] = current[c]
           /\ next'[c] = next[c]
           /\ failed'[c] = failed[c]
           /\ writes'[c] = writes[c]
<1> USE DEF Typed, TypeOK
<1>1. CASE SelectBatch(d)
  BY <1>1 DEF SelectBatch
<1>2. CASE TakeRow(d)
  BY <1>2 DEF TakeRow
<1>3. CASE SkipHandler(d) \/ SkipDuplicate(d) \/ FailHandler(d)
  BY <1>3 DEF SkipHandler, SkipDuplicate, FailHandler, Advance
<1>4. CASE InsertInbox(d)
  BY <1>4 DEF InsertInbox
<1>5. CASE CommitHandler(d)
  BY <1>5 DEF CommitHandler, Advance
<1>6. CASE PanicHandler(d) \/ FailBatch(d) \/ CommitBatch(d) \/ Crash(d)
  BY <1>6 DEF PanicHandler, FailBatch, CommitBatch, Crash, EndBatch
<1>7. CASE RecordOutcome(d)
  BY <1>7 DEF RecordOutcome
<1>8. CASE LoseConnection(d)
  BY <1>8 DEF LoseConnection
<1>9. QED
  BY <1>1, <1>2, <1>3, <1>4, <1>5, <1>6, <1>7, <1>8 DEF Work

\* Every step keeps a row in hand while a delivery runs.
LEMMA InHandStep == Typed /\ [Next]_vars => InHand'
<1> SUFFICES ASSUME Typed, [Next]_vars
             PROVE  InHand'
  OBVIOUS
<1> USE DEF callVars, dbVars, batchVars
<1>1. ASSUME NEW e \in Events, Finalize(e) \/ RetryDeadLetter(e)
      PROVE  InHand'
  BY <1>1 DEF Finalize, BeginFinalize, RefuseFinalize, CommitFinalize, AbortFinalize,
              RetryDeadLetter, Typed, TypeOK, InHand
<1>2. ASSUME NEW d \in Dispatchers, Work(d) \/ LoseConnection(d) \/ Crash(d)
      PROVE  InHand'
  <2>1. call' = call
    BY <1>2 DEF Work, SelectBatch, TakeRow, SkipHandler, SkipDuplicate, InsertInbox,
                CommitHandler, FailHandler, PanicHandler, RecordOutcome, CommitBatch,
                FailBatch, LoseConnection, Crash
  <2>2. \A c \in Dispatchers \ {d} :
          phase'[c] = phase[c] /\ current'[c] = current[c] /\ next'[c] = next[c]
    BY <1>2, OthersUnchanged
  <2>3. /\ phase'[d] \in {"deliver", "handle"} => current'[d] \in Events
        /\ phase'[d] = "handle" => next'[d] <= Len(Subscriptions)
    <3> USE DEF Typed, TypeOK, InHand
    <3>1. CASE SelectBatch(d)
      BY <3>1 DEF SelectBatch
    <3>2. CASE TakeRow(d)
      BY <3>2 DEF TakeRow
    <3>3. CASE SkipHandler(d) \/ SkipDuplicate(d) \/ FailHandler(d)
      BY <3>3 DEF SkipHandler, SkipDuplicate, FailHandler, Advance, Delivering
    <3>4. CASE InsertInbox(d)
      BY <3>4 DEF InsertInbox, Delivering
    <3>5. CASE CommitHandler(d)
      BY <3>5 DEF CommitHandler, Advance
    <3>6. CASE PanicHandler(d) \/ FailBatch(d) \/ CommitBatch(d) \/ Crash(d)
      BY <3>6 DEF PanicHandler, FailBatch, CommitBatch, Crash, EndBatch
    <3>7. CASE RecordOutcome(d)
      BY <3>7 DEF RecordOutcome
    <3>8. CASE LoseConnection(d)
      BY <3>8 DEF LoseConnection
    <3>9. QED
      BY <1>2, <3>1, <3>2, <3>3, <3>4, <3>5, <3>6, <3>7, <3>8 DEF Work
  <2>4. QED
    BY <2>1, <2>2, <2>3 DEF Typed, InHand
<1>3. CASE Tick \/ UNCHANGED vars
  BY <1>3 DEF Tick, vars, Typed, InHand
<1>4. QED
  BY <1>1, <1>2, <1>3 DEF Next

\* The variables keep their types, and a row in hand is a row.
THEOREM TypeCorrect == Spec => []TypeOK
<1>1. Init => Typed
  <2> SUFFICES ASSUME Init PROVE Typed
    OBVIOUS
  <2>1. 1 \in 1..(Len(Subscriptions) + 1)
    BY SubscriptionsAssumption
  <2>2. 0 \in 0..MaxFaults
    BY BoundsAssumption
  <2>3. QED
    BY <2>1, <2>2, RowTypes DEF Init, Typed, TypeOK, InHand
<1>2. Typed /\ [Next]_vars => Typed'
  BY TypeStep, InHandStep DEF Typed
<1>3. Typed => TypeOK
  BY DEF Typed
<1>4. QED
  BY <1>1, <1>2, <1>3, PTL DEF Spec

-----------------------------------------------------------------------------
(* Publishing *)

\* An update never makes a row absent: EventPublisher inserts, nothing deletes.
NothingDeleted ==
    \A d \in Dispatchers, e \in Events :
        writes[d][e].state = "absent" => writes[d][e] = NoRow

\* The status of an invoice, its row lock and its event move together.
Publishing ==
    /\ \A e, f \in Events :
          call[e] = "open" /\ call[f] = "open" /\ InvoiceOf[e] = InvoiceOf[f] => e = f
    /\ \A e \in Events :
          /\ call[e] = "open" => InvoiceOf[e] \notin finalized
          /\ call[e] = "alreadyFinalized" => InvoiceOf[e] \in finalized
          /\ Published(e) <=> call[e] \in {"finalized", "unanswered"}
          /\ Published(e) => InvoiceOf[e] \in finalized
    /\ \A i \in finalized : \E e \in Events : Published(e) /\ InvoiceOf[e] = i
    /\ \A e, f \in Events :
          Published(e) /\ Published(f) /\ InvoiceOf[e] = InvoiceOf[f] => e = f

\* A batch works on published rows, locks nothing once it is over, and holds
\* every row it still works on for as long as it holds any.
Batching ==
    \A d \in Dispatchers :
        /\ phase[d] = "idle" => held[d] = {}
        /\ \A e \in todo[d] : Published(e)
        /\ phase[d] \in {"deliver", "handle"} => Published(current[d])
        /\ Connected(d) =>
              /\ todo[d] \subseteq held[d]
              /\ phase[d] \in {"deliver", "handle"} => current[d] \in held[d]

Core == Typed /\ NothingDeleted /\ Publishing /\ Batching /\ BatchesAreIsolated

\* No step writes an absent row, except that NoRow stands for no write.
LEMMA NothingDeletedStep == Typed /\ NothingDeleted /\ [Next]_vars => NothingDeleted'
<1> SUFFICES ASSUME Typed, NothingDeleted, [Next]_vars
             PROVE  NothingDeleted'
  OBVIOUS
<1> USE DEF callVars, dbVars, batchVars
<1>1. ASSUME NEW e \in Events, Finalize(e) \/ RetryDeadLetter(e)
      PROVE  NothingDeleted'
  BY <1>1 DEF Finalize, BeginFinalize, RefuseFinalize, CommitFinalize, AbortFinalize,
              RetryDeadLetter, NothingDeleted
<1>2. ASSUME NEW d \in Dispatchers, Work(d) \/ LoseConnection(d) \/ Crash(d)
      PROVE  NothingDeleted'
  <2>1. \A c \in Dispatchers \ {d} : writes'[c] = writes[c]
    BY <1>2, OthersUnchanged
  <2>2. \A e \in Events : writes'[d][e].state = "absent" => writes'[d][e] = NoRow
    <3> USE DEF Typed, TypeOK
    <3>1. CASE RecordOutcome(d)
      <4> DEFINE n == seen[d][current[d]]
      <4>1. current[d] \in Events /\ n \in Nat
        BY <3>1 DEF RecordOutcome, InHand
      <4>2. PICK row : /\ row.state # "absent"
                       /\ writes' = [writes EXCEPT ![d][current[d]] = row]
        BY <3>1, <4>1, RowStates DEF RecordOutcome
      <4>3. QED
        BY <4>1, <4>2 DEF NothingDeleted
    <3>2. CASE PanicHandler(d) \/ FailBatch(d) \/ CommitBatch(d) \/ Crash(d)
      BY <3>2 DEF PanicHandler, FailBatch, CommitBatch, Crash, EndBatch
    <3>3. CASE LoseConnection(d)
      BY <3>3 DEF LoseConnection
    <3>4. CASE UNCHANGED writes
      BY <3>4 DEF NothingDeleted
    <3>5. QED
      BY <1>2, <3>1, <3>2, <3>3, <3>4 DEF Work, SelectBatch, TakeRow, SkipHandler,
         SkipDuplicate, InsertInbox, CommitHandler, FailHandler
  <2>3. QED
    BY <2>1, <2>2 DEF NothingDeleted
<1>3. CASE Tick
  <2> SUFFICES ASSUME NEW d \in Dispatchers, NEW e \in Events,
                      writes'[d][e].state = "absent"
               PROVE  writes'[d][e] = NoRow
    BY DEF NothingDeleted
  <2>1. writes'[d][e] = Age(writes[d][e]) /\ writes[d][e] \in Row
    BY <1>3 DEF Tick, Typed, TypeOK
  <2>2. writes[d][e] = NoRow
    BY <2>1, RowTypes DEF NothingDeleted
  <2>3. QED
    BY <2>1, <2>2, RowTypes
<1>4. CASE UNCHANGED vars
  BY <1>4 DEF vars, NothingDeleted
<1>5. QED
  BY <1>1, <1>2, <1>3, <1>4 DEF Next

\* Everything that can happen to a row of the outbox in a step.
RowStep(e) ==
    \/ outbox'[e] = outbox[e]
    \/ outbox'[e] = Age(outbox[e])
    \/ CommitFinalize(e) /\ ~ Published(e) /\ outbox'[e] = FreshRow
    \/ RetryDeadLetter(e) /\ outbox[e].state = "dead" /\ outbox'[e] = FreshRow
    \/ \E d \in Dispatchers : /\ CommitBatch(d)
                              /\ e \in held[d]
                              /\ outbox[e].state = "pending"
                              /\ writes[d][e].state # "absent"
                              /\ outbox'[e] = writes[d][e]

\* Every step of the system does one of them to each row.
LEMMA RowSteps ==
    ASSUME Core, [Next]_vars, NEW e \in Events
    PROVE  RowStep(e)
<1> USE DEF callVars, dbVars, batchVars, Core, Typed, TypeOK
<1>1. ASSUME NEW f \in Events, Finalize(f)
      PROVE  RowStep(e)
  <2>1. CASE CommitFinalize(f)
    <3>1. ~ Published(f)
      BY <2>1 DEF CommitFinalize, Publishing
    <3>2. CASE e = f
      <4>1. outbox'[e] = FreshRow
        BY <2>1, <3>2 DEF CommitFinalize
      <4>2. QED
        BY <2>1, <3>1, <3>2, <4>1 DEF RowStep
    <3>3. CASE e # f
      BY <2>1, <3>3 DEF CommitFinalize, RowStep
    <3>4. QED
      BY <3>2, <3>3
  <2>2. CASE BeginFinalize(f) \/ RefuseFinalize(f) \/ AbortFinalize(f)
    BY <2>2 DEF BeginFinalize, RefuseFinalize, AbortFinalize, RowStep
  <2>3. QED
    BY <1>1, <2>1, <2>2 DEF Finalize
<1>2. ASSUME NEW f \in Events, RetryDeadLetter(f)
      PROVE  RowStep(e)
  BY <1>2 DEF RetryDeadLetter, RowStep
<1>3. ASSUME NEW d \in Dispatchers, CommitBatch(d)
      PROVE  RowStep(e)
  <2>1. CASE writes[d][e] = NoRow
    BY <1>3, <2>1 DEF CommitBatch, RowStep
  <2>2. CASE writes[d][e] # NoRow
    <3>1. e \in held[d] /\ outbox[e].state = "pending"
      BY <2>2 DEF BatchesAreIsolated
    <3>2. writes[d][e].state # "absent"
      BY <2>2 DEF NothingDeleted
    <3>3. outbox'[e] = writes[d][e]
      BY <1>3, <2>2 DEF CommitBatch
    <3>4. QED
      BY <1>3, <3>1, <3>2, <3>3 DEF RowStep
  <2>3. QED
    BY <2>1, <2>2
<1>4. CASE Tick
  BY <1>4 DEF Tick, RowStep
<1>5. CASE UNCHANGED outbox
  BY <1>5 DEF RowStep
<1>6. QED
  BY <1>1, <1>2, <1>3, <1>4, <1>5 DEF Next, Work, SelectBatch, TakeRow, SkipHandler,
     SkipDuplicate, InsertInbox, CommitHandler, FailHandler, PanicHandler, RecordOutcome,
     FailBatch, LoseConnection, Crash, vars

\* Once published, an event stays published; only the commit of its
\* finalize_invoice publishes it.
LEMMA PublishedStep ==
    ASSUME Core, [Next]_vars, NEW e \in Events
    PROVE  /\ Published(e) => Published(e)'
           /\ Published(e)' /\ ~ Published(e) => CommitFinalize(e)
<1>1. RowStep(e)
  BY RowSteps
<1>2. outbox[e] \in Row
  BY DEF Core, Typed, TypeOK
<1>3. Age(outbox[e]).state = outbox[e].state
  BY <1>2, RowTypes
<1>4. QED
  BY <1>1, <1>3, RowStates DEF RowStep, Published

\* A row that a live batch holds is changed by nobody else, except that time
\* passes.
LEMMA HeldStep ==
    ASSUME Core, [Next]_vars, NEW c \in Dispatchers, NEW e \in held[c], ~ CommitBatch(c)
    PROVE  /\ outbox'[e].state = outbox[e].state
           /\ outbox'[e].attempts = outbox[e].attempts
<1>1. e \in Events /\ outbox[e] \in Row
  BY DEF Core, Typed, TypeOK
<1>2. outbox[e].state = "pending"
  BY DEF Core, BatchesAreIsolated
<1>3. ~ \E d \in Dispatchers : CommitBatch(d) /\ e \in held[d]
  BY DEF Core, BatchesAreIsolated
<1>4. RowStep(e)
  BY <1>1, RowSteps
<1>5. Age(outbox[e]).state = outbox[e].state /\ Age(outbox[e]).attempts = outbox[e].attempts
  BY <1>1, RowTypes
<1>6. QED
  BY <1>2, <1>3, <1>4, <1>5 DEF RowStep, Published

\* Every step keeps an invoice's status, its lock and its event together.
LEMMA PublishingStep == Core /\ [Next]_vars => Publishing'
<1> SUFFICES ASSUME Core, [Next]_vars
             PROVE  Publishing'
  OBVIOUS
<1> USE DEF callVars, dbVars, batchVars
<1>1. ASSUME UNCHANGED <<call, finalized>>,
             \A e \in Events : Published(e)' <=> Published(e)
      PROVE  Publishing'
  BY <1>1 DEF Core, Publishing
<1>2. ASSUME NEW e \in Events, CommitFinalize(e)
      PROVE  Publishing'
  <2>1. call[e] = "open" /\ ~ Published(e) /\ InvoiceOf[e] \notin finalized
    BY <1>2 DEF CommitFinalize, Core, Publishing
  <2>2. /\ call'[e] \in {"finalized", "unanswered"}
        /\ \A f \in Events \ {e} : call'[f] = call[f]
        /\ finalized' = finalized \cup {InvoiceOf[e]}
    BY <1>2 DEF CommitFinalize, Core, Typed, TypeOK
  <2>3. /\ Published(e)'
        /\ \A f \in Events \ {e} : Published(f)' <=> Published(f)
    <3>1. outbox \in [Events -> Row] /\ outbox' = [outbox EXCEPT ![e] = FreshRow]
      BY <1>2 DEF CommitFinalize, Core, Typed, TypeOK
    <3>2. outbox'[e] = FreshRow /\ \A f \in Events \ {e} : outbox'[f] = outbox[f]
      BY <3>1
    <3>3. QED
      BY <3>2, RowStates DEF Published
  <2>4. QED
    BY <2>1, <2>2, <2>3 DEF Core, Publishing
<1>3. ASSUME NEW e \in Events, Finalize(e), ~ CommitFinalize(e)
      PROVE  Publishing'
  <2>1. UNCHANGED <<finalized, outbox>>
    BY <1>3 DEF Finalize, BeginFinalize, RefuseFinalize, AbortFinalize
  <2>2. \A f \in Events : Published(f)' <=> Published(f)
    BY <2>1 DEF Published
  <2>3. CASE BeginFinalize(e)
    BY <2>1, <2>2, <2>3 DEF BeginFinalize, InvoiceFree, Core, Typed, TypeOK, Publishing
  <2>4. CASE RefuseFinalize(e) \/ AbortFinalize(e)
    <3>1. PICK s \in {"notFound", "alreadyFinalized", "aborted"} :
            /\ call[e] \in {"new", "open"}
            /\ call' = [call EXCEPT ![e] = s]
            /\ s = "alreadyFinalized" => InvoiceOf[e] \in finalized
      BY <2>4 DEF RefuseFinalize, AbortFinalize
    <3>2. call'[e] = s /\ \A f \in Events \ {e} : call'[f] = call[f]
      BY <3>1 DEF Core, Typed, TypeOK
    <3>3. QED
      BY <2>1, <2>2, <3>1, <3>2 DEF Core, Publishing
  <2>5. QED
    BY <1>3, <2>3, <2>4 DEF Finalize
<1>4. ASSUME UNCHANGED <<call, finalized>>, \A e \in Events : ~ CommitFinalize(e)
      PROVE  Publishing'
  BY <1>1, <1>4, PublishedStep
<1>5. CASE \E e \in Events : RetryDeadLetter(e)
  BY <1>4, <1>5 DEF RetryDeadLetter, CommitFinalize, Core, Typed, TypeOK
<1>6. CASE \E d \in Dispatchers : Work(d) \/ LoseConnection(d) \/ Crash(d)
  <2>1. UNCHANGED <<call, finalized>>
    BY <1>6 DEF Work, SelectBatch, TakeRow, SkipHandler, SkipDuplicate, InsertInbox,
                CommitHandler, FailHandler, PanicHandler, RecordOutcome, CommitBatch,
                FailBatch, LoseConnection, Crash
  <2>2. \A e \in Events : ~ CommitFinalize(e)
    BY <2>1 DEF CommitFinalize, Core, Typed, TypeOK
  <2>3. QED
    BY <1>4, <2>1, <2>2
<1>7. CASE Tick \/ UNCHANGED vars
  BY <1>4, <1>7 DEF Tick, vars, CommitFinalize, Core, Typed, TypeOK
<1>8. QED
  BY <1>2, <1>3, <1>5, <1>6, <1>7 DEF Next

\* Every step keeps the batches working on published rows they hold.
LEMMA BatchingStep == Core /\ [Next]_vars => Batching'
<1> SUFFICES ASSUME Core, [Next]_vars
             PROVE  Batching'
  OBVIOUS
<1> USE DEF callVars, dbVars, batchVars
<1>1. \A e \in Events : Published(e) => Published(e)'
  BY PublishedStep
<1>2. ASSUME UNCHANGED <<phase, held, todo, current>>
      PROVE  Batching'
  BY <1>1, <1>2 DEF Core, Typed, TypeOK, InHand, Batching, Connected
<1>3. ASSUME NEW d \in Dispatchers, Work(d) \/ LoseConnection(d) \/ Crash(d)
      PROVE  Batching'
  <2> DEFINE Fine(c) ==
               /\ phase[c] = "idle" => held[c] = {}
               /\ \A e \in todo[c] : Published(e)
               /\ phase[c] \in {"deliver", "handle"} => Published(current[c])
               /\ Connected(c) =>
                    /\ todo[c] \subseteq held[c]
                    /\ phase[c] \in {"deliver", "handle"} => current[c] \in held[c]
  <2> USE DEF Core, Typed, TypeOK, InHand, Batching, Connected
  <2>1. \A c \in Dispatchers \ {d} : Fine(c)'
    BY <1>1, <1>3, OthersUnchanged
  <2>2. Fine(d)'
    <3>1. CASE SelectBatch(d)
      <4>1. PICK batch \in SUBSET Available :
              /\ batch # {}
              /\ held' = [held EXCEPT ![d] = batch]
              /\ todo' = [todo EXCEPT ![d] = batch]
        BY <3>1 DEF SelectBatch
      <4>2. held'[d] = batch /\ todo'[d] = batch /\ phase'[d] = "next"
        BY <3>1, <4>1 DEF SelectBatch
      <4>3. \A e \in batch : e \in Events /\ Published(e)
        BY DEF Available, Due, Published
      <4>4. QED
        BY <1>1, <4>2, <4>3
    <3>2. CASE TakeRow(d)
      <4>1. PICK e \in todo[d] : /\ todo' = [todo EXCEPT ![d] = todo[d] \ {e}]
                                 /\ current' = [current EXCEPT ![d] = e]
        BY <3>2 DEF TakeRow
      <4>2. /\ todo'[d] = todo[d] \ {e} /\ current'[d] = e
            /\ held'[d] = held[d] /\ phase'[d] = "deliver"
        BY <3>2, <4>1 DEF TakeRow
      <4>3. QED
        BY <1>1, <4>2
    <3>3. CASE SkipHandler(d) \/ SkipDuplicate(d) \/ FailHandler(d)
      BY <1>1, <3>3 DEF SkipHandler, SkipDuplicate, FailHandler, Advance, Delivering
    <3>4. CASE InsertInbox(d)
      BY <1>1, <3>4 DEF InsertInbox, Delivering
    <3>5. CASE CommitHandler(d)
      BY <1>1, <3>5 DEF CommitHandler, Advance
    <3>6. CASE PanicHandler(d) \/ FailBatch(d) \/ CommitBatch(d) \/ Crash(d)
      BY <3>6 DEF PanicHandler, FailBatch, CommitBatch, Crash, EndBatch
    <3>7. CASE RecordOutcome(d)
      BY <1>1, <3>7 DEF RecordOutcome
    <3>8. CASE LoseConnection(d)
      BY <1>1, <3>8 DEF LoseConnection
    <3>9. QED
      BY <1>3, <3>1, <3>2, <3>3, <3>4, <3>5, <3>6, <3>7, <3>8 DEF Work
  <2>3. QED
    BY <2>1, <2>2
<1>4. QED
  BY <1>2, <1>3 DEF Next, Finalize, BeginFinalize, RefuseFinalize, CommitFinalize,
                    AbortFinalize, RetryDeadLetter, Tick, vars

\* SKIP LOCKED, and the snapshot of a row that is still locked.
LEMMA IsolationStep == Core /\ [Next]_vars => BatchesAreIsolated'
<1> SUFFICES ASSUME Core, [Next]_vars
             PROVE  BatchesAreIsolated'
  OBVIOUS
<1> USE DEF callVars, dbVars, batchVars
<1> DEFINE Current(c) == \A e \in held[c] : /\ outbox[e].state = "pending"
                                            /\ seen[c][e] = outbox[e].attempts
           Owned(c) == \A e \in Events : writes[c][e] # NoRow => e \in held[c]
<1>1. ASSUME NEW c \in Dispatchers, held'[c] = held[c], seen'[c] = seen[c], ~ CommitBatch(c)
      PROVE  Current(c)'
  <2>1. \A e \in held[c] : /\ outbox'[e].state = outbox[e].state
                           /\ outbox'[e].attempts = outbox[e].attempts
    BY <1>1, HeldStep
  <2>2. QED
    BY <1>1, <2>1 DEF Core, BatchesAreIsolated
<1>2. ASSUME UNCHANGED <<held, seen>>,
             UNCHANGED writes
               \/ writes' = [d \in Dispatchers |-> [e \in Events |-> Age(writes[d][e])]]
      PROVE  BatchesAreIsolated'
  <2>1. \A c \in Dispatchers : held[c] = {} \/ ~ CommitBatch(c)
    BY <1>2 DEF CommitBatch, EndBatch, Core, Typed, TypeOK
  <2>2. \A c \in Dispatchers : Current(c)'
    BY <1>1, <1>2, <2>1
  <2>3. \A c \in Dispatchers : Owned(c)'
    BY <1>2, RowTypes DEF Core, Typed, TypeOK, BatchesAreIsolated
  <2>4. QED
    BY <1>2, <2>2, <2>3 DEF Core, BatchesAreIsolated
<1>3. ASSUME NEW d \in Dispatchers, Work(d) \/ LoseConnection(d) \/ Crash(d)
      PROVE  BatchesAreIsolated'
  <2>1. \A c \in Dispatchers \ {d} :
          held'[c] = held[c] /\ seen'[c] = seen[c] /\ writes'[c] = writes[c]
    BY <1>3, OthersUnchanged DEF Core
  <2>2. \A c \in Dispatchers \ {d} : ~ CommitBatch(c)
    BY <1>3, OthersUnchanged DEF CommitBatch, EndBatch, Core, Typed, TypeOK
  <2>3. \A c \in Dispatchers \ {d} : Current(c)' /\ Owned(c)'
    <3> SUFFICES ASSUME NEW c \in Dispatchers \ {d} PROVE Current(c)' /\ Owned(c)'
      OBVIOUS
    <3>1. Current(c)'
      BY <1>1, <2>1, <2>2
    <3>2. Owned(c)'
      BY <2>1 DEF Core, BatchesAreIsolated
    <3>3. QED
      BY <3>1, <3>2
  <2>4. /\ Current(d)' /\ Owned(d)'
        /\ \A c \in Dispatchers \ {d} : held'[c] \cap held'[d] = {}
    <3> USE DEF Core, Typed, TypeOK
    <3>1. CASE SelectBatch(d)
      <4>1. PICK batch \in SUBSET Available :
              /\ held' = [held EXCEPT ![d] = batch]
              /\ seen' = [seen EXCEPT ![d] =
                            [e \in Events |-> IF e \in batch
                                              THEN outbox[e].attempts ELSE 0]]
        BY <3>1 DEF SelectBatch
      <4>2. /\ held'[d] = batch
            /\ \A e \in batch : /\ e \in Events
                                /\ outbox'[e].state = "pending"
                                /\ seen'[d][e] = outbox'[e].attempts
        BY <3>1, <4>1 DEF SelectBatch, Available, Due
      <4>3. \A c \in Dispatchers : held[c] \cap batch = {}
        BY DEF Available, Locked
      <4>4. Owned(d)'
        BY <3>1, <4>2 DEF SelectBatch, Batching, BatchesAreIsolated
      <4>5. QED
        BY <2>1, <4>2, <4>3, <4>4
    <3>2. CASE PanicHandler(d) \/ FailBatch(d) \/ CommitBatch(d) \/ Crash(d)
      BY <3>2 DEF PanicHandler, FailBatch, CommitBatch, Crash, EndBatch
    <3>3. CASE LoseConnection(d)
      BY <3>3 DEF LoseConnection
    <3>4. CASE RecordOutcome(d)
      <4>1. UNCHANGED <<held, seen, outbox>> /\ current[d] \in held[d]
        BY <3>4 DEF RecordOutcome, Batching
      <4>2. \A e \in Events \ {current[d]} : writes'[d][e] = writes[d][e]
        BY <3>4 DEF RecordOutcome
      <4>3. QED
        BY <4>1, <4>2 DEF BatchesAreIsolated
    <3>5. CASE UNCHANGED <<held, seen, writes, outbox>>
      BY <3>5 DEF BatchesAreIsolated
    <3>6. QED
      BY <1>3, <3>1, <3>2, <3>3, <3>4, <3>5 DEF Work, TakeRow, SkipHandler, SkipDuplicate,
         InsertInbox, CommitHandler, FailHandler
  <2>5. QED
    BY <2>1, <2>3, <2>4 DEF Core, BatchesAreIsolated
<1>4. QED
  BY <1>2, <1>3 DEF Next, Finalize, BeginFinalize, RefuseFinalize, CommitFinalize,
                    AbortFinalize, RetryDeadLetter, Tick, vars

\* The part of the inductive invariant that later proofs start from.
THEOREM CoreInvariant == Spec => []Core
<1>1. Init => Core
  <2> SUFFICES ASSUME Init PROVE Core
    OBVIOUS
  <2>1. Typed
    <3>1. 1 \in 1..(Len(Subscriptions) + 1)
      BY SubscriptionsAssumption
    <3>2. 0 \in 0..MaxFaults
      BY BoundsAssumption
    <3>3. QED
      BY <3>1, <3>2, RowTypes DEF Init, Typed, TypeOK, InHand
  <2>2. NothingDeleted /\ Publishing /\ Batching /\ BatchesAreIsolated
    BY RowStates DEF Init, NothingDeleted, Publishing, Published, Batching, Connected,
                     BatchesAreIsolated
  <2>3. QED
    BY <2>1, <2>2 DEF Core
<1>2. Core /\ [Next]_vars => Core'
  BY TypeStep, InHandStep, NothingDeletedStep, PublishingStep, BatchingStep, IsolationStep
     DEF Core, Typed
<1>3. QED
  BY <1>1, <1>2, PTL DEF Spec

\* An invoice is final exactly when one event of its own is in the outbox.
THEOREM PublishesOnce == Spec => []PublishedOnce
<1>1. Core => PublishedOnce
  BY DEF Core, Publishing, PublishedOnce
<1>2. QED
  BY <1>1, CoreInvariant, PTL

\* No two live batches share a row, and what a batch read of a row it holds is
\* what the table says.
THEOREM IsolatesBatches == Spec => []BatchesAreIsolated
<1>1. Core => BatchesAreIsolated
  BY DEF Core
<1>2. QED
  BY <1>1, CoreInvariant, PTL

-----------------------------------------------------------------------------
(* Applying *)

\* An open inbox transaction has the only claim to its key.
SoleClaim ==
    \A d \in Dispatchers : phase[d] = "handle" =>
        /\ Key(d) \notin inbox
        /\ \A c \in Dispatchers \ {d} : phase[c] = "handle" => Key(c) # Key(d)

\* An inbox row names a published event.
HandledWasPublished ==
    \A e \in Events, h \in Handlers : <<e, h>> \in inbox => Published(e)

\* A delivery without a failure so far has an inbox row for every subscription
\* it has passed.
Passed(d) ==
    phase[d] \in {"deliver", "handle"} /\ ~ failed[d] =>
        \A j \in 1..Len(Subscriptions) :
            j < next[d] => <<current[d], Subscriptions[j]>> \in inbox

Handling ==
    SoleClaim /\ HandledWasPublished /\ \A d \in Dispatchers : Passed(d)

IInv == Core /\ Handling /\ AppliedOnce /\ ProcessedMeansHandled

\* The inbox only grows, by the key of a handler that commits.
LEMMA InboxStep ==
    ASSUME Core, [Next]_vars
    PROVE  /\ inbox \subseteq inbox'
           /\ \/ UNCHANGED <<inbox, applied>>
              \/ \E d \in Dispatchers : CommitHandler(d)
<1> USE DEF callVars, dbVars, batchVars
<1>1. ASSUME NEW d \in Dispatchers, CommitHandler(d)
      PROVE  inbox \subseteq inbox'
  BY <1>1 DEF CommitHandler
<1>2. QED
  BY <1>1 DEF Next, Finalize, BeginFinalize, RefuseFinalize, CommitFinalize, AbortFinalize,
     RetryDeadLetter, Work, SelectBatch, TakeRow, SkipHandler, SkipDuplicate, InsertInbox,
     FailHandler, PanicHandler, RecordOutcome, CommitBatch, FailBatch, LoseConnection,
     Crash, Tick, vars

\* A handler that commits had no inbox row and no effect before.
LEMMA AppliedStep == IInv /\ [Next]_vars => AppliedOnce'
<1> SUFFICES ASSUME IInv, [Next]_vars
             PROVE  AppliedOnce'
  OBVIOUS
<1>1. CASE UNCHANGED <<inbox, applied>>
  BY <1>1 DEF IInv, AppliedOnce
<1>2. ASSUME NEW d \in Dispatchers, CommitHandler(d)
      PROVE  AppliedOnce'
  <2>1. Key(d) \in Events \X Handlers
    BY <1>2, KeyType DEF CommitHandler, IInv, Core
  <2>2. Key(d) \notin inbox /\ applied[Key(d)] = 0
    BY <1>2, <2>1 DEF CommitHandler, IInv, Handling, SoleClaim, AppliedOnce
  <2>3. inbox' = inbox \cup {Key(d)} /\ applied' = [applied EXCEPT ![Key(d)] = 1]
    BY <1>2, <2>2 DEF CommitHandler
  <2>4. applied \in [Events \X Handlers -> Nat]
    BY DEF IInv, Core, Typed, TypeOK
  <2>5. QED
    BY <2>1, <2>2, <2>3, <2>4 DEF IInv, AppliedOnce
<1>3. QED
  BY <1>1, <1>2, InboxStep DEF IInv

\* Only the row in hand is handled, and it is published.
LEMMA HandledWasPublishedStep == IInv /\ [Next]_vars => HandledWasPublished'
<1> SUFFICES ASSUME IInv, [Next]_vars
             PROVE  HandledWasPublished'
  OBVIOUS
<1>1. \A e \in Events : Published(e) => Published(e)'
  BY PublishedStep DEF IInv
<1>2. CASE UNCHANGED <<inbox, applied>>
  BY <1>1, <1>2 DEF IInv, Handling, HandledWasPublished
<1>3. ASSUME NEW d \in Dispatchers, CommitHandler(d)
      PROVE  HandledWasPublished'
  <2>1. inbox' = inbox \cup {Key(d)} /\ Published(current[d])
    BY <1>3 DEF CommitHandler, IInv, Core, Batching
  <2>2. SUFFICES ASSUME NEW e \in Events, NEW h \in Handlers, <<e, h>> \in inbox'
                PROVE  Published(e)'
    BY DEF HandledWasPublished
  <2>3. CASE <<e, h>> \in inbox
    BY <1>1, <2>3 DEF IInv, Handling, HandledWasPublished
  <2>4. CASE <<e, h>> = Key(d)
    <3>1. e = current[d]
      BY <2>4 DEF Key
    <3>2. QED
      BY <1>1, <2>1, <3>1
  <2>5. QED
    BY <2>1, <2>2, <2>3, <2>4
<1>4. QED
  BY <1>2, <1>3, InboxStep DEF IInv

\* The wait on the unique key keeps two open inbox transactions apart.
LEMMA SoleClaimStep == IInv /\ [Next]_vars => SoleClaim'
<1> SUFFICES ASSUME IInv, [Next]_vars
             PROVE  SoleClaim'
  OBVIOUS
<1> USE DEF callVars, dbVars, batchVars
<1>1. ASSUME UNCHANGED <<phase, current, next, inbox>>
      PROVE  SoleClaim'
  BY <1>1 DEF IInv, Handling, SoleClaim, Key
<1>2. ASSUME NEW d \in Dispatchers, Work(d) \/ LoseConnection(d) \/ Crash(d)
      PROVE  SoleClaim'
  <2>1. \A c \in Dispatchers \ {d} : phase'[c] = phase[c] /\ Key(c)' = Key(c)
    BY <1>2, OthersUnchanged DEF Key, IInv, Core
  <2> USE DEF IInv, Core, Typed, TypeOK, Handling
  <2>2. ASSUME phase'[d] # "handle",
               inbox' = inbox \/ (inbox' = inbox \cup {Key(d)} /\ phase[d] = "handle")
        PROVE  SoleClaim'
    <3> SUFFICES ASSUME NEW c \in Dispatchers, phase'[c] = "handle"
                 PROVE  /\ Key(c)' \notin inbox'
                        /\ \A b \in Dispatchers \ {c} :
                              phase'[b] = "handle" => Key(b)' # Key(c)'
      BY DEF SoleClaim
    <3>1. c # d /\ phase[c] = "handle" /\ Key(c)' = Key(c)
      BY <2>1, <2>2
    <3>2. Key(c) \notin inbox
      BY <3>1 DEF SoleClaim
    <3>3. phase[d] = "handle" => Key(d) # Key(c)
      BY <3>1 DEF SoleClaim
    <3>4. \A b \in Dispatchers \ {c} : phase'[b] = "handle" => Key(b)' # Key(c)'
      <4> SUFFICES ASSUME NEW b \in Dispatchers \ {c}, phase'[b] = "handle"
                   PROVE  Key(b)' # Key(c)'
        OBVIOUS
      <4>1. phase[b] = "handle" /\ Key(b)' = Key(b)
        BY <2>1, <2>2
      <4>2. QED
        BY <3>1, <4>1 DEF SoleClaim
    <3>5. QED
      BY <2>2, <3>1, <3>2, <3>3, <3>4
  <2>3. CASE InsertInbox(d)
    <3>1. /\ phase' = [phase EXCEPT ![d] = "handle"]
          /\ current' = current /\ next' = next /\ inbox' = inbox
          /\ Key(d) \notin inbox
          /\ \A c \in Dispatchers : phase[c] = "handle" => Key(c) # Key(d)
      BY <2>3 DEF InsertInbox
    <3>2. \A c \in Dispatchers : Key(c)' = Key(c)
      BY <3>1 DEF Key
    <3>3. QED
      BY <3>1, <3>2 DEF SoleClaim
  <2>4. CASE CommitHandler(d)
    BY <2>2, <2>4 DEF CommitHandler, Advance
  <2>5. CASE LoseConnection(d)
    BY <1>1, <2>5 DEF LoseConnection
  <2>6. CASE SelectBatch(d) \/ TakeRow(d) \/ RecordOutcome(d)
    BY <2>2, <2>6 DEF SelectBatch, TakeRow, RecordOutcome
  <2>7. CASE SkipHandler(d) \/ SkipDuplicate(d) \/ FailHandler(d)
    BY <2>2, <2>7 DEF SkipHandler, SkipDuplicate, FailHandler, Advance
  <2>8. CASE PanicHandler(d) \/ FailBatch(d) \/ CommitBatch(d) \/ Crash(d)
    BY <2>2, <2>8 DEF PanicHandler, FailBatch, CommitBatch, Crash, EndBatch
  <2>9. QED
    BY <1>2, <2>3, <2>4, <2>5, <2>6, <2>7, <2>8 DEF Work
<1>3. QED
  BY <1>1, <1>2 DEF Next, Finalize, BeginFinalize, RefuseFinalize, CommitFinalize,
                    AbortFinalize, RetryDeadLetter, Tick, vars

\* A delivery moves past a subscription with an inbox row or with a failure.
LEMMA PassedStep ==
    ASSUME IInv, [Next]_vars, NEW d \in Dispatchers
    PROVE  Passed(d)'
<1> USE DEF callVars, dbVars, batchVars
<1>1. inbox \subseteq inbox'
  BY InboxStep DEF IInv
<1>2. Passed(d)
  BY DEF IInv, Handling
<1>3. ASSUME phase'[d] = phase[d], current'[d] = current[d], next'[d] = next[d],
             failed'[d] = failed[d]
      PROVE  Passed(d)'
  BY <1>1, <1>2, <1>3 DEF Passed
<1>4. ASSUME NEW c \in Dispatchers \ {d}, Work(c) \/ LoseConnection(c) \/ Crash(c)
      PROVE  Passed(d)'
  BY <1>3, <1>4, OthersUnchanged DEF IInv, Core
<1>5. ASSUME Work(d) \/ LoseConnection(d) \/ Crash(d)
      PROVE  Passed(d)'
  <2> USE DEF IInv, Core, Typed, TypeOK
  <2>1. Len(Subscriptions) \in Nat /\ next[d] \in Nat
    BY SubscriptionsAssumption
  <2>2. ASSUME phase[d] \in {"deliver", "handle"},
               current'[d] = current[d], next'[d] = next[d] + 1, failed[d] => failed'[d],
               <<current[d], Subscriptions[next[d]]>> \in inbox'
        PROVE  Passed(d)'
    <3> SUFFICES ASSUME ~ failed[d], NEW j \in 1..Len(Subscriptions), j < next[d] + 1
                 PROVE  <<current[d], Subscriptions[j]>> \in inbox'
      BY <2>2 DEF Passed
    <3>1. CASE j < next[d]
      BY <1>1, <1>2, <2>2, <3>1 DEF Passed
    <3>2. CASE j = next[d]
      BY <2>2, <3>2
    <3>3. QED
      BY <2>1, <3>1, <3>2
  <2>3. CASE CommitHandler(d)
    <3>1. /\ phase[d] = "handle" /\ current'[d] = current[d] /\ next'[d] = next[d] + 1
          /\ failed[d] => failed'[d]
          /\ Key(d) \in inbox'
      BY <2>3 DEF CommitHandler, Advance
    <3>2. QED
      BY <2>2, <3>1 DEF Key
  <2>4. CASE SkipDuplicate(d)
    <3>1. /\ phase[d] = "deliver" /\ current'[d] = current[d] /\ next'[d] = next[d] + 1
          /\ failed'[d] = failed[d]
          /\ Key(d) \in inbox'
      BY <2>4 DEF SkipDuplicate, Advance, Delivering
    <3>2. QED
      BY <2>2, <3>1 DEF Key
  <2>5. CASE InsertInbox(d)
    BY <1>2, <2>5 DEF InsertInbox, Delivering, Passed
  <2>6. CASE TakeRow(d)
    <3>1. PICK e \in todo[d] :
            /\ failed' = [failed EXCEPT ![d] = e \in Undecodable]
            /\ next' = [next EXCEPT ![d] = IF e \in Undecodable
                                           THEN Len(Subscriptions) + 1 ELSE 1]
      BY <2>6 DEF TakeRow
    <3>2. failed'[d] \/ next'[d] = 1
      BY <3>1
    <3>3. QED
      BY <2>1, <3>2 DEF Passed
  <2>7. CASE SkipHandler(d) \/ FailHandler(d)
    BY <2>7 DEF SkipHandler, FailHandler, Advance, Passed
  <2>8. CASE SelectBatch(d) \/ RecordOutcome(d)
    BY <2>8 DEF SelectBatch, RecordOutcome, Passed
  <2>9. CASE PanicHandler(d) \/ FailBatch(d) \/ CommitBatch(d) \/ Crash(d)
    BY <2>9 DEF PanicHandler, FailBatch, CommitBatch, Crash, EndBatch, Passed
  <2>10. CASE LoseConnection(d)
    BY <1>3, <2>10 DEF LoseConnection
  <2>11. QED
    BY <1>5, <2>3, <2>4, <2>5, <2>6, <2>7, <2>8, <2>9, <2>10 DEF Work
<1>6. ASSUME UNCHANGED <<phase, current, next, failed>>
      PROVE  Passed(d)'
  BY <1>3, <1>6
<1>7. QED
  BY <1>4, <1>5, <1>6 DEF Next, Finalize, BeginFinalize, RefuseFinalize, CommitFinalize,
                          AbortFinalize, RetryDeadLetter, Tick, vars

\* A row is marked processed, in the table or in an open batch, only with every
\* inbox row present.
LEMMA ProcessedStep == IInv /\ [Next]_vars => ProcessedMeansHandled'
<1> SUFFICES ASSUME IInv, [Next]_vars
             PROVE  ProcessedMeansHandled'
  OBVIOUS
<1> USE DEF callVars, dbVars, batchVars
<1>1. \A e \in Events : Handled(e) => Handled(e)'
  BY InboxStep DEF IInv, Handled
<1>2. \A e \in Events : outbox'[e].state = "processed" => Handled(e)'
  <2> SUFFICES ASSUME NEW e \in Events, outbox'[e].state = "processed"
               PROVE  Handled(e)'
    OBVIOUS
  <2>1. RowStep(e)
    BY RowSteps DEF IInv
  <2>2. outbox[e].state = "processed" \/ \E d \in Dispatchers : writes[d][e].state = "processed"
    <3>1. Age(outbox[e]).state = outbox[e].state
      BY RowTypes DEF IInv, Core, Typed, TypeOK
    <3>2. QED
      BY <2>1, <3>1, RowStates DEF RowStep
  <2>3. QED
    BY <1>1, <2>2 DEF IInv, ProcessedMeansHandled
<1>3. ASSUME NEW d \in Dispatchers, NEW e \in Events, writes'[d][e].state = "processed"
      PROVE  Handled(e)'
  <2>1. CASE writes[d][e].state = "processed"
    BY <1>1, <2>1 DEF IInv, ProcessedMeansHandled
  <2>2. CASE writes[d][e].state # "processed"
    <3>1. RecordOutcome(d) /\ e = current[d] /\ ~ failed[d]
      <4> USE DEF IInv, Core, Typed, TypeOK, InHand
      <4>1. ASSUME NEW f \in Events, Finalize(f) \/ RetryDeadLetter(f)
            PROVE  FALSE
        BY <1>3, <2>2, <4>1 DEF Finalize, BeginFinalize, RefuseFinalize, CommitFinalize,
                                AbortFinalize, RetryDeadLetter
      <4>2. ~ Tick
        <5>1. Age(writes[d][e]).state = writes[d][e].state
          BY RowTypes
        <5>2. QED
          BY <1>3, <2>2, <5>1 DEF Tick
      <4>3. ~ UNCHANGED vars
        BY <1>3, <2>2 DEF vars
      <4>4. ASSUME NEW c \in Dispatchers \ {d}, Work(c) \/ LoseConnection(c) \/ Crash(c)
            PROVE  FALSE
        BY <1>3, <2>2, <4>4, OthersUnchanged
      <4>5. Work(d) \/ LoseConnection(d) \/ Crash(d)
        BY <4>1, <4>2, <4>3, <4>4 DEF Next
      <4>6. writes'[d][e] # NoRow
        BY <1>3, RowStates
      <4>7. ~ (LoseConnection(d) \/ PanicHandler(d) \/ FailBatch(d) \/ CommitBatch(d) \/ Crash(d))
        BY <4>6 DEF LoseConnection, PanicHandler, FailBatch, CommitBatch, Crash, EndBatch
      <4>8. RecordOutcome(d)
        BY <1>3, <2>2, <4>5, <4>7 DEF Work, SelectBatch, TakeRow, SkipHandler,
           SkipDuplicate, InsertInbox, CommitHandler, FailHandler
      <4>9. /\ current[d] \in Events /\ seen[d][current[d]] \in Nat
            /\ writes' = [writes EXCEPT ![d][current[d]] =
                             IF failed[d] THEN FailedRow(seen[d][current[d]])
                             ELSE ProcessedRow(seen[d][current[d]])]
        BY <4>8 DEF RecordOutcome
      <4>10. e = current[d]
        BY <1>3, <2>2, <4>9
      <4>11. failed[d] => writes'[d][e] = FailedRow(seen[d][current[d]])
        BY <4>9, <4>10
      <4>12. ~ failed[d]
        BY <1>3, <4>9, <4>11, RowStates
      <4>13. QED
        BY <4>8, <4>10, <4>12
    <3>2. phase[d] = "deliver" /\ next[d] > Len(Subscriptions) /\ inbox' = inbox
      BY <3>1 DEF RecordOutcome
    <3>3. \A j \in 1..Len(Subscriptions) : <<e, Subscriptions[j]>> \in inbox
      <4>1. Len(Subscriptions) \in Nat /\ next[d] \in Nat
        BY SubscriptionsAssumption DEF IInv, Core, Typed, TypeOK
      <4>2. Passed(d)
        BY DEF IInv, Handling
      <4>3. QED
        BY <3>1, <3>2, <4>1, <4>2 DEF Passed
    <3>4. QED
      BY <3>2, <3>3, SubscriptionsAssumption DEF Handled
  <2>3. QED
    BY <2>1, <2>2
<1>4. QED
  BY <1>2, <1>3 DEF ProcessedMeansHandled

\* The whole inductive invariant.
THEOREM InductiveInvariant == Spec => []IInv
<1>1. Init => Handling /\ AppliedOnce /\ ProcessedMeansHandled
  BY RowStates DEF Init, Handling, SoleClaim, HandledWasPublished, Passed, AppliedOnce,
                   ProcessedMeansHandled
<1>2. IInv /\ Core' /\ [Next]_vars => IInv'
  BY AppliedStep, HandledWasPublishedStep, SoleClaimStep, PassedStep, ProcessedStep
     DEF IInv, Handling
<1>3. Core /\ Handling /\ AppliedOnce /\ ProcessedMeansHandled => IInv
  BY DEF IInv
<1>4. QED
  BY <1>1, <1>2, <1>3, CoreInvariant, PTL DEF Spec

\* inbox::run applies an event at most once per handler, and exactly when the
\* inbox says so, under every interleaving, redelivery, lost lock and crash.
THEOREM AppliesOnce == Spec => []AppliedOnce
<1>1. IInv => AppliedOnce
  BY DEF IInv
<1>2. QED
  BY <1>1, InductiveInvariant, PTL

\* process_batch marks a row processed only when every handler has succeeded.
THEOREM ProcessesHandled == Spec => []ProcessedMeansHandled
<1>1. IInv => ProcessedMeansHandled
  BY DEF IInv
<1>2. QED
  BY <1>1, InductiveInvariant, PTL

-----------------------------------------------------------------------------
(* Answering *)

\* Whatever finalize_invoice answered its callers, it did, and what it refused
\* or rolled back left nothing behind.
THEOREM AnswersTruly == Spec => []AnswersAreTrue
<1>1. IInv => AnswersAreTrue
  <2> SUFFICES ASSUME IInv, NEW e \in Events
               PROVE  /\ call[e] \in {"finalized", "unanswered"} => Published(e)
                      /\ call[e] = "alreadyFinalized" =>
                            \E f \in Events \ {e} :
                                Published(f) /\ InvoiceOf[f] = InvoiceOf[e]
                      /\ call[e] \in {"open", "aborted", "alreadyFinalized", "notFound"} =>
                            ~ Published(e) /\ \A h \in Handlers : applied[e, h] = 0
    BY DEF AnswersAreTrue
  <2>1. Published(e) <=> call[e] \in {"finalized", "unanswered"}
    BY DEF IInv, Core, Publishing
  <2>2. ASSUME call[e] = "alreadyFinalized"
        PROVE  \E f \in Events \ {e} : Published(f) /\ InvoiceOf[f] = InvoiceOf[e]
    BY <2>1, <2>2 DEF IInv, Core, Publishing
  <2>3. ASSUME ~ Published(e), NEW h \in Handlers
        PROVE  applied[e, h] = 0
    BY <2>3 DEF IInv, Handling, HandledWasPublished, AppliedOnce
  <2>4. QED
    BY <2>1, <2>2, <2>3
<1>2. QED
  BY <1>1, InductiveInvariant, PTL

-----------------------------------------------------------------------------
(* Retrying *)

\* Everything that can happen to an uncommitted row update in a step.
WriteStep(d, e) ==
    \/ writes'[d][e] = writes[d][e]
    \/ writes'[d][e] = Age(writes[d][e])
    \/ writes'[d][e] = NoRow
    \/ /\ RecordOutcome(d) /\ e = current[d]
       /\ writes'[d][e] = IF failed[d] THEN FailedRow(seen[d][e])
                          ELSE ProcessedRow(seen[d][e])

\* Every step does one of them to each.
LEMMA WriteSteps ==
    ASSUME Typed, [Next]_vars, NEW d \in Dispatchers, NEW e \in Events
    PROVE  WriteStep(d, e)
<1> USE DEF callVars, dbVars, batchVars, Typed, TypeOK
<1>1. ASSUME NEW f \in Events, Finalize(f) \/ RetryDeadLetter(f)
      PROVE  WriteStep(d, e)
  BY <1>1 DEF Finalize, BeginFinalize, RefuseFinalize, CommitFinalize, AbortFinalize,
              RetryDeadLetter, WriteStep
<1>2. ASSUME NEW c \in Dispatchers \ {d}, Work(c) \/ LoseConnection(c) \/ Crash(c)
      PROVE  WriteStep(d, e)
  BY <1>2, OthersUnchanged DEF WriteStep
<1>3. ASSUME Work(d) \/ LoseConnection(d) \/ Crash(d)
      PROVE  WriteStep(d, e)
  <2>1. CASE RecordOutcome(d)
    <3>1. current[d] \in Events
      BY <2>1 DEF RecordOutcome, InHand
    <3>2. CASE e = current[d]
      BY <2>1, <3>1, <3>2 DEF RecordOutcome, WriteStep
    <3>3. CASE e # current[d]
      BY <2>1, <3>1, <3>3 DEF RecordOutcome, WriteStep
    <3>4. QED
      BY <3>2, <3>3
  <2>2. CASE PanicHandler(d) \/ FailBatch(d) \/ CommitBatch(d) \/ Crash(d)
    BY <2>2 DEF PanicHandler, FailBatch, CommitBatch, Crash, EndBatch, WriteStep
  <2>3. CASE LoseConnection(d)
    BY <2>3 DEF LoseConnection, WriteStep
  <2>4. CASE UNCHANGED writes
    BY <2>4 DEF WriteStep
  <2>5. QED
    BY <1>3, <2>1, <2>2, <2>3, <2>4 DEF Work, SelectBatch, TakeRow, SkipHandler,
       SkipDuplicate, InsertInbox, CommitHandler, FailHandler
<1>4. CASE Tick \/ UNCHANGED vars
  BY <1>4 DEF Tick, vars, WriteStep
<1>5. QED
  BY <1>1, <1>2, <1>3, <1>4 DEF Next

\* A batch's snapshot of a row's Attempts comes from a pending row.
LEMMA SeenStep ==
    ASSUME Typed, [Next]_vars, NEW d \in Dispatchers, NEW e \in Events
    PROVE  \/ seen'[d][e] \in {0, seen[d][e]}
           \/ outbox[e].state = "pending" /\ seen'[d][e] = outbox[e].attempts
<1> USE DEF callVars, dbVars, batchVars
<1>1. ASSUME NEW c \in Dispatchers \ {d}, Work(c) \/ LoseConnection(c) \/ Crash(c)
      PROVE  seen'[d] = seen[d]
  BY <1>1, OthersUnchanged
<1>2. ASSUME Work(d) \/ LoseConnection(d) \/ Crash(d)
      PROVE  \/ seen'[d][e] \in {0, seen[d][e]}
             \/ outbox[e].state = "pending" /\ seen'[d][e] = outbox[e].attempts
  <2>1. CASE SelectBatch(d)
    <3>1. PICK batch \in SUBSET Available :
            seen' = [seen EXCEPT ![d] =
                       [f \in Events |-> IF f \in batch THEN outbox[f].attempts ELSE 0]]
      BY <2>1 DEF SelectBatch
    <3>2. seen'[d][e] = IF e \in batch THEN outbox[e].attempts ELSE 0
      BY <3>1 DEF Typed, TypeOK
    <3>3. e \in batch => outbox[e].state = "pending"
      BY DEF Available, Due
    <3>4. QED
      BY <3>2, <3>3
  <2>2. CASE PanicHandler(d) \/ FailBatch(d) \/ CommitBatch(d) \/ Crash(d)
    BY <2>2 DEF PanicHandler, FailBatch, CommitBatch, Crash, EndBatch, Typed, TypeOK
  <2>3. CASE UNCHANGED seen
    BY <2>3
  <2>4. QED
    BY <1>2, <2>1, <2>2, <2>3 DEF Work, TakeRow, SkipHandler, SkipDuplicate, InsertInbox,
       CommitHandler, FailHandler, RecordOutcome, LoseConnection
<1>3. CASE UNCHANGED seen
  BY <1>3
<1>4. QED
  BY <1>1, <1>2, <1>3 DEF Next, Finalize, BeginFinalize, RefuseFinalize, CommitFinalize,
                          AbortFinalize, RetryDeadLetter, Tick, vars

\* A row's failures against the schedule: at most one per delay, and a dead
\* letter one more.
OnSchedule(row) ==
    /\ row.state \in {"pending", "processed"} => row.attempts <= Len(RetryDelays)
    /\ row.state = "dead" => row.attempts = Len(RetryDelays) + 1

\* Every row is on schedule, the uncommitted ones too, and so is what a batch
\* will count from, even one that has lost its locks.
Scheduling ==
    /\ \A e \in Events : OnSchedule(outbox[e])
    /\ \A d \in Dispatchers, e \in Events :
          OnSchedule(writes[d][e]) /\ seen[d][e] <= Len(RetryDelays)

\* record_failure moves a row along the schedule, and no further than its end.
LEMMA RowsOnSchedule ==
    /\ OnSchedule(NoRow)
    /\ OnSchedule(FreshRow)
    /\ \A n \in 0..Len(RetryDelays) : OnSchedule(ProcessedRow(n)) /\ OnSchedule(FailedRow(n))
    /\ \A r \in Row : OnSchedule(r) => OnSchedule(Age(r))
<1>1. Len(RetryDelays) \in Nat /\ DOMAIN RetryDelays = 1..Len(RetryDelays)
  BY DelaysAssumption
<1>2. OnSchedule(NoRow) /\ OnSchedule(FreshRow)
  BY <1>1 DEF OnSchedule, NoRow, FreshRow
<1>3. ASSUME NEW n \in 0..Len(RetryDelays)
      PROVE  OnSchedule(ProcessedRow(n)) /\ OnSchedule(FailedRow(n))
  <2>1. OnSchedule(ProcessedRow(n))
    BY DEF OnSchedule, ProcessedRow
  <2>2. CASE n + 1 \in DOMAIN RetryDelays
    BY <1>1, <2>1, <2>2 DEF OnSchedule, FailedRow
  <2>3. CASE n + 1 \notin DOMAIN RetryDelays
    BY <1>1, <2>1, <2>3 DEF OnSchedule, FailedRow
  <2>4. QED
    BY <2>2, <2>3
<1>4. ASSUME NEW r \in Row, OnSchedule(r)
      PROVE  OnSchedule(Age(r))
  BY <1>4, RowTypes DEF OnSchedule
<1>5. QED
  BY <1>2, <1>3, <1>4

\* Every step keeps every row on schedule.
LEMMA SchedulingStep == Core /\ Scheduling /\ [Next]_vars => Scheduling'
<1> SUFFICES ASSUME Core, Scheduling, [Next]_vars
             PROVE  Scheduling'
  OBVIOUS
<1>1. ASSUME NEW e \in Events
      PROVE  OnSchedule(outbox'[e])
  <2>1. RowStep(e) /\ outbox[e] \in Row
    BY RowSteps DEF Core, Typed, TypeOK
  <2>2. QED
    BY <2>1, RowsOnSchedule DEF RowStep, Scheduling
<1>2. ASSUME NEW d \in Dispatchers, NEW e \in Events
      PROVE  OnSchedule(writes'[d][e])
  <2>1. WriteStep(d, e) /\ writes[d][e] \in Row
    BY WriteSteps DEF Core, Typed, TypeOK
  <2>2. seen[d][e] \in 0..Len(RetryDelays)
    BY DelaysAssumption DEF Scheduling, Core, Typed, TypeOK
  <2>3. QED
    BY <2>1, <2>2, RowsOnSchedule DEF WriteStep, Scheduling
<1>3. ASSUME NEW d \in Dispatchers, NEW e \in Events
      PROVE  seen'[d][e] <= Len(RetryDelays)
  <2>1. \/ seen'[d][e] \in {0, seen[d][e]}
        \/ outbox[e].state = "pending" /\ seen'[d][e] = outbox[e].attempts
    BY SeenStep DEF Core
  <2>2. QED
    BY <2>1, DelaysAssumption DEF Scheduling, OnSchedule
<1>4. QED
  BY <1>1, <1>2, <1>3 DEF Scheduling

\* However many dispatchers count the failures of a row, and whatever locks
\* they lose meanwhile, it is retried once per delay and then set aside.
THEOREM KeepsSchedule == Spec => []ScheduleKept
<1>1. Init => Scheduling
  BY RowsOnSchedule, DelaysAssumption DEF Init, Scheduling
<1>2. Core /\ Scheduling /\ [Next]_vars => Scheduling'
  BY SchedulingStep
<1>3. Scheduling => ScheduleKept
  BY DEF Scheduling, OnSchedule, ScheduleKept
<1>4. QED
  BY <1>1, <1>2, <1>3, CoreInvariant, PTL DEF Spec

-----------------------------------------------------------------------------
(* Undeliverable rows *)

\* A row that cannot be decoded reaches no handler, a handler without a
\* database opens no transaction, and what panics leaves no inbox row.
Refusing ==
    /\ \A d \in Dispatchers :
          /\ phase[d] \in {"deliver", "handle"} /\ current[d] \in Undecodable =>
                next[d] > Len(Subscriptions)
          /\ phase[d] = "handle" => Subscriptions[next[d]] \notin Unregistered
    /\ \A e \in Events, h \in Handlers :
          <<e, h>> \in inbox => e \notin Undecodable \cup Panicking /\ h \notin Unregistered

\* A handler commits only for a row, and a subscriber, that can take it.
LEMMA RefusingStep == Core /\ Refusing /\ [Next]_vars => Refusing'
<1> SUFFICES ASSUME Core, Refusing, [Next]_vars
             PROVE  Refusing'
  OBVIOUS
<1> USE DEF callVars, dbVars, batchVars
<1> DEFINE Fine(d) ==
             /\ phase[d] \in {"deliver", "handle"} /\ current[d] \in Undecodable =>
                   next[d] > Len(Subscriptions)
             /\ phase[d] = "handle" => Subscriptions[next[d]] \notin Unregistered
<1>1. ASSUME NEW d \in Dispatchers
      PROVE  Fine(d)'
  <2>1. Fine(d)
    BY DEF Refusing
  <2>2. ASSUME phase'[d] = phase[d], current'[d] = current[d], next'[d] = next[d]
        PROVE  Fine(d)'
    BY <2>1, <2>2
  <2>3. ASSUME NEW c \in Dispatchers \ {d}, Work(c) \/ LoseConnection(c) \/ Crash(c)
        PROVE  Fine(d)'
    BY <2>2, <2>3, OthersUnchanged DEF Core
  <2>4. ASSUME Work(d) \/ LoseConnection(d) \/ Crash(d)
        PROVE  Fine(d)'
    <3> USE DEF Core, Typed, TypeOK
    <3>1. CASE TakeRow(d)
      <4>1. PICK e \in todo[d] :
              /\ current' = [current EXCEPT ![d] = e]
              /\ next' = [next EXCEPT ![d] = IF e \in Undecodable
                                             THEN Len(Subscriptions) + 1 ELSE 1]
        BY <3>1 DEF TakeRow
      <4>2. /\ phase'[d] = "deliver" /\ current'[d] = e
            /\ e \in Undecodable => next'[d] = Len(Subscriptions) + 1
        BY <3>1, <4>1 DEF TakeRow
      <4>3. Len(Subscriptions) \in Nat
        BY SubscriptionsAssumption
      <4>4. QED
        BY <4>2, <4>3
    <3>2. CASE SkipHandler(d) \/ SkipDuplicate(d) \/ CommitHandler(d) \/ FailHandler(d)
      <4>1. /\ phase[d] \in {"deliver", "handle"} /\ current'[d] = current[d]
            /\ phase'[d] = "deliver" /\ next'[d] = next[d] + 1
        BY <3>2 DEF SkipHandler, SkipDuplicate, CommitHandler, FailHandler, Advance,
                    Delivering
      <4>2. Len(Subscriptions) \in Nat /\ next[d] \in Nat
        BY SubscriptionsAssumption
      <4>3. QED
        BY <2>1, <4>1, <4>2
    <3>3. CASE InsertInbox(d)
      BY <2>1, <3>3 DEF InsertInbox, Delivering
    <3>4. CASE PanicHandler(d) \/ FailBatch(d) \/ CommitBatch(d) \/ Crash(d)
      BY <3>4 DEF PanicHandler, FailBatch, CommitBatch, Crash, EndBatch
    <3>5. CASE SelectBatch(d) \/ RecordOutcome(d)
      BY <3>5 DEF SelectBatch, RecordOutcome
    <3>6. CASE LoseConnection(d)
      BY <2>2, <3>6 DEF LoseConnection
    <3>7. QED
      BY <2>4, <3>1, <3>2, <3>3, <3>4, <3>5, <3>6 DEF Work
  <2>5. CASE UNCHANGED <<phase, current, next>>
    BY <2>2, <2>5
  <2>6. QED
    BY <2>3, <2>4, <2>5 DEF Next, Finalize, BeginFinalize, RefuseFinalize, CommitFinalize,
                            AbortFinalize, RetryDeadLetter, Tick, vars
<1>2. ASSUME NEW e \in Events, NEW h \in Handlers, <<e, h>> \in inbox'
      PROVE  e \notin Undecodable \cup Panicking /\ h \notin Unregistered
  <2>1. CASE <<e, h>> \in inbox
    BY <2>1 DEF Refusing
  <2>2. CASE <<e, h>> \notin inbox
    <3>1. PICK d \in Dispatchers : CommitHandler(d)
      BY <1>2, <2>2, InboxStep
    <3>2. /\ phase[d] = "handle" /\ current[d] \notin Panicking
          /\ e = current[d] /\ h = Subscriptions[next[d]]
      BY <1>2, <2>2, <3>1 DEF CommitHandler, Key
    <3>3. next[d] <= Len(Subscriptions) /\ next[d] \in Nat /\ Len(Subscriptions) \in Nat
      BY <3>2, SubscriptionsAssumption DEF Core, Typed, TypeOK, InHand
    <3>4. QED
      BY <3>2, <3>3 DEF Refusing
  <2>3. QED
    BY <2>1, <2>2
<1> HIDE DEF Fine
<1>3. (\A d \in Dispatchers : Fine(d)')
        /\ (\A e \in Events, h \in Handlers : <<e, h>> \in inbox' =>
                e \notin Undecodable \cup Panicking /\ h \notin Unregistered)
  BY <1>1, <1>2
<1>4. QED
  BY <1>3 DEF Refusing, Fine

\* A row that some subscriber cannot take is never passed off as delivered.
THEOREM NeverSettlesUndeliverable == Spec => []UndeliverableNeverSettles
<1>1. Init => Refusing
  BY DEF Init, Refusing
<1>2. IInv /\ Refusing /\ [Next]_vars => Refusing'
  BY RefusingStep DEF IInv
<1>3. IInv /\ Refusing => UndeliverableNeverSettles
  <2> SUFFICES ASSUME IInv, Refusing, NEW e \in Events,
                      e \in Undecodable \cup Panicking \/ Unregistered # {}
               PROVE  /\ outbox[e].state # "processed"
                      /\ \A h \in Handlers :
                            e \in Undecodable \/ h \in Unregistered => applied[e, h] = 0
    BY DEF UndeliverableNeverSettles
  <2>1. PICK h \in Handlers : <<e, h>> \notin inbox
    BY HandlersAssumption DEF Refusing
  <2>2. outbox[e].state # "processed"
    BY <2>1 DEF IInv, ProcessedMeansHandled, Handled
  <2>3. ASSUME NEW g \in Handlers, e \in Undecodable \/ g \in Unregistered
        PROVE  applied[e, g] = 0
    BY <2>3 DEF Refusing, IInv, AppliedOnce
  <2>4. QED
    BY <2>2, <2>3
<1>4. QED
  BY <1>1, <1>2, <1>3, InductiveInvariant, PTL DEF Spec

-----------------------------------------------------------------------------
(* The outbox implements EventDelivery *)

\* The refinement mapping of Delivery.
Accepted == {e \in Events : Published(e)}
Settled  == {e \in Events : outbox[e].state = "processed"}
Parked   == {e \in Events : outbox[e].state = "dead"}

\* A step that leaves every row's state and the inbox alone is a stutter.
LEMMA Stutters ==
    ASSUME inbox' = inbox, \A e \in Events : outbox'[e].state = outbox[e].state
    PROVE  UNCHANGED Delivery!abstractVars
<1>1. Accepted' = Accepted /\ Settled' = Settled /\ Parked' = Parked
  BY DEF Accepted, Settled, Parked, Published
<1>2. QED
  BY <1>1 DEF Delivery!abstractVars, Accepted, Settled, Parked

\* The commit of finalize_invoice accepts its event, the only one of its change.
LEMMA CommitAccepts ==
    ASSUME IInv, NEW e \in Events, CommitFinalize(e)
    PROVE  Delivery!Accept(e)
<1> USE DEF IInv, Core
<1>1. /\ outbox'[e] = FreshRow /\ \A f \in Events \ {e} : outbox'[f] = outbox[f]
      /\ inbox' = inbox
  BY DEF CommitFinalize, Typed, TypeOK
<1>2. outbox[e].state = "absent" /\ InvoiceOf[e] \notin finalized
  BY DEF CommitFinalize, Publishing, Published
<1>3. \A f \in Accepted : InvoiceOf[f] # InvoiceOf[e]
  BY <1>2 DEF Publishing, Accepted
<1>4. Accepted' = Accepted \cup {e}
  BY <1>1, RowStates DEF Accepted, Published
<1>5. Settled' = Settled /\ Parked' = Parked
  BY <1>1, <1>2, RowStates DEF Settled, Parked
<1>6. QED
  BY <1>1, <1>3, <1>4, <1>5 DEF Delivery!Accept, Accepted, Settled, Parked

\* The commit of a handler is its effect, on an event that is not settled: a
\* processed row has every inbox row already.
LEMMA CommitTakesEffect ==
    ASSUME IInv, NEW d \in Dispatchers, CommitHandler(d)
    PROVE  \E e \in Events, h \in Handlers : Delivery!TakeEffect(e, h)
<1> USE DEF IInv, Core
<1> DEFINE e == current[d]
           h == Subscriptions[next[d]]
<1>1. phase[d] = "handle" /\ inbox' = inbox \cup {<<e, h>>} /\ outbox' = outbox
  BY DEF CommitHandler, Key
<1>2. e \in Events /\ h \in Handlers
  BY <1>1, KeyType
<1>3. <<e, h>> \notin inbox
  BY <1>1 DEF Handling, SoleClaim, Key
<1>4. Published(e)
  BY <1>1 DEF Batching
<1>5. outbox[e].state # "processed"
  BY <1>2, <1>3 DEF ProcessedMeansHandled, Handled
<1> HIDE DEF e, h
<1>6. e \in Accepted \ Settled
  BY <1>2, <1>4, <1>5 DEF Accepted, Settled
<1>7. Accepted' = Accepted /\ Settled' = Settled /\ Parked' = Parked
  BY <1>1 DEF Accepted, Settled, Parked, Published
<1>8. Delivery!TakeEffect(e, h)
  BY <1>1, <1>3, <1>6, <1>7 DEF Delivery!TakeEffect, Accepted, Settled, Parked
<1>9. QED
  BY <1>2, <1>8

\* The commit of a batch settles the rows it marked processed and parks the
\* ones it gave up on.
LEMMA CommitConcludes ==
    ASSUME IInv, NEW d \in Dispatchers, CommitBatch(d)
    PROVE  \E S, T \in SUBSET Events : Delivery!Conclude(S, T)
<1> USE DEF IInv, Core
<1> DEFINE done == {e \in Events : writes[d][e].state = "processed"}
           dead == {e \in Events : writes[d][e].state = "dead"}
<1>1. /\ inbox' = inbox
      /\ \A e \in Events : outbox'[e] = IF writes[d][e] = NoRow THEN outbox[e]
                                        ELSE writes[d][e]
  BY DEF CommitBatch
<1>2. \A e \in Events : writes[d][e] # NoRow =>
         outbox[e].state = "pending" /\ writes[d][e].state # "absent"
  BY DEF BatchesAreIsolated, NothingDeleted
<1>3. NoRow.state = "absent"
  BY RowStates
<1>4. done \cup dead \subseteq Accepted \ (Settled \cup Parked)
  BY <1>2, <1>3 DEF Accepted, Settled, Parked, Published
<1>5. done \X Handlers \subseteq inbox
  BY DEF ProcessedMeansHandled, Handled
<1>6. Accepted' = Accepted
  BY <1>1, <1>2 DEF Accepted, Published
<1>7. Settled' = Settled \cup done
  BY <1>1, <1>2, <1>3 DEF Settled
<1>8. Parked' = Parked \cup dead
  BY <1>1, <1>2, <1>3 DEF Parked
<1>9. done \cap dead = {} /\ done \in SUBSET Events /\ dead \in SUBSET Events
  OBVIOUS
<1> HIDE DEF done, dead
<1>10. ASSUME NEW S \in SUBSET Events, NEW T \in SUBSET Events, S = done, T = dead
       PROVE  Delivery!Conclude(S, T)
  BY <1>10, <1>1, <1>4, <1>5, <1>6, <1>7, <1>8, <1>9
     DEF Delivery!Conclude, Accepted, Settled, Parked
<1>11. QED
  BY <1>9, <1>10

\* A retried dead letter is no longer parked.
LEMMA RetryUnparks ==
    ASSUME IInv, NEW e \in Events, RetryDeadLetter(e)
    PROVE  Delivery!Unpark(e)
<1>1. /\ outbox'[e] = FreshRow /\ \A f \in Events \ {e} : outbox'[f] = outbox[f]
      /\ inbox' = inbox
  BY DEF RetryDeadLetter, IInv, Core, Typed, TypeOK
<1>2. outbox[e].state = "dead"
  BY DEF RetryDeadLetter
<1>3. Accepted' = Accepted /\ Settled' = Settled
  BY <1>1, <1>2, RowStates DEF Accepted, Settled, Published
<1>4. Parked' = Parked \ {e} /\ e \in Parked
  BY <1>1, <1>2, RowStates DEF Parked
<1>5. QED
  BY <1>1, <1>3, <1>4 DEF Delivery!Unpark, Accepted, Settled, Parked

\* Every step is a step of EventDelivery, or a stutter.
LEMMA DeliveryStep == IInv /\ [Next]_vars => [Delivery!Next]_(Delivery!abstractVars)
<1> SUFFICES ASSUME IInv, [Next]_vars
             PROVE  Delivery!Next \/ UNCHANGED Delivery!abstractVars
  OBVIOUS
<1> USE DEF callVars, dbVars, batchVars
<1>1. CASE UNCHANGED <<outbox, inbox>>
  BY <1>1, Stutters
<1>2. CASE Tick
  <2>1. \A e \in Events : outbox'[e].state = outbox[e].state
    BY <1>2, RowTypes DEF Tick, IInv, Core, Typed, TypeOK
  <2>2. QED
    BY <1>2, <2>1, Stutters DEF Tick
<1>3. CASE \E e \in Events : CommitFinalize(e)
  BY <1>3, CommitAccepts DEF Delivery!Next
<1>4. CASE \E e \in Events : RetryDeadLetter(e)
  BY <1>4, RetryUnparks DEF Delivery!Next
<1>5. CASE \E d \in Dispatchers : CommitHandler(d)
  BY <1>5, CommitTakesEffect DEF Delivery!Next
<1>6. CASE \E d \in Dispatchers : CommitBatch(d)
  BY <1>6, CommitConcludes DEF Delivery!Next
<1>7. QED
  BY <1>1, <1>2, <1>3, <1>4, <1>5, <1>6 DEF Next, Finalize, BeginFinalize, RefuseFinalize,
     AbortFinalize, Work, SelectBatch, TakeRow, SkipHandler, SkipDuplicate, InsertInbox,
     FailHandler, PanicHandler, RecordOutcome, FailBatch, LoseConnection, Crash, vars

\* The outbox, with its dispatchers, locks, retries and faults, does only what
\* EventDelivery allows.
THEOREM DeliversAsPromised == Spec => ImplementsDelivery
<1>1. Init => Delivery!Init
  BY RowStates DEF Init, Delivery!Init, Published
<1>2. IInv /\ [Next]_vars => [Delivery!Next]_(Delivery!abstractVars)
  BY DeliveryStep
<1>3. QED
  BY <1>1, <1>2, InductiveInvariant, PTL DEF Spec, ImplementsDelivery, Delivery!Spec

=============================================================================
