----------------------------- MODULE WorkQueue -----------------------------
(***************************************************************************)
(* ModuleWorkQueue (shared-kernel/src/concurrency.rs): a bounded channel    *)
(* with one consumer, a hosted task.  The outbox dispatcher and the         *)
(* integrity job run their work through it and never give up on it; an      *)
(* HTTP request that runs the integrity checks may.                         *)
(*                                                                         *)
(* A call is one ModuleWorkQueue::run.  Between its two awaits (the permit  *)
(* and the result) it runs on its own thread, beside the consumer, so the   *)
(* permit, the count and the send are separate steps.                       *)
(*                                                                         *)
(* Of tokio's mpsc channel this keeps: permits granted first come first     *)
(* served; a permit freed as soon as an item is received; a closed channel  *)
(* refusing those who wait, while a permit already granted stays good; and  *)
(* the receiver's drop closing the channel first and dropping what it then  *)
(* holds.  The queue itself keeps a sender, so nothing else frees an item.  *)
(*                                                                         *)
(* A definition named X_Something is X with a bug: replacing X by it breaks *)
(* a property below, which shows that the property depends on X.           *)
(***************************************************************************)
EXTENDS Integers, Sequences, FiniteSets, SequencesExt

CONSTANTS
    Calls,      \* the calls of ModuleWorkQueue::run
    Impatient,  \* those whose caller may go away before the result is there
    Panicking,  \* those whose work panics
    Capacity,   \* the queue's capacity
    NoCall      \* "no item taken"

ASSUME CallsAssumption ==
    /\ IsFiniteSet(Calls)
    /\ Impatient \subseteq Calls
    /\ Panicking \subseteq Calls
    /\ NoCall \notin Calls
ASSUME CapacityAssumption == Capacity \in Nat \ {0}

VARIABLES
    stage,     \* [Calls -> where the call stands]
    waiters,   \* the calls waiting for a permit, first come first
    channel,   \* the items sent and not received
    reply,     \* [Calls -> what became of the item's reply sender]
    waiting,   \* the `waiting` counter
    consumer,  \* where the consumer stands
    item,      \* the item the consumer has received
    closed,    \* the receiver has closed the channel
    stopping,  \* the host's stopping token is cancelled
    started,   \* [Calls -> Nat]: times the call's work was started
    finished   \* [Calls -> Nat]: times it ran to its end, panics included

callVars     == <<stage, waiters>>
consumerVars == <<consumer, item, closed>>
workVars     == <<reply, started, finished>>
vars == <<callVars, consumerVars, workVars, channel, waiting, stopping>>

-----------------------------------------------------------------------------

Init ==
    /\ stage = [c \in Calls |-> "new"]
    /\ waiters = <<>>
    /\ channel = <<>>
    /\ reply = [c \in Calls |-> "held"]
    /\ waiting = 0
    /\ consumer = "unstarted"
    /\ item = NoCall
    /\ closed = FALSE
    /\ stopping = FALSE
    /\ started = [c \in Calls |-> 0]
    /\ finished = [c \in Calls |-> 0]

InStage(s) == {c \in Calls : stage[c] = s}

\* A permit is free when neither an item nor a permit holder has it.
PermitFree ==
    Len(channel) + Cardinality(InStage("permitted"))
                 + Cardinality(InStage("counted")) < Capacity

-----------------------------------------------------------------------------
(* ModuleWorkQueue::run and enqueue *)

\* reserve().await, first polled: a permit at once if nobody is ahead.
Reserve(c) ==
    /\ stage[c] = "new"
    /\ ~ closed
    /\ IF waiters = <<>> /\ PermitFree
       THEN /\ stage' = [stage EXCEPT ![c] = "permitted"]
            /\ UNCHANGED waiters
       ELSE /\ stage' = [stage EXCEPT ![c] = "waiting"]
            /\ waiters' = Append(waiters, c)
    /\ UNCHANGED <<consumerVars, workVars, channel, waiting, stopping>>

\* The first in line gets the permit that was freed.
Grant(c) ==
    /\ stage[c] = "waiting"
    /\ ~ closed
    /\ waiters # <<>> /\ Head(waiters) = c
    /\ PermitFree
    /\ stage' = [stage EXCEPT ![c] = "permitted"]
    /\ waiters' = Tail(waiters)
    /\ UNCHANGED <<consumerVars, workVars, channel, waiting, stopping>>

\* Only a call that arrives after the close is refused.
Refuse_LateOnly(c) ==
    /\ closed
    /\ stage[c] = "new"
    /\ stage' = [stage EXCEPT ![c] = "stopped"]
    /\ UNCHANGED <<waiters, consumerVars, workVars, channel, waiting, stopping>>

\* reserve() fails once the channel is closed: WorkError::Stopped.
Refuse(c) ==
    /\ closed
    /\ stage[c] \in {"new", "waiting"}
    /\ stage' = [stage EXCEPT ![c] = "stopped"]
    /\ waiters' = RemoveFirst(waiters, c)
    /\ UNCHANGED <<consumerVars, workVars, channel, waiting, stopping>>

\* With the permit in hand: count the item...
Count(c) ==
    /\ stage[c] = "permitted"
    /\ stage' = [stage EXCEPT ![c] = "counted"]
    /\ waiting' = waiting + 1
    /\ UNCHANGED <<waiters, consumerVars, workVars, channel, stopping>>

\* ... then send it.
Send(c) ==
    /\ stage[c] = "counted"
    /\ stage' = [stage EXCEPT ![c] = "sent"]
    /\ channel' = Append(channel, c)
    /\ UNCHANGED <<waiters, consumerVars, workVars, waiting, stopping>>

\* Sends first and counts second.
Enqueue_SendFirst(c) ==
    \/ /\ stage[c] = "permitted"
       /\ stage' = [stage EXCEPT ![c] = "counted"]
       /\ channel' = Append(channel, c)
       /\ UNCHANGED <<waiters, consumerVars, workVars, waiting, stopping>>
    \/ /\ stage[c] = "counted"
       /\ stage' = [stage EXCEPT ![c] = "sent"]
       /\ waiting' = waiting + 1
       /\ UNCHANGED <<waiters, consumerVars, workVars, channel, stopping>>

\* Reserve first, count second, send last.
Enqueue(c) == Count(c) \/ Send(c)

\* result.await returns: the value, the panic, or Stopped when the item was
\* dropped with its reply sender.
Answer(c) ==
    /\ stage[c] = "sent"
    /\ reply[c] # "held"
    /\ stage' = [stage EXCEPT ![c] =
                   CASE reply[c] = "value"   -> "done"
                     [] reply[c] = "panic"   -> "panicked"
                     [] reply[c] = "dropped" -> "stopped"]
    /\ UNCHANGED <<waiters, consumerVars, workVars, channel, waiting, stopping>>

\* The caller's future is dropped at one of its awaits.  An item already
\* queued stays queued.
GiveUp(c) ==
    /\ c \in Impatient
    /\ stage[c] \in {"waiting", "sent"}
    /\ stage' = [stage EXCEPT ![c] = "gaveUp"]
    /\ waiters' = RemoveFirst(waiters, c)
    /\ UNCHANGED <<consumerVars, workVars, channel, waiting, stopping>>

-----------------------------------------------------------------------------
(* The consumer *)

\* RunningServices::start spawns the hosted task, which takes the receiver.
Start ==
    /\ consumer = "unstarted"
    /\ consumer' = "selecting"
    /\ UNCHANGED <<callVars, workVars, item, closed, channel, waiting, stopping>>

\* recv(): the permit is free again at once.
Receive ==
    /\ consumer = "selecting"
    /\ channel # <<>>
    /\ item' = Head(channel)
    /\ channel' = Tail(channel)
    /\ consumer' = "received"
    /\ UNCHANGED <<callVars, workVars, closed, waiting, stopping>>

\* The item is no longer waiting; its work starts.
StartWork ==
    /\ consumer = "received"
    /\ waiting' = waiting - 1
    /\ started' = [started EXCEPT ![item] = started[item] + 1]
    /\ consumer' = "running"
    /\ UNCHANGED <<callVars, item, closed, reply, finished, channel, stopping>>

\* The work ran to its end, or panicked, which `run` catches: the outcome goes
\* to the caller, if it is still there, and the consumer moves on.
FinishWork ==
    /\ consumer = "running"
    /\ finished' = [finished EXCEPT ![item] = finished[item] + 1]
    /\ reply' = [reply EXCEPT ![item] =
                   IF item \in Panicking THEN "panic" ELSE "value"]
    /\ item' = NoCall
    /\ consumer' = "selecting"
    /\ UNCHANGED <<callVars, closed, started, channel, waiting, stopping>>

\* The running work is dropped when the host stops.
Close_MidWork ==
    /\ consumer \in {"selecting", "running"}
    /\ stopping
    /\ closed' = TRUE
    /\ consumer' = "closing"
    /\ item' = NoCall
    /\ reply' = IF item = NoCall THEN reply
                ELSE [reply EXCEPT ![item] = "dropped"]
    /\ UNCHANGED <<callVars, started, finished, channel, waiting, stopping>>

\* The select takes the cancelled token, at random if an item is there too,
\* and returns; dropping the receiver first closes the channel.
Close ==
    /\ consumer = "selecting"
    /\ stopping
    /\ closed' = TRUE
    /\ consumer' = "closing"
    /\ UNCHANGED <<callVars, workVars, item, channel, waiting, stopping>>

\* The receiver then drops the items it finds, with their reply senders.
Drain ==
    /\ consumer = "closing"
    /\ channel' = <<>>
    /\ reply' = [c \in Calls |-> IF \E i \in 1..Len(channel) : channel[i] = c
                                 THEN "dropped" ELSE reply[c]]
    /\ consumer' = "ended"
    /\ UNCHANGED <<callVars, item, closed, started, finished, waiting, stopping>>

\* RunningServices::stop, or its drop, cancels the token.
Stop ==
    /\ ~ stopping
    /\ stopping' = TRUE
    /\ UNCHANGED <<callVars, consumerVars, workVars, channel, waiting>>

-----------------------------------------------------------------------------

\* What a call does once it has been made and as long as its caller is there.
Proceed(c) == Grant(c) \/ (stage[c] = "waiting" /\ Refuse(c))
              \/ Enqueue(c) \/ Answer(c)

Consume == Start \/ Receive \/ StartWork \/ FinishWork \/ Close \/ Drain

Next ==
    \/ \E c \in Calls : Reserve(c) \/ Refuse(c) \/ Proceed(c) \/ GiveUp(c)
    \/ Consume
    \/ Stop

Spec == Init /\ [][Next]_vars

\* The runtime runs every task that can go on, and every item of work ends.
\* Nobody is obliged to call, to give up or to stop the host.
Fairness ==
    /\ \A c \in Calls : WF_vars(Proceed(c))
    /\ WF_vars(Consume)

FairSpec == Spec /\ Fairness

-----------------------------------------------------------------------------
(* Properties *)

TypeOK ==
    /\ stage \in [Calls -> {"new", "waiting", "permitted", "counted", "sent",
                            "done", "panicked", "stopped", "gaveUp"}]
    /\ waiters \in Seq(Calls)
    /\ channel \in Seq(Calls)
    /\ reply \in [Calls -> {"held", "value", "panic", "dropped"}]
    /\ waiting \in Nat
    /\ consumer \in {"unstarted", "selecting", "received", "running",
                     "closing", "ended"}
    /\ item \in Calls \cup {NoCall}
    /\ closed \in BOOLEAN
    /\ stopping \in BOOLEAN
    /\ started \in [Calls -> Nat]
    /\ finished \in [Calls -> Nat]

\* "Reserve first and count second": until the consumer leaves, the counter is
\* the items in the channel, those about to be sent and the one just received.
\* So fetch_sub never wraps below zero, and count() never reads more than one
\* above the capacity, whatever the producers interleave.
CountKept ==
    /\ ~ closed =>
          waiting = Len(channel) + Cardinality(InStage("counted"))
                    + (IF consumer = "received" THEN 1 ELSE 0)
    /\ waiting \in 0..(Capacity + 1)

\* What run() answers is what happened: a value or a panic after the work ran
\* once to its end, and Stopped only for work that was never started.
AnswersAreTrue ==
    \A c \in Calls :
        /\ stage[c] = "done" => finished[c] = 1 /\ c \notin Panicking
        /\ stage[c] = "panicked" => finished[c] = 1 /\ c \in Panicking
        /\ stage[c] = "stopped" => started[c] = 0
        /\ finished[c] <= started[c] /\ started[c] <= 1

\* A panicking item never stops the queue for the others: the channel closes
\* only because the host is stopping.
ConsumerSurvives == closed => stopping

Pending(c) == stage[c] \in {"waiting", "permitted", "counted", "sent"}

\* The item was sent on a permit that outlived the receiver: nothing is left
\* to run it, or to drop it with its reply sender.
Stranded(c) ==
    /\ consumer = "ended"
    /\ \E i \in 1..Len(channel) : channel[i] = c

\* Every call ends, before and after the host stops, unless its item is
\* stranded: no waiter is left behind by a close, a panic or a caller that
\* gave up.
AnsweredUnlessStranded ==
    \A c \in Calls : Pending(c) ~> (~ Pending(c) \/ Stranded(c))

\* concurrency.rs: run returns Stopped "when the consumer has gone or stops
\* first", so no call is left without an answer.
EveryRunAnswers == \A c \in Calls : Pending(c) ~> ~ Pending(c)
=============================================================================
