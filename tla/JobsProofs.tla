---------------------------- MODULE JobsProofs ----------------------------
(***************************************************************************)
(* The work queue, and the orphan checks that run on it.                   *)
(*                                                                         *)
(* What the queue guarantees for any calls, callers and capacity.          *)
(*                                                                         *)
(* A run of the checks that has the findings to itself is exact, for any   *)
(* checks and tables, any number of hosts and any changes between its      *)
(* statements.  While it runs, the checks it has opened have a finding for *)
(* every row that was an orphan throughout, and those it has resolved none *)
(* for a row that never was (Exact); what changes under a statement that   *)
(* has read and not yet written is neither.                                *)
(***************************************************************************)
EXTENDS WorkQueue, Integrity, FiniteSetTheorems, SequenceTheorems,
        WellFoundedInduction, TLAPS

-----------------------------------------------------------------------------
(* The work queue *)

Stages == {"new", "waiting", "permitted", "counted", "sent", "done", "panicked",
           "stopped", "gaveUp"}

-----------------------------------------------------------------------------
(* Helpers *)

\* What is left of a sequence of calls is a sequence of calls.
LEMMA RemoveFirstType ==
    ASSUME NEW s \in Seq(Calls), NEW c
    PROVE  RemoveFirst(s, c) \in Seq(Calls)
<1> DEFINE I == {i \in 1..Len(s) : s[i] = c}
<1>1. CASE \E i \in 1..Len(s) : s[i] = c
  <2>1. I # {} /\ I \subseteq 1..Len(s)
    BY <1>1
  <2>2. SelectInSeq(s, LAMBDA v : v = c) = Min(I)
    BY <2>1 DEF SelectInSeq
  <2>3. Min(I) \in I
    <3>1. I \subseteq Nat
      OBVIOUS
    <3>2. PICK m \in I : \A n \in I : ~ (<<n, m>> \in OpToRel(<, Nat))
      BY <2>1, <3>1, NatLessThanWellFounded, WFMin
    <3>3. \A n \in I : m <= n
      <4>1. OpToRel(<, Nat) = {ss \in Nat \X Nat : ss[1] < ss[2]}
        BY Zenon DEF OpToRel
      <4>2. \A a, b \in Nat : a < b => <<a, b>> \in OpToRel(<, Nat)
        BY <4>1
      <4>3. ASSUME NEW n \in I PROVE m <= n
        <5>1. m \in Nat /\ n \in Nat
          BY <3>1
        <5>2. ~ (n < m)
          BY <3>2, <4>2, <5>1
        <5>3. QED
          BY <5>1, <5>2
      <4>4. QED
        BY <4>3
    <3>4. QED
      BY <3>1, <3>3 DEF Min
  <2> DEFINE i == Min(I)
  <2>4. i \in 1..Len(s) /\ RemoveFirst(s, c) = RemoveAt(s, i)
    BY <1>1, <2>2, <2>3 DEF RemoveFirst
  <2>5. SubSeq(s, 1, i - 1) \in Seq(Calls) /\ SubSeq(s, i + 1, Len(s)) \in Seq(Calls)
    <3> HIDE DEF i, I
    <3>1. \A j \in 1..Len(s) : s[j] \in Calls
      OBVIOUS
    <3>2. QED
      BY <2>4, <3>1, SubSeqProperties
  <2>6. QED
    BY <2>4, <2>5 DEF RemoveAt
<1>2. CASE ~ \E i \in 1..Len(s) : s[i] = c
  BY <1>2 DEF RemoveFirst
<1>3. QED
  BY <1>1, <1>2

\* The calls at a stage can be counted.
LEMMA StagesAreFinite ==
    ASSUME NEW s
    PROVE  IsFiniteSet(InStage(s)) /\ Cardinality(InStage(s)) \in Nat
<1>1. InStage(s) \subseteq Calls
  BY DEF InStage
<1>2. QED
  BY <1>1, CallsAssumption, FS_Subset, FS_CardinalityType

\* How a call that goes from one stage to another changes the counts.
LEMMA Moves ==
    ASSUME stage \in [Calls -> Stages], NEW c \in Calls, NEW t \in Stages,
           stage' = [stage EXCEPT ![c] = t], stage[c] # t, NEW CONSTANT s
    PROVE  /\ Cardinality(InStage(s)') \in Nat
           /\ s = t => Cardinality(InStage(s)') = Cardinality(InStage(s)) + 1
           /\ s = stage[c] =>
                 Cardinality(InStage(s)') = Cardinality(InStage(s)) - 1
           /\ s # t /\ s # stage[c] =>
                 Cardinality(InStage(s)') = Cardinality(InStage(s))
<1>1. IsFiniteSet(InStage(s)) /\ Cardinality(InStage(s)) \in Nat
  BY StagesAreFinite
<1>2. CASE s = t
  <2>1. InStage(s)' = InStage(s) \cup {c} /\ c \notin InStage(s)
    BY <1>2 DEF InStage
  <2>2. QED
    BY <1>1, <1>2, <2>1, FS_AddElement
<1>3. CASE s = stage[c]
  <2>1. InStage(s)' = InStage(s) \ {c} /\ c \in InStage(s)
    BY <1>3 DEF InStage
  <2>2. /\ Cardinality(InStage(s)') = Cardinality(InStage(s)) - 1
        /\ Cardinality(InStage(s)') \in Nat
    BY <1>1, <2>1, FS_RemoveElement, FS_CardinalityType
  <2>3. QED
    BY <1>3, <2>2
<1>4. CASE s # t /\ s # stage[c]
  <2>1. InStage(s)' = InStage(s)
    BY <1>4 DEF InStage
  <2>2. QED
    BY <1>1, <1>4, <2>1
<1>5. QED
  BY <1>2, <1>3, <1>4

-----------------------------------------------------------------------------
(* Types *)

\* TypeOK, less that the counter never goes below zero.
Typed ==
    /\ stage \in [Calls -> Stages]
    /\ waiters \in Seq(Calls)
    /\ channel \in Seq(Calls)
    /\ reply \in [Calls -> {"held", "value", "panic", "dropped"}]
    /\ waiting \in Int
    /\ consumer \in {"unstarted", "selecting", "received", "running",
                     "closing", "ended"}
    /\ item \in Calls \cup {NoCall}
    /\ consumer \in {"received", "running"} <=> item \in Calls
    /\ closed \in BOOLEAN
    /\ closed <=> consumer \in {"closing", "ended"}
    /\ stopping \in BOOLEAN
    /\ started \in [Calls -> Nat]
    /\ finished \in [Calls -> Nat]

\* Typed is kept by every step.
LEMMA TypedInductive ==
    Typed /\ [Next]_vars => Typed'
<1> SUFFICES ASSUME Typed, [Next]_vars PROVE Typed'
  OBVIOUS
<1> USE DEF Typed, Stages
<1>1. ASSUME NEW c \in Calls, Reserve(c) PROVE Typed'
  <2>1. Append(waiters, c) \in Seq(Calls)
    OBVIOUS
  <2>2. /\ stage' \in [Calls -> Stages]
        /\ waiters' \in Seq(Calls)
    BY <1>1, <2>1 DEF Reserve
  <2>3. QED
    BY <1>1, <2>2 DEF Reserve, consumerVars, workVars
<1>2. ASSUME NEW c \in Calls, Grant(c) PROVE Typed'
  BY <1>2 DEF Grant, consumerVars, workVars
<1>3. ASSUME NEW c \in Calls, Refuse(c) PROVE Typed'
  BY <1>3, RemoveFirstType DEF Refuse, consumerVars, workVars
<1>4. ASSUME NEW c \in Calls, Count(c) PROVE Typed'
  <2>1. waiting + 1 \in Int
    OBVIOUS
  <2>2. QED
    BY <1>4, <2>1 DEF Count, consumerVars, workVars
<1>4a. ASSUME NEW c \in Calls, Send(c) PROVE Typed'
  <2>1. Append(channel, c) \in Seq(Calls)
    OBVIOUS
  <2>2. QED
    BY <1>4a, <2>1 DEF Send, consumerVars, workVars
<1>5. ASSUME NEW c \in Calls, Answer(c) PROVE Typed'
  BY <1>5 DEF Answer, consumerVars, workVars
<1>6. ASSUME NEW c \in Calls, GiveUp(c) PROVE Typed'
  BY <1>6, RemoveFirstType DEF GiveUp, consumerVars, workVars
<1>7. CASE Start
  BY <1>7 DEF Start, callVars, workVars
<1>8. CASE Receive
  BY <1>8, CallsAssumption DEF Receive, callVars, workVars
<1>9. CASE StartWork
  BY <1>9 DEF StartWork, callVars
<1>10. CASE FinishWork
  BY <1>10, CallsAssumption DEF FinishWork, callVars
<1>11. CASE Close
  BY <1>11 DEF Close, callVars, workVars
<1>12. CASE Drain
  BY <1>12 DEF Drain, callVars
<1>13. CASE Stop
  BY <1>13 DEF Stop, callVars, consumerVars, workVars
<1>14. CASE UNCHANGED vars
  BY <1>14 DEF vars, callVars, consumerVars, workVars
<1>15. QED
  BY <1>1, <1>2, <1>3, <1>4, <1>4a, <1>5, <1>6, <1>7, <1>8, <1>9, <1>10, <1>11, <1>12,
     <1>13, <1>14 DEF Next, Proceed, Enqueue, Consume

\* Typed holds in every reachable state.
LEMMA AlwaysTyped == Spec => []Typed
<1>1. Init => Typed
  <2> SUFFICES ASSUME Init PROVE Typed
    OBVIOUS
  <2>1. /\ stage \in [Calls -> Stages]
        /\ reply \in [Calls -> {"held", "value", "panic", "dropped"}]
        /\ started \in [Calls -> Nat]
        /\ finished \in [Calls -> Nat]
    BY DEF Init, Stages
  <2>2. waiters \in Seq(Calls) /\ channel \in Seq(Calls)
    BY DEF Init
  <2>3. item = NoCall /\ NoCall \notin Calls
    BY CallsAssumption DEF Init
  <2>4. /\ consumer = "unstarted" /\ ~ closed /\ waiting = 0
        /\ closed \in BOOLEAN /\ stopping \in BOOLEAN
    BY DEF Init
  <2>5. QED
    BY <2>1, <2>2, <2>3, <2>4 DEF Typed
<1>2. QED
  BY <1>1, TypedInductive, PTL DEF Spec

-----------------------------------------------------------------------------
(* The counter *)

\* Before the close, the permits handed out are within the capacity and the
\* counter is exact; after it, the permits still out may be counted, once each.
Counted ==
    /\ ~ closed =>
          /\ waiting = Len(channel) + Cardinality(InStage("counted"))
                       + (IF consumer = "received" THEN 1 ELSE 0)
          /\ Len(channel) + Cardinality(InStage("permitted"))
                          + Cardinality(InStage("counted")) <= Capacity
    /\ closed =>
          waiting \in 0..(Capacity - Cardinality(InStage("permitted")))

\* A step that moves no call in or out of the permit holders, and leaves the
\* channel, the counter and the consumer alone, keeps the count.
LEMMA CountUndisturbed ==
    ASSUME Typed, Counted, NEW c \in Calls, NEW t \in Stages,
           stage' = [stage EXCEPT ![c] = t], stage[c] # t,
           {t, stage[c]} \cap {"permitted", "counted"} = {},
           UNCHANGED <<channel, waiting, consumer, closed>>
    PROVE  Counted'
<1>1. stage \in [Calls -> Stages]
  BY DEF Typed, Stages
<1>2. /\ Cardinality(InStage("permitted")') = Cardinality(InStage("permitted"))
      /\ Cardinality(InStage("counted")') = Cardinality(InStage("counted"))
  BY <1>1, Moves
<1>3. QED
  BY <1>2 DEF Counted

\* Counted is kept by every step.
LEMMA CountedInductive ==
    Typed /\ Counted /\ [Next]_vars => Counted'
<1> SUFFICES ASSUME Typed, Counted, [Next]_vars PROVE Counted'
  OBVIOUS
<1> DEFINE P == Cardinality(InStage("permitted"))
           C == Cardinality(InStage("counted"))
           L == Len(channel)
<1>0. /\ P \in Nat /\ C \in Nat /\ L \in Nat
      /\ Capacity \in Nat /\ waiting \in Int
  BY StagesAreFinite, CapacityAssumption DEF Typed
<1>1. ASSUME NEW c \in Calls, stage[c] \in {"new", "waiting"}, PermitFree,
             ~ closed, stage' = [stage EXCEPT ![c] = "permitted"],
             UNCHANGED <<consumerVars, channel, waiting>>
      PROVE  Counted'
  <2>0. stage \in [Calls -> Stages] /\ "permitted" \in Stages
    BY DEF Typed, Stages
  <2>1. P' = P + 1 /\ C' = C
    BY <1>1, <2>0, Moves
  <2>2. L + P + C < Capacity
    BY <1>1 DEF PermitFree
  <2>3. L' = L /\ waiting' = waiting /\ consumer' = consumer /\ closed' = closed
    BY <1>1 DEF consumerVars
  <2>4. waiting = L + C + (IF consumer = "received" THEN 1 ELSE 0)
    BY <1>1 DEF Counted
  <2>5. L' + P' + C' <= Capacity
    BY <1>0, <2>1, <2>2, <2>3
  <2>6. waiting' = L' + C' + (IF consumer' = "received" THEN 1 ELSE 0)
    BY <2>1, <2>3, <2>4
  <2>7. QED
    BY <1>1, <2>3, <2>5, <2>6 DEF Counted
<1>2. ASSUME NEW c \in Calls, Reserve(c) PROVE Counted'
  <2>1. CASE waiters = <<>> /\ PermitFree
    BY <1>1, <1>2, <2>1 DEF Reserve
  <2>2. CASE ~ (waiters = <<>> /\ PermitFree)
    <3>1. stage' = [stage EXCEPT ![c] = "waiting"]
      BY <1>2, <2>2 DEF Reserve
    <3>2. QED
      BY <1>2, <3>1, CountUndisturbed DEF Reserve, Stages, consumerVars
  <2>3. QED
    BY <2>1, <2>2
<1>3. ASSUME NEW c \in Calls, Grant(c) PROVE Counted'
  BY <1>1, <1>3 DEF Grant
<1>4. ASSUME NEW c \in Calls, Refuse(c) PROVE Counted'
  BY <1>4, CountUndisturbed DEF Refuse, Stages, consumerVars
<1>5. ASSUME NEW c \in Calls, Count(c) PROVE Counted'
  <2>0. /\ stage \in [Calls -> Stages]
        /\ stage[c] = "permitted" /\ "counted" \in Stages
        /\ stage' = [stage EXCEPT ![c] = "counted"]
    BY <1>5 DEF Count, Typed, Stages
  <2>1. P' = P - 1 /\ C' = C + 1 /\ P' \in Nat /\ C' \in Nat
    BY <2>0, Moves
  <2>2. L' = L /\ waiting' = waiting + 1 /\ consumer' = consumer /\ closed' = closed
    BY <1>5 DEF Count, consumerVars
  <2>3. CASE closed
    BY <1>0, <2>1, <2>2, <2>3 DEF Counted
  <2>4. CASE ~ closed
    <3>1. /\ waiting = L + C + (IF consumer = "received" THEN 1 ELSE 0)
          /\ L + P + C <= Capacity
      BY <2>4 DEF Counted
    <3>2. waiting' = L' + C' + (IF consumer' = "received" THEN 1 ELSE 0)
      BY <1>0, <2>1, <2>2, <3>1
    <3>3. L' + P' + C' <= Capacity
      BY <1>0, <2>1, <2>2, <3>1
    <3>4. QED
      BY <2>2, <2>4, <3>2, <3>3 DEF Counted
  <2>5. QED
    BY <2>3, <2>4
<1>6. ASSUME NEW c \in Calls, Send(c) PROVE Counted'
  <2>0. /\ stage \in [Calls -> Stages]
        /\ stage[c] = "counted" /\ "sent" \in Stages
        /\ stage' = [stage EXCEPT ![c] = "sent"]
    BY <1>6 DEF Send, Typed, Stages
  <2>1. P' = P /\ C' = C - 1 /\ C' \in Nat
    BY <2>0, Moves
  <2>2. L' = L + 1 /\ waiting' = waiting /\ consumer' = consumer /\ closed' = closed
    BY <1>6 DEF Send, consumerVars, Typed
  <2>3. QED
    BY <1>0, <2>1, <2>2 DEF Counted
<1>7. ASSUME NEW c \in Calls, Answer(c) PROVE Counted'
  <2>1. reply[c] \in {"value", "panic", "dropped"}
    BY <1>7 DEF Answer, Typed
  <2>2. PICK t \in {"done", "panicked", "stopped"} :
           stage' = [stage EXCEPT ![c] = t]
    BY <1>7, <2>1 DEF Answer
  <2>3. QED
    BY <1>7, <2>2, CountUndisturbed DEF Answer, Stages, consumerVars
<1>8. ASSUME NEW c \in Calls, GiveUp(c) PROVE Counted'
  BY <1>8, CountUndisturbed DEF GiveUp, Stages, consumerVars
<1>9. ASSUME UNCHANGED stage PROVE P' = P /\ C' = C
  BY <1>9 DEF InStage
<1>10. CASE Start
  BY <1>0, <1>9, <1>10 DEF Start, Counted, callVars
<1>11. CASE Receive
  <2>1. L' = L - 1 /\ L' \in Nat
    BY <1>11 DEF Receive, Typed
  <2>2. P' = P /\ C' = C
    BY <1>9, <1>11 DEF Receive, callVars
  <2>3. ~ closed /\ ~ closed' /\ waiting' = waiting
        /\ consumer = "selecting" /\ consumer' = "received"
    BY <1>11 DEF Receive, Typed
  <2>4. QED
    BY <1>0, <2>1, <2>2, <2>3 DEF Counted
<1>12. CASE StartWork
  <2>1. P' = P /\ C' = C
    BY <1>9, <1>12 DEF StartWork, callVars
  <2>2. ~ closed /\ ~ closed' /\ waiting' = waiting - 1 /\ L' = L
        /\ consumer = "received" /\ consumer' = "running"
    BY <1>12 DEF StartWork, Typed
  <2>3. QED
    BY <1>0, <2>1, <2>2 DEF Counted
<1>13. CASE FinishWork
  <2>1. P' = P /\ C' = C
    BY <1>9, <1>13 DEF FinishWork, callVars
  <2>2. ~ closed /\ ~ closed' /\ waiting' = waiting /\ L' = L
        /\ consumer = "running" /\ consumer' = "selecting"
    BY <1>13 DEF FinishWork, Typed
  <2>3. QED
    BY <1>0, <2>1, <2>2 DEF Counted
<1>14. CASE Close
  <2>1. P' = P /\ C' = C
    BY <1>9, <1>14 DEF Close, callVars
  <2>2. ~ closed /\ closed' /\ waiting' = waiting /\ consumer = "selecting"
    BY <1>14 DEF Close, Typed
  <2>3. waiting = L + C /\ L + P + C <= Capacity
    BY <1>0, <2>2 DEF Counted
  <2>4. waiting \in 0..(Capacity - P)
    BY <1>0, <2>3
  <2>5. QED
    BY <2>1, <2>2, <2>4 DEF Counted
<1>15. CASE Drain
  <2>1. P' = P /\ C' = C
    BY <1>9, <1>15 DEF Drain, callVars
  <2>2. closed /\ closed' /\ waiting' = waiting
    BY <1>15 DEF Drain, Typed
  <2>3. QED
    BY <2>1, <2>2 DEF Counted
<1>16. CASE Stop
  BY <1>9, <1>16 DEF Stop, Counted, callVars, consumerVars
<1>17. CASE UNCHANGED vars
  BY <1>9, <1>17 DEF vars, Counted, callVars, consumerVars
<1>18. QED
  BY <1>2, <1>3, <1>4, <1>5, <1>6, <1>7, <1>8, <1>10, <1>11, <1>12, <1>13,
     <1>14, <1>15, <1>16, <1>17
     DEF Next, Proceed, Enqueue, Consume

\* Reserve first and count second: until the consumer leaves, the counter is
\* exact, and it never wraps or passes the capacity by more than one.
THEOREM CountsExactly == Spec => []CountKept
<1>1. Init => Counted
  <2>1. ASSUME Init, NEW s \in {"permitted", "counted"}
        PROVE  Cardinality(InStage(s)) = 0
    <3>1. InStage(s) = {}
      BY <2>1 DEF Init, InStage
    <3>2. QED
      BY <3>1, FS_EmptySet
  <2>2. ASSUME Init PROVE Counted
    <3>1. /\ Cardinality(InStage("permitted")) = 0
          /\ Cardinality(InStage("counted")) = 0
      BY <2>1, <2>2
    <3>2. Len(channel) = 0 /\ waiting = 0 /\ consumer = "unstarted" /\ ~ closed
      BY <2>2 DEF Init
    <3>3. QED
      BY <3>1, <3>2, CapacityAssumption DEF Counted
  <2>3. QED
    BY <2>2
<1>2. Typed /\ Counted => CountKept
  <2> SUFFICES ASSUME Typed, Counted PROVE CountKept
    OBVIOUS
  <2>1. /\ Cardinality(InStage("permitted")) \in Nat
        /\ Cardinality(InStage("counted")) \in Nat
        /\ Len(channel) \in Nat /\ Capacity \in Nat /\ waiting \in Int
    BY StagesAreFinite, CapacityAssumption DEF Typed
  <2>2. waiting \in 0..(Capacity + 1)
    <3>1. CASE closed
      BY <2>1, <3>1 DEF Counted
    <3>2. CASE ~ closed
      BY <2>1, <3>2 DEF Counted
    <3>3. QED
      BY <3>1, <3>2
  <2>3. QED
    BY <2>2 DEF CountKept, Counted
<1>3. QED
  BY <1>1, <1>2, AlwaysTyped, CountedInductive, PTL DEF Spec

\* The variables keep their types, the counter's being unsigned.
THEOREM TypeCorrect == Spec => []TypeOK
<1>1. Typed /\ CountKept => TypeOK
  BY CapacityAssumption DEF Typed, Stages, CountKept, TypeOK
<1>2. QED
  BY <1>1, AlwaysTyped, CountsExactly, PTL

-----------------------------------------------------------------------------
(* The consumer, and the answers *)

\* The channel closes only because the host is stopping, whatever panics.
THEOREM SurvivesPanics == Spec => []ConsumerSurvives
<1>1. Init => ConsumerSurvives
  BY DEF Init, ConsumerSurvives
<1>2. ConsumerSurvives /\ [Next]_vars => ConsumerSurvives'
  BY DEF ConsumerSurvives, Next, Proceed, Enqueue, Consume, Reserve, Grant, Refuse,
         Count, Send, Answer, GiveUp, Start, Receive, StartWork, FinishWork,
         Close, Drain, Stop, vars, callVars, consumerVars, workVars
<1>3. QED
  BY <1>1, <1>2, PTL DEF Spec

InChannel(c) == \E i \in 1..Len(channel) : channel[i] = c

\* Nothing has been done for the call yet.
Untouched(c) == started[c] = 0 /\ finished[c] = 0

\* A call's item is in the channel at most once, and only after it was sent;
\* it is started when the consumer has counted it out, and finished when its
\* reply is sent; a reply that was dropped belongs to an item never started.
Tracked ==
    /\ \A i, j \in 1..Len(channel) : channel[i] = channel[j] => i = j
    /\ \A c \in Calls :
          /\ InChannel(c) => /\ stage[c] \in {"sent", "gaveUp"}
                             /\ reply[c] = "held" /\ item # c
          /\ item = c => stage[c] \in {"sent", "gaveUp"} /\ reply[c] = "held"
          /\ item = c /\ consumer = "running" =>
                started[c] = 1 /\ finished[c] = 0
          /\ reply[c] = "held" /\ ~ (item = c /\ consumer = "running") =>
                Untouched(c)
          /\ reply[c] = "dropped" => Untouched(c)
          /\ reply[c] \in {"value", "panic"} => started[c] = 1 /\ finished[c] = 1
          /\ reply[c] = "value" => c \notin Panicking
          /\ reply[c] = "panic" => c \in Panicking
          /\ stage[c] \in {"new", "waiting", "permitted", "counted"} =>
                reply[c] = "held"
          /\ stage[c] = "done" => reply[c] = "value"
          /\ stage[c] = "panicked" => reply[c] = "panic"
          /\ stage[c] = "stopped" => reply[c] \in {"held", "dropped"}

\* Tracked is kept by every step.
LEMMA TrackedInductive ==
    Typed /\ Tracked /\ [Next]_vars => Tracked'
<1> SUFFICES ASSUME Typed, Tracked, [Next]_vars PROVE Tracked'
  OBVIOUS
<1>1. ASSUME NEW c \in Calls, NEW t \in Stages, stage' = [stage EXCEPT ![c] = t],
             UNCHANGED <<channel, reply, started, finished, item, consumer>>,
             \/ /\ stage[c] \in {"new", "waiting", "permitted"}
                /\ t \in {"waiting", "permitted", "counted", "stopped", "gaveUp"}
             \/ /\ stage[c] = "sent"
                /\ \/ t = "gaveUp"
                   \/ t = "done" /\ reply[c] = "value"
                   \/ t = "panicked" /\ reply[c] = "panic"
                   \/ t = "stopped" /\ reply[c] = "dropped"
      PROVE  Tracked'
  <2>1. \A x \in Calls : InChannel(x)' <=> InChannel(x)
    BY <1>1 DEF InChannel
  <2>2. \A x \in Calls : Untouched(x)' <=> Untouched(x)
    BY <1>1 DEF Untouched
  <2>3. \A x \in Calls : stage'[x] = IF x = c THEN t ELSE stage[x]
    BY <1>1 DEF Typed
  <2>4. QED
    BY <1>1, <2>1, <2>2, <2>3 DEF Tracked, Stages
<1>2. ASSUME NEW c \in Calls, Reserve(c) PROVE Tracked'
  <2>1. PICK t \in {"waiting", "permitted"} : stage' = [stage EXCEPT ![c] = t]
    BY <1>2 DEF Reserve
  <2>2. QED
    BY <1>1, <1>2, <2>1 DEF Reserve, Stages, consumerVars, workVars
<1>3. ASSUME NEW c \in Calls, Grant(c) PROVE Tracked'
  BY <1>1, <1>3 DEF Grant, Stages, consumerVars, workVars
<1>4. ASSUME NEW c \in Calls, Refuse(c) PROVE Tracked'
  BY <1>1, <1>4 DEF Refuse, Stages, consumerVars, workVars
<1>5. ASSUME NEW c \in Calls, Count(c) PROVE Tracked'
  BY <1>1, <1>5 DEF Count, Stages, consumerVars, workVars
<1>6. ASSUME NEW c \in Calls, Send(c) PROVE Tracked'
  <2>1. /\ Len(channel') = Len(channel) + 1 /\ Len(channel) \in Nat
        /\ \A i \in 1..Len(channel) : channel'[i] = channel[i]
        /\ channel'[Len(channel) + 1] = c
    BY <1>6 DEF Send, Typed
  <2>2. stage[c] = "counted" /\ ~ InChannel(c) /\ item # c /\ reply[c] = "held"
    BY <1>6 DEF Send, Tracked
  <2>3. \A x \in Calls : InChannel(x)' <=> InChannel(x) \/ x = c
    BY <2>1 DEF InChannel
  <2>4. \A i, j \in 1..Len(channel') : channel'[i] = channel'[j] => i = j
    BY <2>1, <2>2 DEF Tracked, InChannel
  <2>5. UNCHANGED <<reply, started, finished, item, consumer>>
    BY <1>6 DEF Send, consumerVars, workVars
  <2>6. \A x \in Calls : Untouched(x)' <=> Untouched(x)
    BY <2>5 DEF Untouched
  <2>7. \A x \in Calls : stage'[x] = IF x = c THEN "sent" ELSE stage[x]
    BY <1>6 DEF Send, Typed
  <2>8. QED
    BY <2>2, <2>3, <2>4, <2>5, <2>6, <2>7 DEF Tracked
<1>7. ASSUME NEW c \in Calls, Answer(c) PROVE Tracked'
  <2>1. reply[c] \in {"value", "panic", "dropped"}
    BY <1>7 DEF Answer, Typed
  <2>2. QED
    BY <1>1, <1>7, <2>1 DEF Answer, Stages, consumerVars, workVars
<1>8. ASSUME NEW c \in Calls, GiveUp(c) PROVE Tracked'
  BY <1>1, <1>8 DEF GiveUp, Stages, consumerVars, workVars
<1>9. CASE Start
  BY <1>9 DEF Start, Tracked, Untouched, InChannel, Typed, callVars, workVars
<1>10. CASE Receive
  <2>1. /\ Len(channel') = Len(channel) - 1 /\ Len(channel) \in Nat \ {0}
        /\ \A i \in 1..Len(channel') : channel'[i] = channel[i + 1]
        /\ item' = channel[1] /\ item' \in Calls
    BY <1>10 DEF Receive, Typed
  <2>2. InChannel(item')
    BY <2>1 DEF InChannel
  <2>3. \A x \in Calls : InChannel(x)' => InChannel(x) /\ x # item'
    BY <2>1 DEF InChannel, Tracked
  <2>4. \A i, j \in 1..Len(channel') : channel'[i] = channel'[j] => i = j
    BY <2>1 DEF Tracked
  <2>5. UNCHANGED <<stage, reply, started, finished>> /\ consumer' = "received"
    BY <1>10 DEF Receive, callVars, workVars
  <2>6. item \notin Calls
    BY <1>10 DEF Receive, Typed
  <2>7. \A x \in Calls : Untouched(x)' <=> Untouched(x)
    BY <2>5 DEF Untouched
  <2>8. QED
    BY <2>2, <2>3, <2>4, <2>5, <2>6, <2>7 DEF Tracked
<1>11. CASE StartWork
  <2>1. item \in Calls /\ consumer = "received" /\ consumer' = "running"
    BY <1>11 DEF StartWork, Typed
  <2>2. Untouched(item) /\ reply[item] = "held"
    BY <2>1 DEF Tracked
  <2>3. /\ UNCHANGED <<stage, channel, reply, finished, item>>
        /\ \A x \in Calls : started'[x] = IF x = item THEN started[x] + 1
                                          ELSE started[x]
    BY <1>11 DEF StartWork, callVars, Typed
  <2>4. \A x \in Calls : /\ InChannel(x)' <=> InChannel(x)
                         /\ x # item => (Untouched(x)' <=> Untouched(x))
    BY <2>3 DEF InChannel, Untouched
  <2>5. started'[item] = 1 /\ finished'[item] = 0
    BY <2>1, <2>2, <2>3 DEF Untouched
  <2>6. QED
    BY <2>1, <2>2, <2>3, <2>4, <2>5 DEF Tracked
<1>12. CASE FinishWork
  <2>1. item \in Calls /\ consumer = "running" /\ consumer' = "selecting"
        /\ item' \notin Calls
    BY <1>12, CallsAssumption DEF FinishWork, Typed
  <2>2. started[item] = 1 /\ finished[item] = 0 /\ stage[item] \in {"sent", "gaveUp"}
        /\ ~ InChannel(item)
    BY <2>1 DEF Tracked
  <2>3. /\ UNCHANGED <<stage, channel, started>>
        /\ \A x \in Calls : finished'[x] = IF x = item THEN finished[x] + 1
                                           ELSE finished[x]
        /\ \A x \in Calls : reply'[x] = IF x # item THEN reply[x]
                                        ELSE IF item \in Panicking THEN "panic"
                                        ELSE "value"
    BY <1>12 DEF FinishWork, callVars, Typed
  <2>4. \A x \in Calls : /\ InChannel(x)' <=> InChannel(x)
                         /\ x # item => (Untouched(x)' <=> Untouched(x))
    BY <2>3 DEF InChannel, Untouched
  <2>5. started'[item] = 1 /\ finished'[item] = 1
    BY <2>1, <2>2, <2>3
  <2>6. QED
    BY <2>1, <2>2, <2>3, <2>4, <2>5 DEF Tracked
<1>13. CASE Close
  BY <1>13 DEF Close, Tracked, Untouched, InChannel, Typed, callVars, workVars
<1>14. CASE Drain
  <2>1. /\ Len(channel') = 0
        /\ UNCHANGED <<stage, item, started, finished>>
        /\ consumer = "closing" /\ consumer' = "ended" /\ item \notin Calls
    BY <1>14 DEF Drain, callVars, Typed
  <2>2. \A x \in Calls : reply'[x] = IF InChannel(x) THEN "dropped" ELSE reply[x]
    BY <1>14 DEF Drain, InChannel
  <2>3. \A x \in Calls : ~ InChannel(x)' /\ (Untouched(x)' <=> Untouched(x))
    BY <2>1 DEF InChannel, Untouched
  <2>4. QED
    BY <2>1, <2>2, <2>3 DEF Tracked
<1>15. CASE Stop
  BY <1>15 DEF Stop, Tracked, Untouched, InChannel, callVars, consumerVars, workVars
<1>16. CASE UNCHANGED vars
  BY <1>16 DEF vars, Tracked, Untouched, InChannel, callVars, consumerVars, workVars
<1>17. QED
  BY <1>2, <1>3, <1>4, <1>5, <1>6, <1>7, <1>8, <1>9, <1>10, <1>11, <1>12, <1>13,
     <1>14, <1>15, <1>16 DEF Next, Proceed, Enqueue, Consume

\* A value or a panic is answered after the work ran once, and Stopped only for
\* work that was never started, whoever panics, gives up or stops the host.
THEOREM AnswersTruly == Spec => []AnswersAreTrue
<1>1. Init => Tracked
  <2> SUFFICES ASSUME Init PROVE Tracked
    OBVIOUS
  <2>1. Len(channel) = 0 /\ item \notin Calls
    BY CallsAssumption DEF Init
  <2>2. \A c \in Calls : /\ stage[c] = "new" /\ reply[c] = "held"
                         /\ Untouched(c) /\ ~ InChannel(c)
    BY <2>1 DEF Init, Untouched, InChannel
  <2>3. QED
    BY <2>1, <2>2 DEF Tracked
<1>2. Typed /\ Tracked => AnswersAreTrue
  <2> SUFFICES ASSUME Typed, Tracked, NEW c \in Calls
               PROVE  /\ stage[c] = "done" => finished[c] = 1 /\ c \notin Panicking
                      /\ stage[c] = "panicked" => finished[c] = 1 /\ c \in Panicking
                      /\ stage[c] = "stopped" => started[c] = 0
                      /\ finished[c] <= started[c] /\ started[c] <= 1
    BY DEF AnswersAreTrue
  <2>1. reply[c] \in {"held", "value", "panic", "dropped"}
    BY DEF Typed
  <2>2. \/ started[c] = 0 /\ finished[c] = 0
        \/ started[c] = 1 /\ finished[c] \in {0, 1}
    BY <2>1 DEF Tracked, Untouched
  <2>3. stage[c] = "stopped" => started[c] = 0
    BY DEF Tracked, Untouched
  <2>4. QED
    BY <2>2, <2>3 DEF Tracked
<1>3. QED
  BY <1>1, <1>2, AlwaysTyped, TrackedInductive, PTL DEF Spec

-----------------------------------------------------------------------------
(* The orphan checks *)

Types ==
    /\ IntegrityTypeOK
    /\ \A h \in Hosts : Running(h) => at[h] \in 1..Len(ORPHAN_CHECKS)

\* What lasts is an orphan now, what is sound is none.
History == \A h \in Hosts : /\ lasting[h] \subseteq Orphans(targets)
                            /\ sound[h] \cap Orphans(targets) = {}

\* The checks whose orphans a run has recorded, and those it has resolved, are
\* the first so many.
OpenedTo(h) == IF phase[h] \in {"resolve", "close", "count", "done"} THEN at[h] ELSE at[h] - 1

ResolvedTo(h) == IF phase[h] \in {"count", "done"} THEN at[h] ELSE at[h] - 1

Found(h) == \A row \in lasting[h], i \in 1..OpenedTo(h) :
                row[1] = ORPHAN_CHECKS[i] => row \in open

Cleared(h) == \A row \in sound[h], i \in 1..ResolvedTo(h) :
                  row[1] = ORPHAN_CHECKS[i] => row \notin open

\* What a statement under way has read.
ToOpen(h) == /\ Of(Check(h), lasting[h]) \subseteq seen[h]
             /\ seen[h] \cap sound[h] = {}

ToClose(h) == /\ seen[h] \cap lasting[h] = {}
              /\ Of(Check(h), sound[h] \cap open) \subseteq seen[h]

Balanced(h) ==
    before[h] + detected[h]
        = resolved[h] + (IF phase[h] = "done" THEN counted[h] ELSE Cardinality(open))

Exact(h) ==
    /\ Running(h)
    /\ \A o \in Hosts \ {h} : ~Running(o)
    /\ phase[h] = "open" => ToOpen(h)
    /\ phase[h] = "close" => ToClose(h)
    /\ phase[h] \in {"count", "done"} => at[h] = Len(ORPHAN_CHECKS)
    /\ Found(h) /\ Cleared(h) /\ Balanced(h)

IInv == Types /\ History /\ \A h \in Hosts : alone[h] => Exact(h)

-----------------------------------------------------------------------------

LEMMA ChecksAre ==
    /\ Len(ORPHAN_CHECKS) \in Nat /\ Len(ORPHAN_CHECKS) >= 1
    /\ \A c \in CheckNames : \E i \in 1..Len(ORPHAN_CHECKS) : c = ORPHAN_CHECKS[i]
<1>1. ORPHAN_CHECKS \in Seq(CheckNames) /\ ORPHAN_CHECKS # <<>>
  BY IntegrityAssumption
<1>2. DOMAIN ORPHAN_CHECKS = 1..Len(ORPHAN_CHECKS) /\ Len(ORPHAN_CHECKS) \in Nat
  BY <1>1
<1>3. Len(ORPHAN_CHECKS) >= 1
  BY <1>1
<1> QED BY <1>2, <1>3 DEF CheckNames, Range

LEMMA RowsAre ==
    /\ \A row \in Rows : row[1] \in CheckNames
    /\ \A there : Orphans(there) \subseteq Rows
BY DEF Rows, Orphans

\* The sets of findings are finite, and count as sets do.
LEMMA Counts ==
    ASSUME NEW A \in SUBSET Rows, NEW B \in SUBSET Rows
    PROVE  /\ Cardinality(A) \in Nat
           /\ Cardinality(A \cup B) = Cardinality(A) + Cardinality(B \ A)
           /\ Cardinality(A \ B) + Cardinality(B \cap A) = Cardinality(A)
           /\ Cardinality(B \ A) \in Nat /\ Cardinality(B \cap A) \in Nat
<1>1. IsFiniteSet(A) /\ IsFiniteSet(B)
  BY TablesAssumption, FS_Subset
<1>2. IsFiniteSet(B \ A) /\ IsFiniteSet(B \cap A) /\ IsFiniteSet(A \ B)
  BY <1>1, FS_Difference, FS_Intersection
<1>3. /\ Cardinality(A) \in Nat /\ Cardinality(B \ A) \in Nat
      /\ Cardinality(B \cap A) \in Nat /\ Cardinality(A \ B) \in Nat
  BY <1>1, <1>2, FS_CardinalityType
<1>4. Cardinality(A \cup B) = Cardinality(A) + Cardinality(B \ A)
  <2>1. A \cup B = A \cup (B \ A) /\ A \cap (B \ A) = {}
    OBVIOUS
  <2>2. Cardinality(A \cup (B \ A))
          = Cardinality(A) + Cardinality(B \ A) - Cardinality(A \cap (B \ A))
    BY <1>1, <1>2, FS_Union
  <2>3. Cardinality(A \cap (B \ A)) = 0
    BY <2>1, FS_EmptySet
  <2>4. Cardinality(A \cup (B \ A)) = Cardinality(A) + Cardinality(B \ A)
    BY <1>3, <2>2, <2>3
  <2> QED BY <2>1, <2>4
<1>5. Cardinality(A \ B) + Cardinality(B \cap A) = Cardinality(A)
  <2>1. Cardinality(A \ B) = Cardinality(A) - Cardinality(A \cap B)
    BY <1>1, FS_Difference
  <2>2. A \cap B = B \cap A
    OBVIOUS
  <2> QED BY <1>3, <2>1, <2>2
<1> QED BY <1>3, <1>4, <1>5

LEMMA InitInv == ASSUME IntegrityInit PROVE IInv
<1>1. IntegrityTypeOK
  <2>1. targets \in [CheckNames -> SUBSET UNION {Targets[c] : c \in CheckNames}]
    BY IntegrityAssumption DEF IntegrityInit
  <2>2. open \subseteq Rows /\ changes \in 0..MaxChanges /\ faults \in 0..MaxFaults
    BY IntegrityAssumption DEF IntegrityInit
  <2>3. at \in [Hosts -> 0..Len(ORPHAN_CHECKS)]
    BY ChecksAre DEF IntegrityInit
  <2>4. /\ phase \in [Hosts -> {"idle", "detect", "open", "resolve", "close", "count", "done"}]
        /\ seen \in [Hosts -> SUBSET Rows]
        /\ lasting \in [Hosts -> SUBSET Rows] /\ sound \in [Hosts -> SUBSET Rows]
    BY DEF IntegrityInit
  <2>5. /\ detected \in [Hosts -> Nat] /\ resolved \in [Hosts -> Nat]
        /\ counted \in [Hosts -> Nat] /\ before \in [Hosts -> Nat]
    BY DEF IntegrityInit
  <2>6. alone \in [Hosts -> BOOLEAN]
    BY DEF IntegrityInit
  <2> QED BY <2>1, <2>2, <2>3, <2>4, <2>5, <2>6 DEF IntegrityTypeOK
<1>2. \A h \in Hosts : ~Running(h) /\ ~alone[h]
  BY DEF IntegrityInit, Running
<1>3. History
  BY DEF IntegrityInit, History
<1> QED BY <1>1, <1>2, <1>3 DEF IInv, Types

-----------------------------------------------------------------------------
(* The modules' changes *)

LEMMA ChangeInv ==
    ASSUME IInv, NEW c \in CheckNames, NEW ids \in SUBSET UNION {Targets[d] : d \in CheckNames},
           Change(c, ids)
    PROVE  IInv'
<1>0. Types /\ History /\ \A h \in Hosts : alone[h] => Exact(h)
  BY DEF IInv
<1>1. /\ UNCHANGED <<open, phase, at, seen, detected, resolved, counted, alone, before, faults>>
      /\ changes < MaxChanges /\ changes' = changes + 1
      /\ targets' = [targets EXCEPT ![c] = ids]
  BY DEF Change, resultVars
<1>2. /\ lasting' \in [Hosts -> SUBSET Rows] /\ sound' \in [Hosts -> SUBSET Rows]
      /\ \A h \in Hosts : /\ lasting'[h] = lasting[h] \cap Orphans(targets')
                          /\ sound'[h] = sound[h] \ Orphans(targets')
  BY <1>0 DEF Change, Types, IntegrityTypeOK
<1>3. Types'
  <2>1. /\ targets' \in [CheckNames -> SUBSET UNION {Targets[d] : d \in CheckNames}]
        /\ changes' \in 0..MaxChanges
    BY <1>0, <1>1, IntegrityAssumption DEF Types, IntegrityTypeOK
  <2> QED BY <1>0, <1>1, <1>2, <2>1 DEF Types, IntegrityTypeOK, Running
<1>4. History'
  BY <1>2 DEF History, Orphans, IsOrphan
<1>5. ASSUME NEW h \in Hosts, alone'[h] PROVE Exact(h)'
  <2>1. Exact(h) /\ lasting'[h] \subseteq lasting[h] /\ sound'[h] \subseteq sound[h]
    BY <1>0, <1>1, <1>2, <1>5
  <2>2. ToOpen(h) => ToOpen(h)'
    BY <1>1, <2>1 DEF ToOpen, Of, Check
  <2>3. ToClose(h) => ToClose(h)'
    BY <1>1, <2>1 DEF ToClose, Of, Check
  <2>4. Found(h)' /\ Cleared(h)' /\ Balanced(h)'
    BY <1>1, <2>1 DEF Exact, Found, Cleared, Balanced, OpenedTo, ResolvedTo
  <2> QED BY <1>1, <2>1, <2>2, <2>3, <2>4 DEF Exact, Running
<1> QED BY <1>3, <1>4, <1>5 DEF IInv

-----------------------------------------------------------------------------
(* A run *)

LEMMA BeginInv == ASSUME IInv, NEW h \in Hosts, Begin(h) PROVE IInv'
<1>0. Types /\ History /\ \A g \in Hosts : alone[g] => Exact(g)
  BY DEF IInv
<1>1. /\ UNCHANGED <<targets, open, seen, changes, faults>>
      /\ phase[h] = "idle"
      /\ open \subseteq Rows /\ Orphans(targets) \subseteq Rows
      /\ Cardinality(open) \in Nat
  BY <1>0, RowsAre, Counts DEF Begin, Types, IntegrityTypeOK
<1>2. /\ phase' = [phase EXCEPT ![h] = "detect"] /\ at' = [at EXCEPT ![h] = 1]
      /\ detected' = [detected EXCEPT ![h] = 0] /\ resolved' = [resolved EXCEPT ![h] = 0]
      /\ counted' = [counted EXCEPT ![h] = 0]
      /\ lasting' = [lasting EXCEPT ![h] = Orphans(targets)]
      /\ sound' = [sound EXCEPT ![h] = Rows \ Orphans(targets)]
      /\ before' = [before EXCEPT ![h] = Cardinality(open)]
  BY DEF Begin
<1>3. /\ alone' \in [Hosts -> BOOLEAN]
      /\ alone'[h] => \A o \in Hosts : ~Running(o)
      /\ \A o \in Hosts \ {h} : alone'[o] => alone[o] /\ ~Running(o)
  BY <1>0 DEF Begin, Types, IntegrityTypeOK
<1>4. Types'
  <2>1. 1 \in 0..Len(ORPHAN_CHECKS) /\ 1 \in 1..Len(ORPHAN_CHECKS)
    BY ChecksAre
  <2> QED BY <1>0, <1>1, <1>2, <1>3, <2>1 DEF Types, IntegrityTypeOK, Running
<1>5. History'
  BY <1>0, <1>1, <1>2 DEF History, Orphans, IsOrphan, Types, IntegrityTypeOK
<1>6. ASSUME NEW g \in Hosts, alone'[g] PROVE Exact(g)'
  <2>1. g = h
    BY <1>0, <1>3, <1>6 DEF Exact
  <2>2. /\ phase'[h] = "detect" /\ at'[h] = 1
        /\ \A o \in Hosts \ {h} : phase'[o] = "idle"
    BY <1>0, <1>2, <1>3, <1>6, <2>1 DEF Types, IntegrityTypeOK, Running
  <2>3. Found(h)' /\ Cleared(h)'
    BY <2>2 DEF Found, Cleared, OpenedTo, ResolvedTo
  <2>4. Balanced(h)'
    BY <1>0, <1>1, <1>2, <2>2 DEF Balanced, Types, IntegrityTypeOK
  <2> QED BY <2>1, <2>2, <2>3, <2>4 DEF Exact, Running
<1> QED BY <1>4, <1>5, <1>6 DEF IInv

\* A step of a run that is under way spoils nobody else's: who is alone is it.
LEMMA OnlyIt ==
    ASSUME IInv, NEW h \in Hosts, Running(h), NEW g \in Hosts, alone[g]
    PROVE  g = h /\ Exact(h)
BY DEF IInv, Exact

LEMMA ReadOrphansInv == ASSUME IInv, NEW h \in Hosts, ReadOrphans(h) PROVE IInv'
<1>0. Types /\ History
  BY DEF IInv
<1>1. /\ UNCHANGED <<targets, open, at, detected, resolved, counted, lasting, sound, alone,
                     before, changes, faults>>
      /\ phase[h] = "detect" /\ Running(h)
      /\ seen' = [seen EXCEPT ![h] = Of(Check(h), Orphans(targets))]
      /\ phase' = [phase EXCEPT ![h] = "open"]
  BY DEF ReadOrphans, Running, resultVars, historyVars
<1>2. Of(Check(h), Orphans(targets)) \subseteq Rows
  BY RowsAre DEF Of
<1>3. Types'
  BY <1>0, <1>1, <1>2 DEF Types, IntegrityTypeOK, Running
<1>4. History'
  BY <1>0, <1>1 DEF History, Orphans, IsOrphan
<1>5. ASSUME NEW g \in Hosts, alone'[g] PROVE Exact(g)'
  <2>1. g = h /\ Exact(h)
    BY <1>1, <1>5, OnlyIt
  <2>2. /\ phase'[h] = "open" /\ seen'[h] = Of(Check(h), Orphans(targets))
        /\ \A o \in Hosts \ {h} : phase'[o] = phase[o]
    BY <1>0, <1>1 DEF Types, IntegrityTypeOK
  <2>3. ToOpen(h)'
    BY <1>0, <1>1, <2>2 DEF ToOpen, History, Of, Check
  <2>4. Found(h)' /\ Cleared(h)' /\ Balanced(h)'
    BY <1>1, <2>1, <2>2 DEF Exact, Found, Cleared, Balanced, OpenedTo, ResolvedTo
  <2> QED BY <2>1, <2>2, <2>3, <2>4 DEF Exact, Running
<1> QED BY <1>3, <1>4, <1>5 DEF IInv

LEMMA OpenFindingsInv == ASSUME IInv, NEW h \in Hosts, OpenFindings(h) PROVE IInv'
<1>0. Types /\ History
  BY DEF IInv
<1>1. /\ UNCHANGED <<targets, at, resolved, counted, lasting, sound, alone, before, changes,
                     faults>>
      /\ phase[h] = "open" /\ Running(h)
      /\ open' = open \cup seen[h]
      /\ detected' = [detected EXCEPT ![h] = @ + Cardinality(seen[h] \ open)]
      /\ seen' = [seen EXCEPT ![h] = {}]
      /\ phase' = [phase EXCEPT ![h] = "resolve"]
  BY DEF OpenFindings, Running, historyVars
<1>2. /\ open \in SUBSET Rows /\ seen[h] \in SUBSET Rows
      /\ detected[h] \in Nat /\ resolved[h] \in Nat /\ before[h] \in Nat
      /\ at[h] \in 1..Len(ORPHAN_CHECKS)
  BY <1>0, <1>1 DEF Types, IntegrityTypeOK
<1>3. /\ Cardinality(open') = Cardinality(open) + Cardinality(seen[h] \ open)
      /\ Cardinality(open) \in Nat /\ Cardinality(seen[h] \ open) \in Nat
  BY <1>1, <1>2, Counts
<1>4. /\ detected' \in [Hosts -> Nat]
      /\ detected'[h] = detected[h] + Cardinality(seen[h] \ open)
  BY <1>0, <1>1, <1>2, <1>3 DEF Types, IntegrityTypeOK
<1>5. Types'
  BY <1>0, <1>1, <1>2, <1>4 DEF Types, IntegrityTypeOK, Running
<1>6. History'
  BY <1>0, <1>1 DEF History, Orphans, IsOrphan
<1>7. ASSUME NEW g \in Hosts, alone'[g] PROVE Exact(g)'
  <2>1. g = h /\ Exact(h) /\ ToOpen(h)
    BY <1>1, <1>7, OnlyIt DEF Exact
  <2>2. /\ phase'[h] = "resolve" /\ \A o \in Hosts \ {h} : phase'[o] = phase[o]
    BY <1>0, <1>1 DEF Types, IntegrityTypeOK
  <2>3. Found(h)'
    <3>1. ASSUME NEW row \in lasting[h], NEW i \in 1..at[h], row[1] = ORPHAN_CHECKS[i]
          PROVE  row \in open'
      <4>1. CASE i = at[h]
        BY <1>1, <2>1, <3>1, <4>1 DEF ToOpen, Of, Check
      <4>2. CASE i # at[h]
        <5>1. i \in 1..(at[h] - 1)
          BY <1>2, <4>2
        <5> QED BY <1>1, <2>1, <3>1, <5>1 DEF Exact, Found, OpenedTo
      <4> QED BY <4>1, <4>2
    <3> QED BY <1>1, <2>2, <3>1 DEF Found, OpenedTo
  <2>4. Cleared(h)'
    BY <1>1, <2>1, <2>2 DEF Exact, Cleared, ResolvedTo, ToOpen
  <2>5. Balanced(h)'
    <3>1. before[h] + detected[h] = resolved[h] + Cardinality(open)
      BY <1>1, <2>1 DEF Exact, Balanced
    <3>2. before[h] + detected'[h] = resolved[h] + Cardinality(open')
      <4> DEFINE b == before[h]
                 d == detected[h]
                 r == resolved[h]
                 o == Cardinality(open)
                 x == Cardinality(seen[h] \ open)
      <4>1. /\ b \in Nat /\ d \in Nat /\ r \in Nat /\ o \in Nat /\ x \in Nat
            /\ b + d = r + o
        BY <1>2, <1>3, <3>1
      <4>2. detected'[h] = d + x /\ Cardinality(open') = o + x
        BY <1>3, <1>4
      <4>3. b + (d + x) = r + (o + x)
        <5> HIDE DEF b, d, r, o, x
        <5> QED BY <4>1
      <4> QED BY <4>2, <4>3
    <3>3. UNCHANGED <<before, resolved>>
      BY <1>1
    <3>4. phase'[h] # "done"
      BY <2>2
    <3> QED BY <3>2, <3>3, <3>4 DEF Balanced
  <2> QED BY <2>1, <2>2, <2>3, <2>4, <2>5 DEF Exact, Running
<1> QED BY <1>5, <1>6, <1>7 DEF IInv

LEMMA ReadResolvedInv == ASSUME IInv, NEW h \in Hosts, ReadResolved(h) PROVE IInv'
<1>0. Types /\ History
  BY DEF IInv
<1>1. /\ UNCHANGED <<targets, open, at, detected, resolved, counted, lasting, sound, alone,
                     before, changes, faults>>
      /\ phase[h] = "resolve" /\ Running(h)
      /\ seen' = [seen EXCEPT ![h] = Resolvable(h)]
      /\ phase' = [phase EXCEPT ![h] = "close"]
  BY DEF ReadResolved, Running, resultVars, historyVars
<1>2. Resolvable(h) \subseteq Rows
  BY <1>0 DEF Resolvable, Of, Types, IntegrityTypeOK
<1>3. Types'
  BY <1>0, <1>1, <1>2 DEF Types, IntegrityTypeOK, Running
<1>4. History'
  BY <1>0, <1>1 DEF History, Orphans, IsOrphan
<1>5. ASSUME NEW g \in Hosts, alone'[g] PROVE Exact(g)'
  <2>1. g = h /\ Exact(h)
    BY <1>1, <1>5, OnlyIt
  <2>2. /\ phase'[h] = "close" /\ seen'[h] = Resolvable(h)
        /\ \A o \in Hosts \ {h} : phase'[o] = phase[o]
    BY <1>0, <1>1 DEF Types, IntegrityTypeOK
  <2>3. ToClose(h)'
    BY <1>0, <1>1, <2>2 DEF ToClose, History, Resolvable, Of, Check
  <2>4. Found(h)' /\ Cleared(h)' /\ Balanced(h)'
    BY <1>1, <2>1, <2>2 DEF Exact, Found, Cleared, Balanced, OpenedTo, ResolvedTo
  <2> QED BY <2>1, <2>2, <2>3, <2>4 DEF Exact, Running
<1> QED BY <1>3, <1>4, <1>5 DEF IInv

LEMMA CloseFindingsInv == ASSUME IInv, NEW h \in Hosts, CloseFindings(h) PROVE IInv'
<1>0. Types /\ History
  BY DEF IInv
<1> DEFINE n == IF at[h] < Len(ORPHAN_CHECKS) THEN at[h] + 1 ELSE at[h]
           s == IF at[h] < Len(ORPHAN_CHECKS) THEN "detect" ELSE "count"
<1>1. /\ UNCHANGED <<targets, detected, counted, lasting, sound, alone, before, changes,
                     faults>>
      /\ phase[h] = "close" /\ Running(h)
      /\ open' = open \ seen[h]
      /\ resolved' = [resolved EXCEPT ![h] = @ + Cardinality(seen[h] \cap open)]
  BY DEF CloseFindings, Running, historyVars
<1>2. /\ open \in SUBSET Rows /\ seen[h] \in SUBSET Rows
      /\ detected[h] \in Nat /\ resolved[h] \in Nat /\ before[h] \in Nat
      /\ at \in [Hosts -> 0..Len(ORPHAN_CHECKS)] /\ at[h] \in 1..Len(ORPHAN_CHECKS)
  BY <1>0, <1>1 DEF Types, IntegrityTypeOK
<1>3. phase' = [phase EXCEPT ![h] = s] /\ at' = [at EXCEPT ![h] = n]
  BY <1>2 DEF CloseFindings, NextCheck
<1>4. /\ Cardinality(open') + Cardinality(seen[h] \cap open) = Cardinality(open)
      /\ Cardinality(open) \in Nat /\ Cardinality(seen[h] \cap open) \in Nat
      /\ Cardinality(open') \in Nat
  BY <1>1, <1>2, Counts
<1>5. /\ resolved' \in [Hosts -> Nat]
      /\ resolved'[h] = resolved[h] + Cardinality(seen[h] \cap open)
  BY <1>0, <1>1, <1>2, <1>4 DEF Types, IntegrityTypeOK
<1>6. seen' \in [Hosts -> SUBSET Rows]
  BY <1>0 DEF CloseFindings, Types, IntegrityTypeOK
<1>7. /\ n \in 1..Len(ORPHAN_CHECKS) /\ s \in {"detect", "count"}
      /\ s = "detect" => n - 1 = at[h]
      /\ s = "count" => n = at[h] /\ n = Len(ORPHAN_CHECKS)
  BY <1>2, ChecksAre
<1> HIDE DEF n, s
<1>8. /\ at' \in [Hosts -> 0..Len(ORPHAN_CHECKS)] /\ at'[h] = n
      /\ phase'[h] = s
      /\ \A o \in Hosts \ {h} : phase'[o] = phase[o] /\ at'[o] = at[o]
  BY <1>0, <1>2, <1>3, <1>7 DEF Types, IntegrityTypeOK
<1>9. Types'
  <2>1. open' \subseteq Rows
    BY <1>1, <1>2
  <2>2. phase' \in [Hosts -> {"idle", "detect", "open", "resolve", "close", "count", "done"}]
    BY <1>0, <1>3, <1>7 DEF Types, IntegrityTypeOK
  <2>3. IntegrityTypeOK'
    BY <1>0, <1>1, <1>5, <1>6, <1>8, <2>1, <2>2 DEF Types, IntegrityTypeOK
  <2>4. \A o \in Hosts : Running(o)' => at'[o] \in 1..Len(ORPHAN_CHECKS)
    BY <1>0, <1>7, <1>8 DEF Types, Running
  <2> QED BY <2>3, <2>4 DEF Types
<1>10. History'
  BY <1>0, <1>1 DEF History, Orphans, IsOrphan
<1>11. ASSUME NEW g \in Hosts, alone'[g] PROVE Exact(g)'
  <2>1. g = h /\ Exact(h) /\ ToClose(h)
    BY <1>1, <1>11, OnlyIt DEF Exact
  <2>2. OpenedTo(h)' = at[h] /\ ResolvedTo(h)' = at[h]
    BY <1>7, <1>8 DEF OpenedTo, ResolvedTo
  <2>3. Found(h)'
    BY <1>1, <2>1, <2>2 DEF Exact, Found, OpenedTo, ToClose
  <2>4. Cleared(h)'
    <3>1. ASSUME NEW row \in sound[h], NEW i \in 1..at[h], row[1] = ORPHAN_CHECKS[i]
          PROVE  row \notin open'
      <4>1. CASE i = at[h]
        BY <1>1, <2>1, <3>1, <4>1 DEF ToClose, Of, Check
      <4>2. CASE i # at[h]
        <5>1. i \in 1..(at[h] - 1)
          BY <1>2, <4>2
        <5> QED BY <1>1, <2>1, <3>1, <5>1 DEF Exact, Cleared, ResolvedTo
      <4> QED BY <4>1, <4>2
    <3> QED BY <1>1, <2>2, <3>1 DEF Cleared
  <2>5. Balanced(h)'
    <3>1. before[h] + detected[h] = resolved[h] + Cardinality(open)
      BY <1>1, <2>1 DEF Exact, Balanced
    <3>2. before[h] + detected[h] = resolved'[h] + Cardinality(open')
      <4> DEFINE b == before[h]
                 d == detected[h]
                 r == resolved[h]
                 o == Cardinality(open)
                 x == Cardinality(seen[h] \cap open)
                 left == Cardinality(open')
      <4>1. /\ b \in Nat /\ d \in Nat /\ r \in Nat /\ o \in Nat /\ x \in Nat /\ left \in Nat
            /\ b + d = r + o /\ left + x = o
        BY <1>2, <1>4, <3>1
      <4>2. resolved'[h] = r + x
        BY <1>5
      <4>3. b + d = (r + x) + left
        <5> HIDE DEF b, d, r, o, x, left
        <5> QED BY <4>1
      <4> QED BY <4>2, <4>3
    <3> QED BY <1>1, <1>7, <1>8, <3>2 DEF Balanced
  <2> QED BY <1>7, <1>8, <2>1, <2>3, <2>4, <2>5 DEF Exact, Running
<1> QED BY <1>9, <1>10, <1>11 DEF IInv

LEMMA TallyInv == ASSUME IInv, NEW h \in Hosts, Tally(h) PROVE IInv'
<1>0. Types /\ History
  BY DEF IInv
<1>1. /\ UNCHANGED <<targets, open, at, seen, detected, resolved, lasting, sound, alone,
                     before, changes, faults>>
      /\ phase[h] = "count" /\ Running(h)
      /\ counted' = [counted EXCEPT ![h] = Cardinality(open)]
      /\ phase' = [phase EXCEPT ![h] = "done"]
  BY DEF Tally, OpenCount, Running, historyVars
<1>2. Cardinality(open) \in Nat
  BY <1>0, Counts DEF Types, IntegrityTypeOK
<1>3. Types'
  BY <1>0, <1>1, <1>2 DEF Types, IntegrityTypeOK, Running
<1>4. History'
  BY <1>0, <1>1 DEF History, Orphans, IsOrphan
<1>5. ASSUME NEW g \in Hosts, alone'[g] PROVE Exact(g)'
  <2>1. g = h /\ Exact(h)
    BY <1>1, <1>5, OnlyIt
  <2>2. /\ phase'[h] = "done" /\ counted'[h] = Cardinality(open)
        /\ \A o \in Hosts \ {h} : phase'[o] = phase[o]
    BY <1>0, <1>1 DEF Types, IntegrityTypeOK
  <2>3. Found(h)' /\ Cleared(h)' /\ Balanced(h)'
    BY <1>1, <2>1, <2>2 DEF Exact, Found, Cleared, Balanced, OpenedTo, ResolvedTo
  <2> QED BY <1>1, <2>1, <2>2, <2>3 DEF Exact, Running
<1> QED BY <1>3, <1>4, <1>5 DEF IInv

\* The end of a run, whatever ends it.
LEMMA RestInv ==
    ASSUME IInv, NEW h \in Hosts, Running(h), Rest(h), faults' \in 0..MaxFaults
    PROVE  IInv'
<1>0. Types /\ History
  BY DEF IInv
<1>1. /\ UNCHANGED <<targets, open, changes>>
      /\ phase' = [phase EXCEPT ![h] = "idle"] /\ at' = [at EXCEPT ![h] = 0]
      /\ seen' = [seen EXCEPT ![h] = {}] /\ before' = [before EXCEPT ![h] = 0]
      /\ detected' = [detected EXCEPT ![h] = 0] /\ resolved' = [resolved EXCEPT ![h] = 0]
      /\ counted' = [counted EXCEPT ![h] = 0]
      /\ lasting' = [lasting EXCEPT ![h] = {}] /\ sound' = [sound EXCEPT ![h] = {}]
  BY DEF Rest
<1>2. alone' \in [Hosts -> BOOLEAN] /\ \A g \in Hosts : ~alone'[g]
  <2>1. alone \in [Hosts -> BOOLEAN] /\ alone' = [alone EXCEPT ![h] = FALSE]
    BY <1>0 DEF Rest, Types, IntegrityTypeOK
  <2>2. \A g \in Hosts \ {h} : ~alone[g]
    BY OnlyIt
  <2> QED BY <2>1, <2>2
<1>3. Types'
  <2>1. 0 \in 0..Len(ORPHAN_CHECKS)
    BY ChecksAre
  <2> QED BY <1>0, <1>1, <1>2, <2>1 DEF Types, IntegrityTypeOK, Running
<1>4. History'
  BY <1>0, <1>1 DEF History, Orphans, IsOrphan, Types, IntegrityTypeOK
<1> QED BY <1>2, <1>3, <1>4 DEF IInv

-----------------------------------------------------------------------------
(* The theorems *)

LEMMA NextInv == ASSUME IInv, [IntegrityNext]_jobVars PROVE IInv'
<1>1. ASSUME NEW c \in CheckNames, NEW id \in Targets[c],
             DeleteTarget(c, id) \/ RestoreTarget(c, id)
      PROVE  IInv'
  <2> DEFINE U == UNION {Targets[d] : d \in CheckNames}
  <2>1. targets[c] \in SUBSET U /\ id \in U
    BY DEF IInv, Types, IntegrityTypeOK
  <2>2. targets[c] \ {id} \in SUBSET U /\ targets[c] \cup {id} \in SUBSET U
    BY <2>1
  <2> HIDE DEF U
  <2>3. Change(c, targets[c] \ {id}) \/ Change(c, targets[c] \cup {id})
    BY <1>1 DEF DeleteTarget, RestoreTarget
  <2> QED BY <2>2, <2>3, ChangeInv DEF U
<1>2. ASSUME NEW h \in Hosts, Begin(h) PROVE IInv'
  BY <1>2, BeginInv
<1>3. ASSUME NEW h \in Hosts, Step(h) PROVE IInv'
  <2>1. CASE Report(h)
    <3>1. Running(h) /\ Rest(h) /\ faults' \in 0..MaxFaults
      BY <2>1 DEF Report, Running, IInv, Types, IntegrityTypeOK
    <3> QED BY <3>1, RestInv
  <2> QED BY <1>3, <2>1, ReadOrphansInv, OpenFindingsInv, ReadResolvedInv, CloseFindingsInv,
             TallyInv DEF Step
<1>4. ASSUME NEW h \in Hosts, Fail(h) PROVE IInv'
  <2>1. Running(h) /\ Rest(h)
    BY <1>4 DEF Fail, Running
  <2>2. faults' \in 0..MaxFaults
    BY <1>4, IntegrityAssumption DEF Fail, IInv, Types, IntegrityTypeOK
  <2> QED BY <2>1, <2>2, RestInv
<1>5. CASE UNCHANGED jobVars
  <2>1. UNCHANGED <<targets, open, phase, at, seen, detected, resolved, counted, lasting,
                    sound, alone, before, changes, faults>>
    BY <1>5 DEF jobVars, resultVars, historyVars
  <2>2. Types' /\ History'
    BY <2>1 DEF IInv, Types, IntegrityTypeOK, Running, History, Orphans, IsOrphan
  <2>3. ASSUME NEW h \in Hosts, alone'[h] PROVE Exact(h)'
    BY <2>1, <2>3 DEF IInv, Exact, Running, ToOpen, ToClose, Found, Cleared, Balanced,
                      OpenedTo, ResolvedTo, Check
  <2> QED BY <2>2, <2>3 DEF IInv
<1> QED BY <1>1, <1>2, <1>3, <1>4, <1>5 DEF IntegrityNext

LEMMA AlwaysIInv == IntegritySpec => []IInv
<1>1. IntegrityInit => IInv
  BY InitInv
<1>2. IInv /\ [IntegrityNext]_jobVars => IInv'
  BY NextInv
<1> QED BY <1>1, <1>2, PTL DEF IntegritySpec

\* A run's numbers, its place and what it has read are of their kinds: findings
\* are of rows there are, and a run never leaves the list of checks.
THEOREM IntegrityTypes == IntegritySpec => []IntegrityTypeOK
<1>1. IInv => IntegrityTypeOK
  BY DEF IInv, Types
<1> QED BY <1>1, AlwaysIInv, PTL

\* A run alone at the findings ends with all that lasted open, nothing that was
\* sound, and numbers that add up, for any checks and tables, however many runs
\* before it were cut short or overlapped.
THEOREM RunsAreAlwaysExact == IntegritySpec => []RunsAreExact
<1>1. IInv => RunsAreExact
  <2> SUFFICES ASSUME IInv, NEW h \in Hosts, phase[h] = "done", alone[h]
               PROVE  /\ lasting[h] \subseteq open
                      /\ sound[h] \cap open = {}
                      /\ before[h] + detected[h] = resolved[h] + counted[h]
    BY DEF RunsAreExact
  <2>1. Exact(h)
    BY DEF IInv
  <2>2. OpenedTo(h) = Len(ORPHAN_CHECKS) /\ ResolvedTo(h) = Len(ORPHAN_CHECKS)
    BY <2>1 DEF Exact, OpenedTo, ResolvedTo
  <2>3. \A row \in lasting[h] \cup sound[h] :
            \E i \in 1..Len(ORPHAN_CHECKS) : row[1] = ORPHAN_CHECKS[i]
    BY ChecksAre, RowsAre DEF IInv, Types, IntegrityTypeOK
  <2>4. lasting[h] \subseteq open
    BY <2>1, <2>2, <2>3 DEF Exact, Found
  <2>5. sound[h] \cap open = {}
    BY <2>1, <2>2, <2>3 DEF Exact, Cleared
  <2> QED BY <2>1, <2>4, <2>5 DEF Exact, Balanced
<1> QED BY <1>1, AlwaysIInv, PTL
=============================================================================
