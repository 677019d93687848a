--------------------------- MODULE EventDelivery ---------------------------
(***************************************************************************)
(* What the outbox promises the modules that publish and consume events,   *)
(* without a dispatcher, a batch, a lock, a retry or a clock: an event is   *)
(* accepted with the business change it announces, at most one per change; *)
(* each subscribed handler takes effect on it at most once; it is settled  *)
(* only when every handler has taken effect; until then it may be parked   *)
(* for a person to send back.  Outbox.tla is shown to implement this.      *)
(***************************************************************************)

CONSTANTS
    Events,      \* event identities, one per finalization attempt
    Handlers,    \* the subscribed handlers' inbox names
    ChangeOf     \* [Events -> changes]: the change an event announces

VARIABLES
    accepted,    \* the events whose business change committed
    effects,     \* the <<event, handler>> pairs that have taken effect
    settled,     \* the events delivered to everyone, for good
    parked       \* the events set aside for a person

abstractVars == <<accepted, effects, settled, parked>>

Init ==
    /\ accepted = {}
    /\ effects = {}
    /\ settled = {}
    /\ parked = {}

\* The change and its event become visible together, once per change.
Accept(e) ==
    /\ \A f \in accepted : ChangeOf[f] # ChangeOf[e]
    /\ accepted' = accepted \cup {e}
    /\ UNCHANGED <<effects, settled, parked>>

\* A handler's writes become visible, and never a second time.
TakeEffect(e, h) ==
    /\ e \in accepted \ settled
    /\ <<e, h>> \notin effects
    /\ effects' = effects \cup {<<e, h>>}
    /\ UNCHANGED <<accepted, settled, parked>>

\* One commit settles some events and parks others.  It settles only what
\* every handler has taken effect on.
Conclude(done, failed) ==
    /\ done \cup failed \subseteq accepted \ (settled \cup parked)
    /\ done \cap failed = {}
    /\ done \X Handlers \subseteq effects
    /\ settled' = settled \cup done
    /\ parked' = parked \cup failed
    /\ UNCHANGED <<accepted, effects>>

\* A person sends a parked event back.
Unpark(e) ==
    /\ e \in parked
    /\ parked' = parked \ {e}
    /\ UNCHANGED <<accepted, effects, settled>>

Next ==
    \/ \E e \in Events : Accept(e) \/ Unpark(e)
    \/ \E e \in Events, h \in Handlers : TakeEffect(e, h)
    \/ \E done, failed \in SUBSET Events : Conclude(done, failed)

Spec == Init /\ [][Next]_abstractVars
=============================================================================
