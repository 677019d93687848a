------------------------------ MODULE MCOutbox ------------------------------
(***************************************************************************)
(* Instances of Outbox small enough for TLC.                               *)
(***************************************************************************)
EXTENDS Outbox, TLC

CONSTANTS e1, e2, e3, e4, i1, i2, missing, catalog, admin

\* A call for an invoice that no other call touches.
OneInvoice == e1 :> i1

\* Two invoices, one call each.
TwoInvoices == (e1 :> i1) @@ (e2 :> i2)

\* Two calls that race for one invoice, one for an invoice of its own, and one
\* for an id that has none.
RacingCalls == (e1 :> i1) @@ (e2 :> i1) @@ (e3 :> i2) @@ (e4 :> missing)

BothHandlers == <<catalog, admin>>

OneHandler == <<catalog>>

OneDelay == <<1>>

\* Growing delays, as those of RETRY_DELAYS, in ticks.
TwoDelays == <<1, 2>>

DispatcherSymmetry == Permutations(Dispatchers)
=============================================================================
