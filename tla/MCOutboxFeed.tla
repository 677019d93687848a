---------------------------- MODULE MCOutboxFeed ----------------------------
(***************************************************************************)
(* An instance of OutboxFeed small enough for TLC.                         *)
(***************************************************************************)
EXTENDS OutboxFeed, TLC

CONSTANTS f1, f2, d1, t1, t2

Line(track, quantity) == [track |-> track, quantity |-> quantity]

\* The third invoice overflows the column of 32 bits (MaxInt, here) alone.
Invoices == (1 :> <<Line(t1, 1), Line(t2, 1), Line(t1, 1)>>)
            @@ (2 :> <<Line(t2, 1), Line(t1, 1)>>)
            @@ (3 :> <<Line(t2, 4)>>)
            @@ (4 :> <<>>) @@ (5 :> <<>>)

Dates == (1 :> 2) @@ (2 :> 1) @@ (3 :> 3) @@ (4 :> 1) @@ (5 :> 1)
=============================================================================
