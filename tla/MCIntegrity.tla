---------------------------- MODULE MCIntegrity -----------------------------
(***************************************************************************)
(* An instance of Integrity small enough for TLC.                          *)
(***************************************************************************)
EXTENDS Integrity, TLC

CONSTANTS h1, h2

\* Two tracks with a genre and one without; an invoice whose customer is there.
Checks == <<"track-genre", "invoice-customer">>

References == "track-genre" :> (1 :> 1 @@ 2 :> 1 @@ 3 :> Null) @@ "invoice-customer" :> (1 :> 2)

There == "track-genre" :> {1} @@ "invoice-customer" :> {2}
=============================================================================
