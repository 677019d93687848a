-------------------------------- MODULE Sums --------------------------------
(***************************************************************************)
(* Sums over finite sets.  The models count with them what the code counts *)
(* with loops and SUM(...); SumsProofs proves what proofs need of them.    *)
(***************************************************************************)
EXTENDS Integers, Functions

\* The sum of f over S.
SumOf(f, S) == FoldFunctionOnSet(+, 0, f, S)
=============================================================================
