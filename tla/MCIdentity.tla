----------------------------- MODULE MCIdentity -----------------------------
(***************************************************************************)
(* Instances of RefreshTokens and RemoteIdentity small enough for TLC, side *)
(* by side: part says whose steps a behaviour takes, so that one run       *)
(* explores the two, one after the other.                                  *)
(***************************************************************************)
EXTENDS RefreshTokens, RemoteIdentity, TLC

VARIABLE part

BothInit == Init /\ IdentityInit /\ part \in {"tokens", "keys"}

BothNext ==
    /\ UNCHANGED part
    /\ \/ part = "tokens" /\ Next /\ UNCHANGED identityVars
       \/ part = "keys" /\ IdentityNext /\ UNCHANGED vars

BothSpec == BothInit /\ [][BothNext]_<<vars, identityVars, part>>

-----------------------------------------------------------------------------
(* RefreshTokens *)

CONSTANTS alice, bob, la, lb, fa1, fa2, oa

\* Alice and Bob log in, Alice refreshes with her token or with his, or her
\* spent one, and logs out with either.
Naming == (la :> alice) @@ (lb :> bob) @@ (fa1 :> alice) @@ (fa2 :> alice)
          @@ (oa :> alice)

RefreshSymmetry == Permutations({fa1, fa2})

-----------------------------------------------------------------------------
(* RemoteIdentity *)

CONSTANTS k1, k2, c1, c2
=============================================================================
