---------------------------- MODULE MCWorkQueue ----------------------------
(***************************************************************************)
(* Instances of WorkQueue small enough for TLC.  No symmetry: the runs      *)
(* check liveness.                                                          *)
(***************************************************************************)
EXTENDS WorkQueue

CONSTANTS dispatch1, dispatch2, job, request
=============================================================================
