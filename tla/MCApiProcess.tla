---------------------------- MODULE MCApiProcess ----------------------------
(* A small instance of ApiProcess for TLC.                                 *)
EXTENDS ApiProcess

CONSTANTS r1, r2, c1
=============================================================================
