------------------------------ MODULE MCIoMan ------------------------------
(* Model-checking instance of IoMan, with the inductive invariant of its   *)
(* proofs.                                                                 *)
EXTENDS IoManProofs

CONSTANTS r1, r2, r3
MCReqs == {r1, r2, r3}
=============================================================================
