----------------------------- MODULE MCBdmScan -----------------------------
(* Model-checking instances of BdmScan, with the delays of the code in     *)
(* polling intervals.                                                      *)
EXTENDS BdmScan

CONSTANTS m1, m2
=============================================================================
