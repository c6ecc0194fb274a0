--------------------------- MODULE MCVmnetServiceIo ---------------------------
(* Model checking of VmnetServiceIo: two requests, channels so small that     *)
(* both fill up, and tokens enough for a rejection to happen while both are   *)
(* full.  Extending the proofs' module evaluates its assumptions.             *)
EXTENDS VmnetServiceIoProofs

CONSTANTS r1, r2
=============================================================================
