---------------------------- MODULE MCBazaarRun ----------------------------
(* An instance of BazaarRun for TLC: one load worker with three batches,   *)
(* the last one short, and two parts that end in either order.             *)
EXTENDS BazaarRun
=============================================================================
