--------------------------- MODULE MCBazaarChurn ---------------------------
(* Instances of BazaarChurn for TLC: two workers, and few enough listings  *)
(* and inserts that they meet.                                             *)
EXTENDS BazaarChurn
=============================================================================
