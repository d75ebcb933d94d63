--------------------------- MODULE MCBazaarVerify ---------------------------
(* Instances of BazaarVerify for TLC: a grace, a pause and a lag in which  *)
(* replies can be early, in time and late.                                 *)
EXTENDS BazaarVerify
=============================================================================
