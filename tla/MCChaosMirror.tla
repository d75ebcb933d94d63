--------------------------- MODULE MCChaosMirror ---------------------------
(* An instance of ChaosMirror for TLC.                                     *)
EXTENDS ChaosMirror

CONSTANTS s1, b1

=============================================================================
