---------------------------- MODULE MCChatOracle ----------------------------
(* Instances of ChatOracle for TLC.                                        *)
EXTENDS ChatOracle, TLC

CONSTANTS k1, k2, k3, k4, i1, i2, q1

\* In oracle_cap all keys are sampled, so they are interchangeable.
KeySymmetry == Permutations(Key)
=============================================================================
