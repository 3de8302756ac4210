--------------------------- MODULE MCStressRunner ---------------------------
(* Small instances of StressRunner.                                        *)
EXTENDS StressRunner, TLC
=============================================================================
