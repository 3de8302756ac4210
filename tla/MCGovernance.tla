---------------------------- MODULE MCGovernance ----------------------------
(* Small instances of Governance.                                          *)
EXTENDS Governance, TLC

CONSTANTS a1, a2, governance, index
=============================================================================
