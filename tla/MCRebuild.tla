----------------------------- MODULE MCRebuild -----------------------------
(* Small instances of Rebuild.                                             *)
EXTENDS Rebuild, TLC

CONSTANTS r1, r2, c1, c2

TwoCallers == {r1, r2}
OneChapter == {c1}

\* An active rebuild of a chapter and a lenient one of the arc, or any request.
TwoRequests == {[chapter |-> c1, active |-> TRUE], [chapter |-> NoChapter, active |-> FALSE]}

CallerSymmetry == Permutations(TwoCallers)
=============================================================================
