---------------------------- MODULE MCSearchIndex ----------------------------
(* Small instances of SearchIndex: a chapter and two entries of a ledger.  *)
EXTENDS SearchIndex, TLC

CONSTANTS chapter, entry1, entry2, ledger, b1, b2

IndexOrder == <<chapter, entry1, entry2>>
Files == chapter :> chapter @@ entry1 :> ledger @@ entry2 :> ledger
Lengths == chapter :> 3 @@ entry1 :> 2 @@ entry2 :> 1
Plans == {<<3, 3>>, <<4, 2>>}
Symmetry == Permutations({b1, b2})
=============================================================================
