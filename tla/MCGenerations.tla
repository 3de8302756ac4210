---------------------------- MODULE MCGenerations ----------------------------
(* Small instances of Generations.  The writer's budget has no room for    *)
(* everything, the extractor's for less.                                   *)
EXTENDS Generations, TLC

Lengths == [k \in Kind |-> IF k = "summary" THEN 2 ELSE 1]
Budgets == "writer" :> 5 @@ "auditor" :> 6 @@ "extractor" :> 3
=============================================================================
