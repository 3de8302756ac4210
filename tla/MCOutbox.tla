------------------------------- MODULE MCOutbox -------------------------------
(***************************************************************************)
(* Small instances of Outbox: two requests that share a dedup key, one of  *)
(* them of a type nobody handles, and one without a key that starts later. *)
(***************************************************************************)
EXTENDS Outbox, TLC

CONSTANTS k1, summary, other

Keyed   == [type |-> summary, key |-> k1, max |-> 1, delay |-> 0]
Delayed == [type |-> summary, key |-> NoKey, max |-> 2, delay |-> 1]
Foreign == [type |-> other, key |-> k1, max |-> 2, delay |-> 0]

KeyedRequests == {Keyed, Foreign}
WorkRequests == {Keyed, Delayed}

(* All workers use the default worker_id. *)
DefaultOwner == [w \in Worker |-> "worker-default"]

AcceptAll == [w \in Worker |-> JobType]
HandleSummary == [w \in Worker |-> {summary}]

(* Rows, producers and workers are interchangeable. *)
Symmetry ==
  Permutations(JobId) \cup Permutations(Producer) \cup Permutations(Worker)

ShortBackoff == <<1, 2>>
=============================================================================
