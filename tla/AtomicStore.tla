----------------------------- MODULE AtomicStore -----------------------------
(***************************************************************************)
(* What AtomicApplyManager promises its callers: the project's fact store  *)
(* -- the ledgers, canon/manuscript and canon/characters -- changes only   *)
(* by whole ledger diffs.  The operations, chapters and character cards of *)
(* a diff appear together in one step, and it is committed at most once    *)
(* for as long as the store remembers it.                                  *)
(***************************************************************************)
EXTENDS Naturals

CONSTANTS
  Diff,        \* submissions: a ledger diff with its drafts and canon diff
  Change,      \* Change[d]: the ops, drafts, cards and ledger files of d
  Distinctive, \* diffs recognised in the store itself
  StoreInit    \* the store before the first apply

VARIABLES
  store,      \* [files, count, manuscript, cards]
  committed,  \* the diffs whose changes are in the store
  forgotten   \* those the store no longer knows by their hash

(***************************************************************************)
(* The store once d is merged into it: every operation of d occurs once    *)
(* more in its ledger, every chapter and card of d is the one d brings.    *)
(***************************************************************************)
Merge(s, d) ==
  [files      |-> s.files \cup Change[d].files,
   count      |-> [o \in DOMAIN s.count |->
                     IF o \in Change[d].ops THEN s.count[o] + 1 ELSE s.count[o]],
   manuscript |-> [ch \in DOMAIN s.manuscript |->
                     IF ch \in Change[d].drafts THEN d ELSE s.manuscript[ch]],
   cards      |-> [k \in DOMAIN s.cards |->
                     IF k \in Change[d].cards THEN d ELSE s.cards[k]]]

Init ==
  /\ store = StoreInit
  /\ committed = {}
  /\ forgotten = {}

Commit(d) ==
  /\ d \notin committed \/ d \in forgotten \ Distinctive
  /\ store' = Merge(store, d)
  /\ committed' = committed \cup {d}
  /\ UNCHANGED forgotten

(* The list of hashes is lost; the facts are not. *)
Forget ==
  /\ forgotten' = committed
  /\ UNCHANGED <<store, committed>>

Next == Forget \/ \E d \in Diff : Commit(d)

Spec == Init /\ [][Next]_<<store, committed, forgotten>>
=============================================================================
