---------------------------- MODULE MCAtomicApply ----------------------------
(***************************************************************************)
(* Small instances of AtomicApply.  Diffs d1 and d2 belong to arc a1, d3   *)
(* to arc a2; d1 and d3 append to the same ledger, d1 and d2 promote the   *)
(* same chapter, d2 repeats d1's event id and d3's event has none.         *)
(***************************************************************************)
EXTENDS AtomicApplyInv

CONSTANTS a1, a2, d1, d2, d3, o1, o2, o3, o4, ch1, ch2, k1, e1

Timeline(d, e) ==
  [diff |-> d, target |-> "timeline", operation |-> "append_event",
   source |-> "draft", derived |-> FALSE, from |-> "none", to |-> "none",
   event |-> e]

Foreshadow(d, from, to) ==
  [diff |-> d, target |-> "foreshadowing", operation |-> "pay_off_foreshadow",
   source |-> "draft", derived |-> FALSE, from |-> from, to |-> to,
   event |-> NoEvent]

(* d1: two ledgers, a chapter and a card; d2: one event, the same chapter. *)
MCOpInfo ==
  [o \in Op |-> CASE o = o1 -> Timeline(d1, e1)
                  [] o = o2 -> Foreshadow(d1, "introduced", "paid_off")
                  [] o = o3 -> Timeline(d2, e1)
                  [] OTHER  -> Timeline(d3, NoEvent)]

MCDiffInfo ==
  [d \in Diff |->
     [arc    |-> IF d = d3 THEN a2 ELSE a1,
      schema |-> "1.0",
      drafts |-> IF d = d3 THEN {ch2} ELSE {ch1},
      cards  |-> IF d = d1 THEN {k1} ELSE {}]]

(* As above, with d2's operation a transition no foreshadow may make. *)
MCOpInfoInvalid ==
  [o \in Op |-> IF o = o3 THEN Foreshadow(d2, "paid_off", "introduced")
                          ELSE MCOpInfo[o]]

MCGate == {[synthetic |-> s, decision |-> "approved", evidence |-> e, level |-> l] :
             s \in BOOLEAN, e \in {"auto", "short", "long"},
             l \in {"lightweight", "strict"}}
=============================================================================
