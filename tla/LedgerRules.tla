----------------------------- MODULE LedgerRules -----------------------------
(***************************************************************************)
(* The rule tables of novel_workflow/config.py and the data-independent    *)
(* checks made from them before anything is written: which operations a    *)
(* ledger accepts, how a foreshadow may move, which provenance an          *)
(* operation needs and which gate records allow an apply.                  *)
(***************************************************************************)

Ledger == {"timeline", "character_knowledge", "foreshadowing"}

LedgerOperations ==
  [timeline            |-> {"append_event", "correction"},
   character_knowledge |-> {"append_knowledge", "mark_corrected"},
   foreshadowing       |-> {"introduce_foreshadow", "develop_foreshadow",
                            "pay_off_foreshadow", "abandon_foreshadow"}]

ForeshadowStatus == {"introduced", "developed", "paid_off", "abandoned"}

ForeshadowTransitions ==
  [introduced |-> {"developed", "paid_off", "abandoned"},
   developed  |-> {"paid_off", "abandoned"},
   paid_off   |-> {},
   abandoned  |-> {}]

SupportedSchemaVersions == {"1.0"}

(***************************************************************************)
(* A foreshadowing operation may leave either end of its transition out    *)
(* ("none"), and is then not checked.                                      *)
(***************************************************************************)
TransitionAllowed(from, to) ==
  from # "none" /\ to # "none" =>
     from \in ForeshadowStatus /\ to \in ForeshadowTransitions[from]

(***************************************************************************)
(* An operation carries the artifact it was drawn from: "none" when the    *)
(* field is empty, "derived" when the path lies under one of the derived   *)
(* workspace prefixes, "draft" otherwise.                                  *)
(***************************************************************************)
HasProvenance(op) == op.source = "draft" /\ ~op.derived

WellFormed(op) ==
  /\ HasProvenance(op)
  /\ op.target \in Ledger
  /\ op.operation \in LedgerOperations[op.target]
  /\ op.target = "foreshadowing" => TransitionAllowed(op.from, op.to)

(***************************************************************************)
(* A gate record, its evidence abstracted to what the validator tells      *)
(* apart: "blank", "auto" (starts with auto_), "short" (under 20           *)
(* characters) and "long".                                                 *)
(***************************************************************************)
GateAccepts(gate, dryRun) ==
  /\ gate.synthetic => dryRun
  /\ gate.decision = "approved" =>
       /\ gate.evidence \notin {"blank", "auto"}
       /\ gate.level = "strict" => gate.evidence # "short"
  /\ gate.decision = "rejected" => gate.evidence # "blank"
=============================================================================
