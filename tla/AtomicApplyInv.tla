---------------------------- MODULE AtomicApplyInv ----------------------------
(***************************************************************************)
(* Why orderly use of AtomicApplyManager is all-or-nothing: what a call    *)
(* knows, at each of its stages, about its snapshot, the store and what it *)
(* still has to write.  The conjunction is inductive under OrderlySpec.    *)
(***************************************************************************)
EXTENDS AtomicApply, FiniteSets

Saved(d) == {l \in Ledger : snapFile[d][l] # "absent"}

(* A ledger that does not exist holds nothing, on disk and in snapshots. *)
FilesHoldEntries ==
  \A o \in Op :
    /\ Target(o) \notin Present => count[o] = 0
    /\ \A d \in Diff : Target(o) \notin Saved(d) => snapCount[d][o] = 0

(* Ledgers are never deleted: every snapshot's ledgers are still visible. *)
NoStaleCopy == \A d \in Diff : Saved(d) \subseteq Visible.files

(* Stages in which the call's snapshot of the ledgers is the one in use. *)
Snapped == {"snapshot_canon", "writing", "appending", "saving",
            "restoring", "restoring_canon"}

SnapshotIsExact ==
  \A c \in Caller :
    /\ pc[c] \in Snapped => pre[c] = Saved(diff[c])
    /\ pc[c] \in {"snapshot_canon", "restoring_canon"} =>
         file = snapFile[diff[c]] /\ count = snapCount[diff[c]]

(* From Admit to the commit point the call's diff is one that may be applied. *)
Admissible(d) == d \notin applied \/ ~Recognised(d)

NotYetApplied ==
  \A c \in Caller : pc[c] \in Snapped \cup {"snapshot"} => Admissible(diff[c])

(* A call about to save its manager's hashes has put its own among them. *)
SavingIsConsumed ==
  \A c \in Caller : pc[c] = "saving" => diff[c] \in consumed[mgr[c]]

(* An apply record names a diff of its arc that is applied or about to be. *)
RecordIsBacked ==
  \A a \in Arc : record[a] # NoDiff =>
    /\ DiffInfo[record[a]].arc = a
    /\ \/ record[a] \in applied
       \/ \E c \in Caller : pc[c] = "saving" /\ diff[c] = record[a]

Done(c, items) == items \ todo[c]

(* The store is the snapshot plus exactly what todo no longer lists. *)
Progress ==
  \A c \in Caller : pc[c] \in {"writing", "appending", "saving"} =>
    LET d == diff[c]
        written == Done(c, OpsOf(d))
                     \cup (IF pc[c] = "appending" THEN {bufOp[c]} ELSE {})
    IN /\ \A o \in Op :
            count[o] = snapCount[d][o] + (IF o \in Done(c, OpsOf(d)) THEN 1 ELSE 0)
       /\ \A ch \in Chapter :
            manuscript[ch] = IF ch \in Done(c, DraftsOf(d)) THEN d
                             ELSE snapManuscript[d][ch]
       /\ \A k \in Character :
            cards[k] = IF k \in Done(c, CardsOf(d)) THEN d ELSE snapCards[d][k]
       /\ Present = Saved(d) \cup {Target(o) : o \in written}
       /\ \A l \in Saved(d) : file[l] = snapFile[d][l]

(* What a call has read of a ledger is what the ledger still holds. *)
BufferIsFresh ==
  \A c \in Caller : pc[c] = "appending" =>
    LET l == Target(bufOp[c]) IN
    /\ bufFile[c] = file[l]
    /\ \A o \in Op : Target(o) = l => bufCount[c][o] = count[o]

(* How often each operation is in the store that a reader may rely on. *)
CountsByDiff ==
  /\ \A o \in Op : Visible.count[o] > 0 <=> OpInfo[o].diff \in applied
  /\ \A o \in Op : Recognised(OpInfo[o].diff) => Visible.count[o] <= 1
  /\ \A o1, o2 \in Op :
       OpInfo[o1].diff = OpInfo[o2].diff => Visible.count[o1] = Visible.count[o2]

(* That store is made of the applied diffs alone. *)
MadeOfApplied ==
  /\ CountsByDiff
  /\ \A o \in Op : OpInfo[o].diff \in applied => Target(o) \in Visible.files
  /\ \A ch \in Chapter : Visible.manuscript[ch] \in applied \cup {NoDiff}
  /\ \A k \in Character : Visible.cards[k] \in applied \cup {NoDiff}
  /\ \A d \in applied : /\ \A ch \in DraftsOf(d) : Visible.manuscript[ch] # NoDiff
                        /\ \A k \in CardsOf(d) : Visible.cards[k] # NoDiff

OrderlyInv ==
  /\ Orderly
  /\ applied \ forgotten \subseteq consumedFile
  /\ forgotten \subseteq applied
  /\ FilesHoldEntries
  /\ NoStaleCopy
  /\ SnapshotIsExact
  /\ NotYetApplied
  /\ Progress
  /\ BufferIsFresh
  /\ MadeOfApplied

(****************************************************************************)
(* Why event ids stay distinct.  A timeline that has an "events" list keeps *)
(* it, so prevalidation sees every applied event, and what it has admitted  *)
(* stays apart from all that is applied up to the commit point.             *)
(****************************************************************************)
TimelineKeepsShape ==
  "timeline" \in Seeded =>
    /\ file["timeline"] = "events"
    /\ \A d \in Diff : snapFile[d]["timeline"] \in {"absent", "events"}
    /\ \A c \in Caller :
         /\ pc[c] \in Snapped => "timeline" \in pre[c]
         /\ pc[c] = "appending" /\ Target(bufOp[c]) = "timeline" => bufFile[c] = "events"

EventsApart(D) ==
  \A o1, o2 \in Op : OpInfo[o1].diff \in D /\ OpInfo[o2].diff \in D => ~Clash(o1, o2)

AdmittedApart ==
  "timeline" \in Seeded =>
    /\ EventsApart(applied)
    /\ \A c \in Caller : pc[c] \in Snapped \cup {"snapshot"} =>
         EventsApart(applied \cup {diff[c]})

-----------------------------------------------------------------------------
(****************************************************************************)
(* How many steps a call has left at most: two for each thing its diff has  *)
(* still to write -- a ledger is read and written back -- and those of the  *)
(* stages before and after.                                                 *)
(****************************************************************************)
Work(d) == DraftsOf(d) \cup OpsOf(d) \cup CardsOf(d)

ASSUME FiniteAssumption == \A d \in Diff : IsFiniteSet(Work(d))

(* The steps from a stage to the end, what the diff has to write apart. *)
ToGo(stage) ==
  CASE stage = "locking"         -> 8
    [] stage = "checking"        -> 7
    [] stage = "snapshot"        -> 6
    [] stage = "snapshot_canon"  -> 5
    [] stage = "writing"         -> 4
    [] stage = "appending"       -> 3
    [] stage = "saving"          -> 3
    [] stage = "restoring"       -> 2
    [] stage = "restoring_canon" -> 1
    [] stage = "emitting"        -> 1
    [] stage = "idle"            -> 0

Before == {"locking", "checking", "snapshot", "snapshot_canon"}

StepsLeft(c) ==
  ToGo(pc[c]) + 2 * Cardinality(IF pc[c] \in Before THEN Work(diff[c]) ELSE todo[c])

(* Whatever the call does, fails at or restores brings it nearer to its end, and nothing   *)
(* that others do, or that happens to them, takes it back (what CallsReturn rests on).     *)
CallsShorten ==
  [][\A c \in Caller : /\ Step(c) => StepsLeft(c)' < StepsLeft(c)
                       /\ Busy(c) => StepsLeft(c)' <= StepsLeft(c)]_vars
=============================================================================
