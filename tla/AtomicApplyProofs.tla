-------------------------- MODULE AtomicApplyProofs --------------------------
(***************************************************************************)
(* Theorems about AtomicApply, for every set of callers, managers, arcs    *)
(* and diffs: first of any use of it, then of orderly use, which           *)
(* implements AtomicStore -- OrderlyInv is inductive, saving the consumed  *)
(* hashes is a Commit and every other step leaves what a reader may rely   *)
(* on alone.                                                               *)
(***************************************************************************)
EXTENDS AtomicApplyInv, FiniteSetTheorems, TLAPS

USE DEF diskVars, snapVars, markVars, bufVars, fileVars, callVars, histVars

(* What DiffAssumption says of one diff. *)
LEMMA DiffTypes ==
  \A d \in Diff : /\ DiffInfo[d].arc \in Arc
                  /\ DraftsOf(d) \subseteq Chapter
                  /\ OpsOf(d) \subseteq Op
                  /\ CardsOf(d) \subseteq Character
  BY DiffAssumption DEF DraftsOf, OpsOf, CardsOf

(***************************************************************************)
(* Type correctness.  That the ledger a call appends to is a ledger at all *)
(* depends on prevalidation, so the types are proved together with Vetted  *)
(* and Working.                                                            *)
(***************************************************************************)
Base == TypeOK /\ Vetted /\ Working

LEMMA InitBase == Init => Base
  BY SeedAssumption DEF Init, Base, TypeOK, Vetted, Working, Critical, Shape, Stages

(* Steps that take, give back or time out on the lock, or only move on. *)
LEMMA LockStepsBase ==
  ASSUME Base, NEW c \in Caller,
         \/ \E m \in Manager, d \in Diff : Begin(c, m, d)
         \/ Acquire(c) \/ LockTimeout(c) \/ Refuse(c) \/ Admit(c)
         \/ SnapshotFails(c) \/ EmitCommit(c)
  PROVE  Base'
<1> USE DiffTypes DEF Base, TypeOK, Vetted, Working, Goto, Stages, Critical, Release, ArcOf
<1>1. CASE \E m \in Manager, d \in Diff : Begin(c, m, d)
  BY <1>1 DEF Begin
<1>2. CASE Acquire(c)
  BY <1>2 DEF Acquire
<1>3. CASE LockTimeout(c)
  BY <1>3 DEF LockTimeout
<1>4. CASE Refuse(c)
  BY <1>4 DEF Refuse
<1>5. CASE Admit(c)
  BY <1>5 DEF Admit, Prevalidated
<1>6. CASE SnapshotFails(c)
  BY <1>6 DEF SnapshotFails
<1>7. CASE EmitCommit(c)
  BY <1>7 DEF EmitCommit
<1>8. QED
  BY <1>1, <1>2, <1>3, <1>4, <1>5, <1>6, <1>7

(* Steps that copy the store to the snapshot or back. *)
LEMMA CopyStepsBase ==
  ASSUME Base, NEW c \in Caller,
         \/ SnapshotLedgers(c) \/ SnapshotCanon(c)
         \/ RestoreLedgers(c) \/ RestoreCanon(c) \/ RestoreFails(c)
         \/ WriteFails(c)
  PROVE  Base'
<1> USE DiffTypes DEF Base, TypeOK, Vetted, Working, Goto, Stages, Critical, Shape
<1>1. CASE SnapshotLedgers(c)
  <2>1. snapFile' \in [Diff -> [Ledger -> Shape]]
    BY <1>1 DEF SnapshotLedgers, Present
  <2>2. snapCount' \in [Diff -> [Op -> Nat]]
    BY <1>1 DEF SnapshotLedgers, Present
  <2>3. pre' \in [Caller -> SUBSET Ledger]
    BY <1>1 DEF SnapshotLedgers, Present
  <2>4. Vetted' /\ Working'
    BY <1>1 DEF SnapshotLedgers
  <2>5. QED
    BY <1>1, <2>1, <2>2, <2>3, <2>4 DEF SnapshotLedgers
<1>2. CASE SnapshotCanon(c)
  BY <1>2 DEF SnapshotCanon
<1>3. CASE RestoreLedgers(c)
  BY <1>3 DEF RestoreLedgers
<1>4. CASE RestoreCanon(c)
  BY <1>4 DEF RestoreCanon, Release, ArcOf
<1>5. CASE WriteFails(c)
  <2>1. record' \in [Arc -> Diff \cup {NoDiff}]
    BY <1>5 DEF WriteFails, ArcOf
  <2>2. QED
    BY <1>5, <2>1 DEF WriteFails, ClearBuffer
<1>6. CASE RestoreFails(c)
  BY <1>6 DEF RestoreFails, Release, ArcOf
<1>7. QED
  BY <1>1, <1>2, <1>3, <1>4, <1>5, <1>6

(* Steps that write the store or mark the diff consumed. *)
LEMMA WriteStepsBase ==
  ASSUME Base, OnlyWellFormedEntries, NEW c \in Caller,
         \/ CopyDraft(c) \/ ReadLedger(c) \/ AppendEntry(c) \/ WriteCard(c)
         \/ WriteRecord(c) \/ SaveConsumed(c) \/ SaveConsumedFails(c)
  PROVE  Base'
<1> USE DiffTypes DEF Base, TypeOK, Vetted, Working, Goto, Stages, Critical, Written
<1>1. CASE CopyDraft(c)
  BY <1>1 DEF CopyDraft
<1>2. CASE ReadLedger(c)
  <2>1. PICK o \in todo[c] \cap Op :
          ReadLedger(c)!3!(o)
    BY <1>2 DEF ReadLedger
  <2>2. o \in OpsOf(diff[c])
    BY <2>1, DisjointAssumption
  <2>3. Target(o) \in Ledger
    BY <1>2, <2>2 DEF ReadLedger, WellFormed, Target
  <2>4. TypeOK'
    BY <1>2, <2>1, <2>3 DEF ReadLedger, Shape
  <2>5. Vetted'
    BY <1>2 DEF ReadLedger
  <2>6. \A x \in Op : bufCount'[c][x] > 0 => count[x] > 0
    BY <1>2, <2>1 DEF ReadLedger
  <2>7. Working'
    <3>1. \A x \in Op : bufCount'[c][x] > 0 => WellFormed(OpInfo[x])
      BY <2>6 DEF OnlyWellFormedEntries
    <3>2. bufOp'[c] \in todo'[c] \cap Op
      BY <1>2, <2>1 DEF ReadLedger
    <3>3. /\ UNCHANGED <<todo, diff>> /\ pc' = [pc EXCEPT ![c] = "appending"]
          /\ \A x \in Caller : x # c => bufOp'[x] = bufOp[x] /\ bufCount'[x] = bufCount[x]
      BY <1>2, <2>1 DEF ReadLedger
    <3>4. pc[c] = "writing"
      BY <1>2 DEF ReadLedger
    <3> HIDE DEF Base
    <3>5. QED
      BY <3>1, <3>2, <3>3, <3>4 DEF Base
  <2>8. QED
    BY <2>4, <2>5, <2>7
<1>3. CASE AppendEntry(c)
  <2>1. bufOp[c] \in todo[c] \cap Op
    BY <1>3 DEF AppendEntry
  <2>2. count' \in [Op -> Nat]
    BY <1>3 DEF AppendEntry
  <2>3. file' \in [Ledger -> Shape]
    BY <1>3, <2>1 DEF AppendEntry
  <2>4. TypeOK'
    BY <1>3, <2>1, <2>2, <2>3 DEF AppendEntry, ClearBuffer, Shape
  <2>5. Vetted'
    BY <1>3 DEF AppendEntry
  <2>6. Working'
    BY <1>3, <2>1 DEF AppendEntry, ClearBuffer
  <2>7. QED
    BY <2>4, <2>5, <2>6
<1>4. CASE WriteCard(c)
  BY <1>4 DEF WriteCard
<1>5. CASE WriteRecord(c)
  BY <1>5 DEF WriteRecord, ArcOf
<1>6. CASE SaveConsumed(c)
  BY <1>6 DEF SaveConsumed
<1>7. CASE SaveConsumedFails(c)
  BY <1>7 DEF SaveConsumedFails, ArcOf
<1>8. QED
  BY <1>1, <1>2, <1>3, <1>4, <1>5, <1>6, <1>7

LEMMA ManagerStepsBase ==
  ASSUME Base, NEW m \in Manager, Crash(m) \/ Construct(m)
  PROVE  Base'
<1> USE DEF Base, TypeOK, Vetted, Working, Stages, Critical, Shape
<1>1. CASE Crash(m)
  BY <1>1 DEF Crash
<1>2. CASE Construct(m)
  BY <1>2 DEF Construct
<1>3. QED
  BY <1>1, <1>2

LEMMA StepsBase ==
  ASSUME Base, OnlyWellFormedEntries, [Next]_vars
  PROVE  Base'
<1>1. CASE \E c \in Caller : Step(c)
  BY <1>1, LockStepsBase, CopyStepsBase, WriteStepsBase DEF Step
<1>2. CASE \E c \in Caller, m \in Manager, d \in Diff : Begin(c, m, d)
  BY <1>2, LockStepsBase
<1>3. CASE \E m \in Manager : Crash(m) \/ Construct(m)
  BY <1>3, ManagerStepsBase
<1>4. CASE UNCHANGED vars
  BY <1>4 DEF vars, Base, TypeOK, Vetted, Working, Critical, Stages
<1>5. QED
  BY <1>1, <1>2, <1>3, <1>4 DEF Next

(***************************************************************************)
(* Only three steps change how often an operation occurs in a ledger or in *)
(* a snapshot.  An appended operation is one of the caller's diff, which   *)
(* prevalidation vetted; every other entry comes from the ledger, from a   *)
(* snapshot or from what was read before.                                  *)
(***************************************************************************)
LEMMA EntriesStep ==
  ASSUME Base, OnlyWellFormedEntries, [Next]_vars
  PROVE  OnlyWellFormedEntries'
<1> USE DEF OnlyWellFormedEntries
<1>1. CASE \E c \in Caller : SnapshotLedgers(c)
  BY <1>1 DEF SnapshotLedgers, Base, TypeOK
<1>2. CASE \E c \in Caller : AppendEntry(c)
  <2>1. PICK c \in Caller : AppendEntry(c)
    BY <1>2
  <2>2. bufOp[c] \in OpsOf(diff[c])
    BY <2>1, DisjointAssumption, DiffTypes DEF AppendEntry, Base, TypeOK, Working
  <2>3. WellFormed(OpInfo[bufOp[c]])
    BY <2>1, <2>2 DEF AppendEntry, Base, Vetted, Critical, Stages
  <2>4. \A x \in Op : bufCount[c][x] > 0 => WellFormed(OpInfo[x])
    BY DEF Base, Working
  <2>5. \A x \in Op : count'[x] > 0 => WellFormed(OpInfo[x])
    BY <2>1, <2>3, <2>4 DEF AppendEntry
  <2>6. QED
    BY <2>1, <2>5 DEF AppendEntry
<1>3. CASE \E c \in Caller : RestoreLedgers(c)
  BY <1>3 DEF RestoreLedgers, Base, TypeOK
<1>4. CASE UNCHANGED <<count, snapCount>>
  BY <1>4
<1>5. ASSUME NEW c \in Caller, Step(c)
      PROVE  \/ SnapshotLedgers(c) \/ AppendEntry(c) \/ RestoreLedgers(c)
             \/ UNCHANGED <<count, snapCount>>
  BY <1>5 DEF Step, Acquire, LockTimeout, Refuse, Admit, SnapshotCanon,
       SnapshotFails, CopyDraft, ReadLedger, WriteCard, WriteRecord,
       SaveConsumed, SaveConsumedFails, EmitCommit, WriteFails, RestoreCanon,
       RestoreFails
<1>6. QED
  BY <1>1, <1>2, <1>3, <1>4, <1>5 DEF Next, Begin, Crash, Construct, vars

(***************************************************************************)
(* The shape of the timeline is kept by every step: a file with an "events" *)
(* list is copied, read, written back and restored as such.                *)
(***************************************************************************)
LEMMA ShapeStep ==
  ASSUME TypeOK, TimelineKeepsShape, [Next]_vars
  PROVE  TimelineKeepsShape'
<1> SUFFICES ASSUME "timeline" \in Seeded
             PROVE  TimelineKeepsShape'
  BY DEF TimelineKeepsShape
<1> DEFINE t == "timeline"
<1>1. /\ t \in Ledger /\ file[t] = "events" /\ t \in Present
      /\ \A d \in Diff : snapFile[d][t] \in {"absent", "events"}
      /\ \A c \in Caller :
           /\ pc[c] \in Snapped => t \in pre[c]
           /\ pc[c] = "appending" /\ Target(bufOp[c]) = t => bufFile[c] = "events"
  BY DEF TimelineKeepsShape, Ledger, Present
<1> HIDE DEF t
<1> USE DEF TypeOK, Goto, Snapped
<1>2. ASSUME UNCHANGED <<file, snapFile>>,
             \A x \in Caller : /\ pc'[x] \in Snapped =>
                                    pc[x] \in Snapped /\ pre'[x] = pre[x]
                               /\ pc'[x] = "appending" =>
                                    pc[x] = "appending" /\ UNCHANGED <<bufOp[x], bufFile[x]>>
      PROVE  TimelineKeepsShape'
  BY <1>1, <1>2 DEF TimelineKeepsShape, t
<1>3. ASSUME NEW c \in Caller, NEW m \in Manager, NEW d \in Diff, Begin(c, m, d)
      PROVE  TimelineKeepsShape'
  BY <1>2, <1>3 DEF Begin
<1>4. ASSUME NEW c \in Caller,
             \/ Acquire(c) \/ LockTimeout(c) \/ Refuse(c) \/ Admit(c)
      PROVE  TimelineKeepsShape'
  BY <1>2, <1>4 DEF Acquire, LockTimeout, Refuse, Admit
<1>5. ASSUME NEW c \in Caller, SnapshotLedgers(c)
      PROVE  TimelineKeepsShape'
  <2>1. /\ file' = file /\ UNCHANGED <<bufOp, bufFile>>
        /\ snapFile' = [snapFile EXCEPT ![diff[c]] =
             [l \in Ledger |-> IF l \in Present THEN file[l] ELSE snapFile[diff[c]][l]]]
        /\ pre' = [pre EXCEPT ![c] = Present]
        /\ pc' = [pc EXCEPT ![c] = "snapshot_canon"]
    BY <1>5 DEF SnapshotLedgers
  <2>2. \A d \in Diff : snapFile'[d][t] \in {"absent", "events"}
    BY <1>1, <2>1
  <2>3. \A x \in Caller : /\ pc'[x] \in Snapped => t \in pre'[x]
                          /\ pc'[x] = "appending" /\ Target(bufOp[x]) = t
                               => bufFile[x] = "events"
    BY <1>1, <2>1
  <2>4. QED
    BY <1>1, <2>1, <2>2, <2>3 DEF TimelineKeepsShape, t
<1>6. ASSUME NEW c \in Caller,
             \/ SnapshotCanon(c) \/ SnapshotFails(c) \/ CopyDraft(c) \/ WriteCard(c)
             \/ WriteRecord(c) \/ SaveConsumed(c) \/ SaveConsumedFails(c)
      PROVE  TimelineKeepsShape'
  BY <1>2, <1>6 DEF SnapshotCanon, SnapshotFails, CopyDraft, WriteCard, WriteRecord,
     SaveConsumed, SaveConsumedFails
<1>7. ASSUME NEW c \in Caller,
             \/ EmitCommit(c) \/ WriteFails(c) \/ RestoreCanon(c) \/ RestoreFails(c)
      PROVE  TimelineKeepsShape'
  BY <1>2, <1>7 DEF EmitCommit, WriteFails, ClearBuffer, RestoreCanon, RestoreFails
<1>8. ASSUME NEW c \in Caller, ReadLedger(c)
      PROVE  TimelineKeepsShape'
  <2>1. PICK o \in todo[c] \cap Op : ReadLedger(c)!3!(o)
    BY <1>8 DEF ReadLedger
  <2> DEFINE shape == IF file[Target(o)] = "absent" THEN "entries" ELSE file[Target(o)]
  <2>2. /\ file' = [file EXCEPT ![Target(o)] = shape]
        /\ bufOp' = [bufOp EXCEPT ![c] = o] /\ bufFile' = [bufFile EXCEPT ![c] = shape]
    BY <2>1
  <2>3. UNCHANGED <<snapFile, pre>> /\ pc[c] = "writing"
        /\ pc' = [pc EXCEPT ![c] = "appending"]
    BY <1>8 DEF ReadLedger
  <2>4. file'[t] = "events"
    BY <1>1, <2>2
  <2>5. Target(o) = t => shape = "events"
    BY <1>1
  <2> HIDE DEF shape
  <2>6. \A x \in Caller : /\ pc'[x] \in Snapped => t \in pre[x]
                          /\ pc'[x] = "appending" /\ Target(bufOp'[x]) = t
                               => bufFile'[x] = "events"
    BY <1>1, <2>2, <2>3, <2>5
  <2>7. QED
    BY <1>1, <2>3, <2>4, <2>6 DEF TimelineKeepsShape, t
<1>9. ASSUME NEW c \in Caller, AppendEntry(c)
      PROVE  TimelineKeepsShape'
  <2>1. /\ file' = [file EXCEPT ![Target(bufOp[c])] = bufFile[c]]
        /\ UNCHANGED <<snapFile, pre>> /\ pc[c] = "appending"
        /\ pc' = [pc EXCEPT ![c] = "writing"]
        /\ \A x \in Caller : x # c => UNCHANGED <<bufOp[x], bufFile[x]>>
    BY <1>9 DEF AppendEntry, ClearBuffer
  <2>2. file'[t] = "events"
    BY <1>1, <2>1
  <2>3. \A x \in Caller : /\ pc'[x] \in Snapped => t \in pre[x]
                          /\ pc'[x] = "appending" /\ Target(bufOp'[x]) = t
                               => bufFile'[x] = "events"
    BY <1>1, <2>1
  <2>4. QED
    BY <1>1, <2>1, <2>2, <2>3 DEF TimelineKeepsShape, t
<1>10. ASSUME NEW c \in Caller, RestoreLedgers(c)
       PROVE  TimelineKeepsShape'
  <2>1. /\ file' = [l \in Ledger |->
                      IF l \in {k \in Ledger : snapFile[diff[c]][k] # "absent"}
                      THEN snapFile[diff[c]][l]
                      ELSE IF l \in pre[c] THEN file[l] ELSE "absent"]
        /\ pc[c] = "restoring" /\ pc' = [pc EXCEPT ![c] = "restoring_canon"]
        /\ UNCHANGED <<snapFile, pre, bufOp, bufFile>>
    BY <1>10 DEF RestoreLedgers
  <2>2. t \in pre[c] /\ snapFile[diff[c]][t] \in {"absent", "events"}
    BY <1>1, <2>1
  <2>3. file'[t] = "events"
    BY <1>1, <2>1, <2>2
  <2>4. \A x \in Caller : /\ pc'[x] \in Snapped => t \in pre[x]
                          /\ pc'[x] = "appending" => pc[x] = "appending"
    BY <1>1, <2>1
  <2>5. QED
    BY <1>1, <2>1, <2>3, <2>4 DEF TimelineKeepsShape, t
<1>11. ASSUME NEW m \in Manager, Crash(m)
       PROVE  TimelineKeepsShape'
  BY <1>2, <1>11 DEF Crash
<1>12. ASSUME NEW m \in Manager, Construct(m)
       PROVE  TimelineKeepsShape'
  BY <1>2, <1>12 DEF Construct
<1>13. CASE UNCHANGED vars
  BY <1>2, <1>13 DEF vars
<1>14. QED
  BY <1>3, <1>4, <1>5, <1>6, <1>7, <1>8, <1>9, <1>10, <1>11, <1>12, <1>13
     DEF Next, Step

Inv == Base /\ OnlyWellFormedEntries /\ TimelineKeepsShape

LEMMA InvInit == Init => Inv
<1>1. Init => TimelineKeepsShape
  BY DEF Init, TimelineKeepsShape, Ledger, Snapped
<1>2. QED
  BY <1>1, InitBase DEF Init, Inv, OnlyWellFormedEntries

LEMMA InvStep == Inv /\ [Next]_vars => Inv'
BY StepsBase, EntriesStep, ShapeStep DEF Inv, Base

LEMMA Invariant == Spec => []Inv
BY InvInit, InvStep, PTL DEF Spec

(* The variables keep their types under any interleaving and any crash. *)
THEOREM TypeCorrect == Spec => []TypeOK
<1>1. Inv => TypeOK
  BY DEF Inv, Base
<1>2. QED
  BY <1>1, Invariant, PTL

(* What prevalidation rejects never reaches a ledger or a snapshot. *)
THEOREM LedgersStayWellFormed == Spec => []OnlyWellFormedEntries
<1>1. Inv => OnlyWellFormedEntries
  BY DEF Inv
<1>2. QED
  BY <1>1, Invariant, PTL

(***************************************************************************)
(* The lock is held exactly inside the section, by the caller inside it.   *)
(***************************************************************************)
LEMMA LockStep ==
  ASSUME TypeOK, LockMatchesCritical, [Next]_vars
  PROVE  LockMatchesCritical'
<1> USE NullAssumption, DiffTypes
        DEF LockMatchesCritical, TypeOK, ArcOf, Goto, Critical, Stages
<1>1. ASSUME NEW c \in Caller, NEW m \in Manager, NEW d \in Diff, Begin(c, m, d)
      PROVE  LockMatchesCritical'
  BY <1>1 DEF Begin
<1>2. ASSUME NEW c \in Caller, Acquire(c)
      PROVE  LockMatchesCritical'
  BY <1>2 DEF Acquire
<1>3. ASSUME NEW c \in Caller, LockTimeout(c)
      PROVE  LockMatchesCritical'
  BY <1>3 DEF LockTimeout
<1>4. ASSUME NEW c \in Caller, UNCHANGED <<mgr, diff>>, pc[c] \in Critical,
             Goto(c, "idle"), Release(c)
      PROVE  LockMatchesCritical'
  BY <1>4 DEF Release
<1>5. ASSUME UNCHANGED <<mgr, diff, lock>>,
             \A x \in Caller : pc'[x] \in Critical <=> pc[x] \in Critical
      PROVE  LockMatchesCritical'
  BY <1>5
<1>6. ASSUME NEW c \in Caller,
             \/ Refuse(c) \/ SnapshotFails(c) \/ EmitCommit(c) \/ RestoreCanon(c)
             \/ RestoreFails(c)
      PROVE  LockMatchesCritical'
  BY <1>4, <1>6 DEF Refuse, SnapshotFails, EmitCommit, RestoreCanon,
       RestoreFails
<1>7. ASSUME NEW c \in Caller,
             \/ Admit(c) \/ SnapshotLedgers(c) \/ SnapshotCanon(c) \/ CopyDraft(c)
             \/ ReadLedger(c) \/ AppendEntry(c) \/ WriteCard(c) \/ WriteRecord(c)
             \/ SaveConsumed(c) \/ SaveConsumedFails(c) \/ WriteFails(c)
             \/ RestoreLedgers(c)
      PROVE  LockMatchesCritical'
  <2>1. CASE Admit(c) \/ SnapshotLedgers(c) \/ SnapshotCanon(c)
    BY <1>5, <2>1 DEF Admit, SnapshotLedgers, SnapshotCanon
  <2>2. CASE CopyDraft(c) \/ ReadLedger(c) \/ AppendEntry(c) \/ WriteCard(c)
    BY <1>5, <2>2 DEF CopyDraft, ReadLedger, AppendEntry, WriteCard
  <2>3. CASE WriteRecord(c) \/ SaveConsumed(c) \/ SaveConsumedFails(c)
    BY <1>5, <2>3 DEF WriteRecord, SaveConsumed, SaveConsumedFails
  <2>4. CASE WriteFails(c) \/ RestoreLedgers(c)
    BY <1>5, <2>4 DEF WriteFails, RestoreLedgers
  <2>5. QED
    BY <1>7, <2>1, <2>2, <2>3, <2>4
<1>8. ASSUME NEW m \in Manager, Crash(m)
      PROVE  LockMatchesCritical'
  BY <1>8 DEF Crash, Busy
<1>9. ASSUME NEW m \in Manager, Construct(m)
      PROVE  LockMatchesCritical'
  BY <1>9 DEF Construct
<1>10. CASE UNCHANGED vars
  BY <1>10 DEF vars
<1>11. QED
  BY <1>1, <1>2, <1>3, <1>6, <1>7, <1>8, <1>9, <1>10 DEF Next, Step

(* Two callers are never in the section of one manager and one arc. *)
THEOREM LockIsExact == Spec => []LockMatchesCritical
<1>1. Init => LockMatchesCritical
  BY NullAssumption DEF Init, LockMatchesCritical, Critical
<1>2. TypeOK /\ LockMatchesCritical /\ [Next]_vars => LockMatchesCritical'
  BY LockStep
<1>3. QED
  BY <1>1, <1>2, TypeCorrect, PTL DEF Spec

-----------------------------------------------------------------------------
(* What a reader relies on, by the stage of the one running call. *)
LEMMA Seen ==
  /\ Settled => Visible = OnDisk
  /\ \A c \in Caller :
       OneAtATime /\ pc[c] \in Changing => Visible = InSnapshot(diff[c])
<1>1. ASSUME NEW c \in Caller, OneAtATime, pc[c] \in Changing
      PROVE  Changer = c
  <2>1. Changer \in Caller /\ pc[Changer] \in Changing
    BY <1>1 DEF Changer
  <2>2. QED
    BY <1>1, <2>1 DEF OneAtATime, Busy, Changing
<1>2. QED
  BY <1>1 DEF Visible, Settled

(* The same of the state after a step. *)
LEMMA SeenNext ==
  /\ Settled' => Visible' = OnDisk'
  /\ \A c \in Caller :
       OneAtATime' /\ pc'[c] \in Changing => Visible' = InSnapshot(diff[c])'
<1>1. ASSUME NEW c \in Caller, OneAtATime', pc'[c] \in Changing
      PROVE  Changer' = c
  <2>1. Changer' \in Caller /\ pc'[Changer'] \in Changing
    BY <1>1 DEF Changer
  <2>2. QED
    BY <1>1, <2>1 DEF OneAtATime, Busy, Changing
<1>2. QED
  BY <1>1 DEF Visible, Settled

(***************************************************************************)
(* Steps outside the section, or at its two ends: nothing on disk moves    *)
(* and nobody is between its snapshot and its commit point.                *)
(***************************************************************************)
LEMMA QuietStep ==
  ASSUME Inv, OrderlyInv, Orderly', UNCHANGED <<diskVars, snapVars, histVars>>,
         \A x \in Caller : pc[x] \notin Changing,
         \A x \in Caller : pc'[x] \notin Snapped,
         applied \ forgotten \subseteq consumedFile',
         \A x \in Caller : pc'[x] = "snapshot" => Admissible(diff'[x])
  PROVE  OrderlyInv' /\ Visible' = Visible
<1>1. Settled /\ Settled'
  BY DEF Settled, Changing, Snapped
<1>2. Visible' = Visible
  BY <1>1, Seen, SeenNext DEF OnDisk, Present
<1>3. FilesHoldEntries' /\ NoStaleCopy' /\ MadeOfApplied'
  BY <1>2 DEF OrderlyInv, FilesHoldEntries, NoStaleCopy, MadeOfApplied, CountsByDiff,
     Recognised, Present, Saved
<1>4. SnapshotIsExact' /\ NotYetApplied' /\ Progress' /\ BufferIsFresh'
  BY DEF SnapshotIsExact, NotYetApplied, Admissible, Recognised, Progress, BufferIsFresh,
     Snapped
<1>5. QED
  BY <1>2, <1>3, <1>4 DEF OrderlyInv

(* A diff that is applied and can be recognised is refused: by its hash, or by an event of *)
(* its own, which the timeline's list has.                                                 *)
LEMMA AdmittedIsAdmissible ==
  ASSUME Inv, OrderlyInv, NEW c \in Caller, Admit(c)
  PROVE  Admissible(diff[c])
<1> SUFFICES ASSUME diff[c] \in applied, Recognised(diff[c])
             PROVE  FALSE
  BY DEF Admissible
<1>1. pc[c] = "checking" /\ diff[c] \notin consumed[mgr[c]] /\ FreshEvents(diff[c])
  BY DEF Admit, Prevalidated
<1>2. applied \ forgotten \subseteq consumed[mgr[c]]
  BY <1>1 DEF OrderlyInv, Orderly, FreshManager, Busy
<1>3. HasOwnEvent(diff[c])
  BY <1>1, <1>2 DEF Recognised
<1>4. PICK o \in OpsOf(diff[c]) : Target(o) = "timeline" /\ Event(o) # NoEvent
  BY <1>3 DEF HasOwnEvent
<1>5. Settled
  BY <1>1 DEF OrderlyInv, Orderly, OneAtATime, Busy, Settled, Changing
<1>6. o \in Op /\ count[o] > 0
  BY <1>4, <1>5, Seen DEF OpsOf, OrderlyInv, MadeOfApplied, CountsByDiff, OnDisk
<1>7. file["timeline"] = "events"
  BY <1>3 DEF HasOwnEvent, Inv, TimelineKeepsShape
<1>8. Event(o) \in ExistingEvents
  BY <1>4, <1>6, <1>7 DEF ExistingEvents
<1>9. QED
  BY <1>1, <1>4, <1>8 DEF FreshEvents

LEMMA QuietSteps ==
  ASSUME Inv, OrderlyInv, Orderly', NEW c \in Caller,
         \/ \E m \in Manager, d \in Diff : Begin(c, m, d)
         \/ Acquire(c) \/ LockTimeout(c) \/ Refuse(c) \/ Admit(c)
         \/ SnapshotFails(c) \/ EmitCommit(c)
  PROVE  OrderlyInv' /\ Visible' = Visible /\ UNCHANGED histVars
<1>1. pc[c] \in Stages /\ pc'[c] \in Stages /\ \A x \in Caller \ {c} : pc'[x] = pc[x]
  BY DEF Inv, Base, TypeOK, Stages, Goto, Begin, Acquire, LockTimeout, Refuse,
         Admit, SnapshotFails, EmitCommit
<1>2. \A x \in Caller \ {c} : pc[x] = "idle"
  BY <1>1 DEF OrderlyInv, Orderly, OneAtATime, Busy, Goto, Inv, Base, TypeOK,
         Begin, Acquire, LockTimeout, Refuse, Admit, SnapshotFails, EmitCommit
<1>3. /\ pc[c] \notin Changing
      /\ pc'[c] \in {"idle", "locking", "checking", "snapshot"}
      /\ pc'[c] = "snapshot" => Admit(c) /\ diff'[c] = diff[c]
      /\ UNCHANGED <<diskVars, snapVars, consumedFile, histVars>>
  BY DEF Changing, Goto, Inv, Base, TypeOK, OrderlyInv, Orderly, FreshManager, Busy,
         Begin, Acquire, LockTimeout, Refuse, Admit, SnapshotFails, EmitCommit
<1>4. \A x \in Caller : pc'[x] = "snapshot" => Admissible(diff'[x])
  BY <1>2, <1>3, <1>1, AdmittedIsAdmissible
<1>5. QED
  BY <1>1, <1>2, <1>3, <1>4, QuietStep DEF Snapped, Changing, OrderlyInv

LEMMA Alone ==
  ASSUME OrderlyInv, NEW c \in Caller, Busy(c)
  PROVE  \A x \in Caller \ {c} : pc[x] = "idle"
  BY DEF OrderlyInv, Orderly, OneAtATime, Busy

(* The ledgers are copied: the snapshot is now exactly what is on disk. *)
LEMMA SnapshotLedgersStep ==
  ASSUME Inv, OrderlyInv, Orderly', NEW c \in Caller, SnapshotLedgers(c)
  PROVE  OrderlyInv' /\ Visible' = Visible /\ UNCHANGED histVars
<1> DEFINE d == diff[c]
<1>1. d \in Diff /\ pc \in [Caller -> Stages] /\ pc[c] = "snapshot"
      /\ \A x \in Caller \ {c} : pc[x] = "idle"
  BY Alone DEF Inv, Base, TypeOK, SnapshotLedgers, Busy
<1>2. pc' = [pc EXCEPT ![c] = "snapshot_canon"] /\ diff' = diff
      /\ pre' = [pre EXCEPT ![c] = Present] /\ UNCHANGED histVars
      /\ UNCHANGED <<diskVars, snapManuscript, snapCards>>
  BY DEF SnapshotLedgers, Goto
<1>3. Visible = OnDisk /\ Visible' = OnDisk' /\ OnDisk' = OnDisk
  BY <1>1, <1>2, Seen, SeenNext DEF Settled, Changing, OnDisk, Present
<1>4. Visible' = Visible
  BY <1>3
<1>5. Saved(d) \subseteq Present
  BY <1>1, <1>3 DEF OrderlyInv, NoStaleCopy, OnDisk
<1>6. snapFile' = [snapFile EXCEPT ![d] = file]
  <2>1. \A l \in Ledger \ Present : snapFile[d][l] = file[l]
    BY <1>5 DEF Present, Saved
  <2>2. [l \in Ledger |-> IF l \in Present THEN file[l] ELSE snapFile[d][l]] = file
    BY <2>1 DEF Inv, Base, TypeOK
  <2>3. QED
    BY <1>1, <2>2 DEF SnapshotLedgers, Inv, Base, TypeOK
<1>7. snapCount' = [snapCount EXCEPT ![d] = count]
  <2>1. \A o \in Op : Target(o) \notin Present => snapCount[d][o] = count[o]
    BY <1>1, <1>5 DEF OrderlyInv, FilesHoldEntries
  <2>2. [o \in Op |-> IF Target(o) \in Present THEN count[o] ELSE snapCount[d][o]] = count
    BY <2>1 DEF Inv, Base, TypeOK
  <2>3. QED
    BY <1>1, <2>2 DEF SnapshotLedgers, Inv, Base, TypeOK
<1>8. Saved(d)' = Present /\ \A x \in Diff \ {d} : Saved(x)' = Saved(x)
  BY <1>1, <1>2, <1>6 DEF Saved, Present, Inv, Base, TypeOK
<1>9. FilesHoldEntries' /\ NoStaleCopy'
  <2>1. Present' = Present
    BY <1>2 DEF Present
  <2>2. FilesHoldEntries'
    BY <1>1, <1>2, <1>7, <1>8, <2>1 DEF FilesHoldEntries, OrderlyInv, Inv, Base, TypeOK
  <2>3. Visible'.files = Present /\ Visible.files = Present
    BY <1>3, <2>1 DEF OnDisk
  <2>4. \A x \in Diff : Saved(x)' \subseteq Present
    BY <1>2, <1>8, <2>3 DEF NoStaleCopy, OrderlyInv
  <2>5. NoStaleCopy'
    BY <2>3, <2>4 DEF NoStaleCopy
  <2>6. QED
    BY <2>2, <2>5
<1>10. SnapshotIsExact'
  BY <1>1, <1>2, <1>6, <1>7, <1>8 DEF SnapshotIsExact, Snapped, Inv, Base, TypeOK
<1>11. NotYetApplied' /\ Progress' /\ BufferIsFresh'
  BY <1>1, <1>2 DEF NotYetApplied, Admissible, Recognised, Progress, BufferIsFresh,
     Snapped, OrderlyInv
<1>12. /\ MadeOfApplied' /\ (applied \ forgotten \subseteq consumedFile)'
       /\ (forgotten \subseteq applied)'
  BY <1>2, <1>4 DEF MadeOfApplied, CountsByDiff, Recognised, OrderlyInv, SnapshotLedgers
<1>13. QED
  BY <1>2, <1>4, <1>9, <1>10, <1>11, <1>12 DEF OrderlyInv

(* The canon is copied too: from here on readers rely on the snapshot. *)
LEMMA SnapshotCanonStep ==
  ASSUME Inv, OrderlyInv, Orderly', NEW c \in Caller, SnapshotCanon(c)
  PROVE  OrderlyInv' /\ Visible' = Visible /\ UNCHANGED histVars
<1> DEFINE d == diff[c]
<1>1. d \in Diff /\ pc \in [Caller -> Stages] /\ pc[c] = "snapshot_canon"
      /\ \A x \in Caller \ {c} : pc[x] = "idle"
  BY Alone DEF Inv, Base, TypeOK, SnapshotCanon, Busy
<1>2. pc' = [pc EXCEPT ![c] = "writing"] /\ diff' = diff
      /\ UNCHANGED <<histVars, diskVars, snapFile, snapCount, pre>>
  BY DEF SnapshotCanon, Goto
<1>3. file = snapFile[d] /\ count = snapCount[d] /\ pre[c] = Saved(d)
  BY <1>1 DEF OrderlyInv, SnapshotIsExact, Snapped
<1>4. snapManuscript'[d] = manuscript /\ snapCards'[d] = cards
  BY <1>1 DEF SnapshotCanon, Inv, Base, TypeOK
<1>5. Saved(d) = Present
  BY <1>3 DEF Saved, Present
<1>6. Visible' = Visible
  <2>1. Visible = OnDisk
    BY <1>1, Seen DEF Settled, Changing
  <2>2. Visible' = InSnapshot(diff[c])'
    BY <1>1, <1>2, SeenNext DEF OrderlyInv, Orderly, Changing
  <2>3. InSnapshot(diff[c])' = OnDisk
    BY <1>2, <1>3, <1>4, <1>5 DEF InSnapshot, OnDisk, Saved
  <2>4. QED
    BY <2>1, <2>2, <2>3
<1>7. \A x \in Diff : Saved(x)' = Saved(x)
  BY <1>2 DEF Saved
<1>8. FilesHoldEntries' /\ NoStaleCopy' /\ MadeOfApplied'
  BY <1>2, <1>6, <1>7
     DEF FilesHoldEntries, NoStaleCopy, MadeOfApplied, CountsByDiff, Recognised,
         OrderlyInv, Present
<1>9. SnapshotIsExact' /\ NotYetApplied' /\ BufferIsFresh'
  BY <1>1, <1>2, <1>3, <1>7
     DEF SnapshotIsExact, NotYetApplied, Admissible, Recognised, BufferIsFresh, Snapped,
         OrderlyInv
<1>10. Progress'
  <2>1. Done(c, OpsOf(d))' = {} /\ Done(c, DraftsOf(d))' = {} /\ Done(c, CardsOf(d))' = {}
    BY <1>1, <1>2 DEF Done, SnapshotCanon, Inv, Base, TypeOK
  <2>2. \A o \in Op : count'[o] = snapCount'[d][o] + 0
    BY <1>1, <1>2, <1>3 DEF Inv, Base, TypeOK
  <2>3. Present' = Saved(d)' /\ \A l \in Saved(d)' : file'[l] = snapFile'[d][l]
    BY <1>1, <1>2, <1>3, <1>5, <1>7 DEF Present
  <2>4. QED
    BY <1>1, <1>2, <1>4, <2>1, <2>2, <2>3 DEF Progress
<1>11. QED
  BY <1>2, <1>6, <1>8, <1>9, <1>10 DEF OrderlyInv, SnapshotCanon

(***************************************************************************)
(* Steps between the snapshot and the commit point: the snapshot stays,    *)
(* and so does what readers rely on.  What is left to show of each such    *)
(* step is how far it brings the call.                                     *)
(***************************************************************************)
LEMMA WorkStep ==
  ASSUME Inv, OrderlyInv, Orderly', NEW c \in Caller,
         pc[c] \in Changing, pc'[c] \in Changing,
         \A x \in Caller \ {c} : pc'[x] = pc[x],
         UNCHANGED <<snapVars, diff, pre, applied>>,
         forgotten \subseteq forgotten', forgotten' \subseteq applied,
         applied \ forgotten' \subseteq consumedFile',
         \A o \in Op : Target(o) \notin Present' => count'[o] = 0,
         pc'[c] = "restoring_canon" =>
            file' = snapFile[diff[c]] /\ count' = snapCount[diff[c]],
         pc'[c] \in {"writing", "appending", "saving"} => Progress' /\ BufferIsFresh'
  PROVE  OrderlyInv' /\ Visible' = Visible
<1>1. /\ pc[c] # "idle" /\ pc[c] \in Snapped
      /\ pc'[c] \in {"writing", "appending", "saving", "restoring", "restoring_canon"}
  BY DEF Changing, Snapped
<1>2. \A x \in Caller \ {c} : pc[x] = "idle" /\ pc'[x] = "idle"
  BY <1>1, Alone DEF Busy
<1>3. Visible = InSnapshot(diff[c])
  BY Seen DEF OrderlyInv, Orderly
<1>4. Visible' = InSnapshot(diff[c])'
  BY SeenNext DEF Orderly
<1>5. Visible' = Visible
  BY <1>3, <1>4 DEF InSnapshot
<1>6. \A x \in Diff : Saved(x)' = Saved(x)
  BY DEF Saved
<1>7. FilesHoldEntries' /\ NoStaleCopy' /\ MadeOfApplied'
  <2>1. \A d : Recognised(d)' => Recognised(d)
    BY DEF Recognised
  <2>2. CountsByDiff'
    BY <1>5, <2>1 DEF CountsByDiff, MadeOfApplied, OrderlyInv
  <2>3. QED
    BY <1>5, <1>6, <2>2 DEF FilesHoldEntries, NoStaleCopy, MadeOfApplied, OrderlyInv
<1>8. diff[c] \in Diff
  BY DEF Inv, Base, TypeOK
<1>9. NotYetApplied' /\ SnapshotIsExact'
  <2>1. Admissible(diff[c])'
    BY <1>1 DEF OrderlyInv, NotYetApplied, Admissible, Recognised
  <2>2. QED
    BY <1>1, <1>2, <1>6, <1>8, <2>1 DEF SnapshotIsExact, NotYetApplied, Snapped, OrderlyInv
<1>10. Progress' /\ BufferIsFresh'
  <2>1. CASE pc'[c] \in {"writing", "appending", "saving"}
    BY <2>1
  <2>2. CASE pc'[c] \notin {"writing", "appending", "saving"}
    BY <1>2, <2>2 DEF Progress, BufferIsFresh
  <2>3. QED
    BY <2>1, <2>2
<1>11. QED
  BY <1>5, <1>7, <1>9, <1>10 DEF OrderlyInv

(* Progress, said of the one running call. *)
LEMMA ProgressOf ==
  ASSUME OrderlyInv, NEW c \in Caller, pc[c] \in {"writing", "appending", "saving"}
  PROVE  LET d == diff[c] IN
         /\ \A o \in Op : count[o] = snapCount[d][o]
                              + (IF o \in Done(c, OpsOf(d)) THEN 1 ELSE 0)
         /\ \A ch \in Chapter :
              manuscript[ch] = IF ch \in Done(c, DraftsOf(d)) THEN d
                               ELSE snapManuscript[d][ch]
         /\ \A k \in Character :
              cards[k] = IF k \in Done(c, CardsOf(d)) THEN d ELSE snapCards[d][k]
         /\ \A l \in Saved(d) : file[l] = snapFile[d][l]
         /\ pc[c] # "appending" =>
              Present = Saved(d) \cup {Target(o) : o \in Done(c, OpsOf(d))}
         /\ pc[c] = "appending" =>
              Present = Saved(d) \cup {Target(o) : o \in Done(c, OpsOf(d)) \cup {bufOp[c]}}
  BY DEF OrderlyInv, Progress

LEMMA CopyDraftStep ==
  ASSUME Inv, OrderlyInv, Orderly', NEW c \in Caller, CopyDraft(c)
  PROVE  OrderlyInv' /\ Visible' = Visible /\ UNCHANGED histVars
<1> DEFINE d == diff[c]
<1>1. /\ d \in Diff /\ pc[c] = "writing" /\ todo \in [Caller -> SUBSET (Chapter \cup Op \cup Character)]
      /\ manuscript \in [Chapter -> Diff \cup {NoDiff}]
      /\ \A x \in Caller \ {c} : pc[x] = "idle"
  BY Alone DEF Inv, Base, TypeOK, CopyDraft, Busy
<1>2. UNCHANGED <<file, count, cards, snapVars, pc, diff, pre, bufVars, histVars, consumedFile>>
  BY DEF CopyDraft
<1>3. PICK ch \in todo[c] \cap Chapter :
        /\ manuscript' = [manuscript EXCEPT ![ch] = d]
        /\ todo' = [todo EXCEPT ![c] = @ \ {ch}]
  BY DEF CopyDraft, Written
<1>4. ch \in DraftsOf(d)
  BY <1>1, <1>3, DisjointAssumption, DiffTypes DEF Inv, Base, Working
<1>5. /\ Done(c, OpsOf(d))' = Done(c, OpsOf(d))
      /\ Done(c, CardsOf(d))' = Done(c, CardsOf(d))
      /\ Done(c, DraftsOf(d))' = Done(c, DraftsOf(d)) \cup {ch}
  BY <1>1, <1>2, <1>3, <1>4, DisjointAssumption, DiffTypes DEF Done, DraftsOf, OpsOf, CardsOf
<1>6. Progress'
  <2>1. \A x \in Chapter : manuscript'[x] = IF x \in Done(c, DraftsOf(d))' THEN d
                                            ELSE snapManuscript[d][x]
    BY <1>1, <1>3, <1>5, ProgressOf
  <2>2. Present' = Present /\ Saved(d)' = Saved(d)
    BY <1>2 DEF Present, Saved
  <2>3. QED
    BY <1>1, <1>2, <1>5, <2>1, <2>2, ProgressOf DEF Progress
<1>7. BufferIsFresh'
  BY <1>1, <1>2 DEF BufferIsFresh
<1>8. \A o \in Op : Target(o) \notin Present' => count'[o] = 0
  BY <1>2 DEF OrderlyInv, FilesHoldEntries, Present
<1>9. QED
  BY <1>1, <1>2, <1>6, <1>7, <1>8, WorkStep DEF Changing, OrderlyInv

LEMMA WriteCardStep ==
  ASSUME Inv, OrderlyInv, Orderly', NEW c \in Caller, WriteCard(c)
  PROVE  OrderlyInv' /\ Visible' = Visible /\ UNCHANGED histVars
<1> DEFINE d == diff[c]
<1>1. /\ d \in Diff /\ pc[c] = "writing" /\ todo \in [Caller -> SUBSET (Chapter \cup Op \cup Character)]
      /\ cards \in [Character -> Diff \cup {NoDiff}]
      /\ \A x \in Caller \ {c} : pc[x] = "idle"
  BY Alone DEF Inv, Base, TypeOK, WriteCard, Busy
<1>2. UNCHANGED <<file, count, manuscript, snapVars, pc, diff, pre, bufVars, histVars, consumedFile>>
  BY DEF WriteCard
<1>3. PICK k \in todo[c] : /\ k \in Character
                           /\ cards' = [cards EXCEPT ![k] = d]
                           /\ todo' = [todo EXCEPT ![c] = @ \ {k}]
  BY DEF WriteCard, Written
<1>4. k \in CardsOf(d)
  BY <1>1, <1>3, DisjointAssumption, DiffTypes DEF Inv, Base, Working
<1>5. /\ Done(c, OpsOf(d))' = Done(c, OpsOf(d))
      /\ Done(c, DraftsOf(d))' = Done(c, DraftsOf(d))
      /\ Done(c, CardsOf(d))' = Done(c, CardsOf(d)) \cup {k}
  BY <1>1, <1>2, <1>3, <1>4, DisjointAssumption, DiffTypes DEF Done, DraftsOf, OpsOf, CardsOf
<1>6. Progress'
  <2>1. \A x \in Character : cards'[x] = IF x \in Done(c, CardsOf(d))' THEN d
                                         ELSE snapCards[d][x]
    BY <1>1, <1>3, <1>5, ProgressOf
  <2>2. Present' = Present /\ Saved(d)' = Saved(d)
    BY <1>2 DEF Present, Saved
  <2>3. QED
    BY <1>1, <1>2, <1>5, <2>1, <2>2, ProgressOf DEF Progress
<1>7. BufferIsFresh'
  BY <1>1, <1>2 DEF BufferIsFresh
<1>8. \A o \in Op : Target(o) \notin Present' => count'[o] = 0
  BY <1>2 DEF OrderlyInv, FilesHoldEntries, Present
<1>9. QED
  BY <1>1, <1>2, <1>6, <1>7, <1>8, WorkStep DEF Changing, OrderlyInv

LEMMA ReadLedgerStep ==
  ASSUME Inv, OrderlyInv, Orderly', NEW c \in Caller, ReadLedger(c)
  PROVE  OrderlyInv' /\ Visible' = Visible /\ UNCHANGED histVars
<1> DEFINE d == diff[c]
<1>1. /\ d \in Diff /\ pc \in [Caller -> Stages] /\ pc[c] = "writing"
      /\ todo \in [Caller -> SUBSET (Chapter \cup Op \cup Character)]
      /\ file \in [Ledger -> Shape] /\ bufOp \in [Caller -> Op \cup {NoOp}]
      /\ bufFile \in [Caller -> Shape] /\ bufCount \in [Caller -> [Op -> Nat]]
      /\ \A x \in Caller \ {c} : pc[x] = "idle"
  BY Alone DEF Inv, Base, TypeOK, ReadLedger, Busy
<1>2. /\ UNCHANGED <<count, manuscript, cards, snapVars, todo, diff, pre, histVars, consumedFile>>
      /\ pc' = [pc EXCEPT ![c] = "appending"]
  BY DEF ReadLedger, Goto
<1>3. PICK o \in todo[c] \cap Op : ReadLedger(c)!3!(o)
  BY DEF ReadLedger
<1> DEFINE l == Target(o)
<1>4. o \in OpsOf(d) /\ l \in Ledger
  <2>1. o \in OpsOf(d)
    BY <1>1, <1>3, DisjointAssumption, DiffTypes DEF Inv, Base, Working
  <2>2. QED
    BY <1>1, <2>1 DEF Inv, Base, Vetted, Critical, Stages, WellFormed, Target
<1>5. /\ bufOp'[c] = o /\ bufFile'[c] = file'[l] /\ file'[l] # "absent"
      /\ \A x \in Op : Target(x) = l => bufCount'[c][x] = count[x]
      /\ \A x \in Ledger : file[x] # "absent" => file'[x] = file[x]
      /\ \A x \in Ledger \ {l} : file'[x] = file[x]
  BY <1>1, <1>3, <1>4
<1>6. Present' = Present \cup {l}
  BY <1>4, <1>5 DEF Present
<1>7. Progress'
  <2>1. /\ Done(c, OpsOf(d))' = Done(c, OpsOf(d))
        /\ Done(c, DraftsOf(d))' = Done(c, DraftsOf(d))
        /\ Done(c, CardsOf(d))' = Done(c, CardsOf(d))
        /\ Saved(d)' = Saved(d)
    BY <1>2 DEF Done, DraftsOf, OpsOf, CardsOf, Saved
  <2>2. \A x \in Saved(d) : file'[x] = snapFile[d][x]
    BY <1>1, <1>5, ProgressOf DEF Saved
  <2>3. Present' = Saved(d) \cup {Target(x) : x \in Done(c, OpsOf(d)) \cup {o}}
    <3>1. Present = Saved(d) \cup {Target(x) : x \in Done(c, OpsOf(d))}
      BY <1>1, ProgressOf
    <3>2. QED
      BY <1>6, <3>1
  <2>4. QED
    BY <1>1, <1>2, <1>5, <2>1, <2>2, <2>3, ProgressOf DEF Progress
<1>8. BufferIsFresh'
  BY <1>1, <1>2, <1>5 DEF BufferIsFresh
<1>9. \A x \in Op : Target(x) \notin Present' => count'[x] = 0
  BY <1>2, <1>6 DEF OrderlyInv, FilesHoldEntries
<1>10. QED
  BY <1>1, <1>2, <1>7, <1>8, <1>9, WorkStep DEF Changing, OrderlyInv

LEMMA AppendEntryStep ==
  ASSUME Inv, OrderlyInv, Orderly', NEW c \in Caller, AppendEntry(c)
  PROVE  OrderlyInv' /\ Visible' = Visible /\ UNCHANGED histVars
<1> DEFINE d == diff[c]
           o == bufOp[c]
           l == Target(o)
<1>1. /\ d \in Diff /\ pc \in [Caller -> Stages] /\ pc[c] = "appending"
      /\ todo \in [Caller -> SUBSET (Chapter \cup Op \cup Character)]
      /\ file \in [Ledger -> Shape] /\ count \in [Op -> Nat]
      /\ \A x \in Caller \ {c} : pc[x] = "idle"
  BY Alone DEF Inv, Base, TypeOK, AppendEntry, Busy
<1>2. /\ UNCHANGED <<manuscript, cards, snapVars, diff, pre, histVars, consumedFile>>
      /\ pc' = [pc EXCEPT ![c] = "writing"]
      /\ todo' = [todo EXCEPT ![c] = @ \ {o}]
  BY DEF AppendEntry, Goto, Written
<1>3. o \in todo[c] \cap Op /\ o \in OpsOf(d) /\ o \notin Done(c, OpsOf(d))
  BY <1>1, DisjointAssumption, DiffTypes DEF Inv, Base, Working, Done
<1>4. /\ file' = file
      /\ \A x \in Op : count'[x] = count[x] + (IF x = o THEN 1 ELSE 0)
  <2>1. bufFile[c] = file[l] /\ \A x \in Op : Target(x) = l => bufCount[c][x] = count[x]
    BY <1>1 DEF OrderlyInv, BufferIsFresh
  <2>2. QED
    BY <1>1, <2>1 DEF AppendEntry
<1>5. /\ Done(c, OpsOf(d))' = Done(c, OpsOf(d)) \cup {o}
      /\ Done(c, DraftsOf(d))' = Done(c, DraftsOf(d))
      /\ Done(c, CardsOf(d))' = Done(c, CardsOf(d))
      /\ Saved(d)' = Saved(d) /\ Present' = Present
  BY <1>1, <1>2, <1>3, <1>4, DisjointAssumption, DiffTypes
     DEF Done, DraftsOf, OpsOf, CardsOf, Saved, Present
<1>6. Progress'
  <2>1. \A x \in Op : count'[x] = snapCount[d][x]
                         + (IF x \in Done(c, OpsOf(d))' THEN 1 ELSE 0)
    <3>1. \A x \in Op : count[x] = snapCount[d][x]
                           + (IF x \in Done(c, OpsOf(d)) THEN 1 ELSE 0)
      BY <1>1, ProgressOf
    <3>2. \A x \in Op : snapCount[d][x] \in Nat
      BY <1>1 DEF Inv, Base, TypeOK
    <3>3. QED
      BY <1>3, <1>4, <1>5, <3>1, <3>2
  <2>2. QED
    BY <1>1, <1>2, <1>4, <1>5, <2>1, ProgressOf DEF Progress
<1>7. BufferIsFresh'
  BY <1>1, <1>2 DEF BufferIsFresh
<1>8. \A x \in Op : Target(x) \notin Present' => count'[x] = 0
  <2>1. l \in Present
    BY <1>1, ProgressOf
  <2>2. QED
    BY <1>1, <1>4, <1>5, <2>1 DEF OrderlyInv, FilesHoldEntries
<1>9. QED
  BY <1>1, <1>2, <1>6, <1>7, <1>8, WorkStep DEF Changing, OrderlyInv

LEMMA WriteRecordStep ==
  ASSUME Inv, OrderlyInv, Orderly', NEW c \in Caller, WriteRecord(c)
  PROVE  OrderlyInv' /\ Visible' = Visible /\ UNCHANGED histVars
<1>1. /\ pc \in [Caller -> Stages] /\ pc[c] = "writing"
      /\ \A x \in Caller \ {c} : pc[x] = "idle"
  BY Alone DEF Inv, Base, TypeOK, WriteRecord, Busy
<1>2. /\ UNCHANGED <<diskVars, snapVars, consumedFile, callVars, histVars>>
      /\ pc' = [pc EXCEPT ![c] = "saving"]
  BY DEF WriteRecord, Goto
<1>3. Progress'
  <2>1. /\ Done(c, OpsOf(diff[c]))' = Done(c, OpsOf(diff[c]))
        /\ Done(c, DraftsOf(diff[c]))' = Done(c, DraftsOf(diff[c]))
        /\ Done(c, CardsOf(diff[c]))' = Done(c, CardsOf(diff[c]))
        /\ Saved(diff[c])' = Saved(diff[c]) /\ Present' = Present
    BY <1>2 DEF Done, DraftsOf, OpsOf, CardsOf, Saved, Present
  <2>2. QED
    BY <1>1, <1>2, <2>1, ProgressOf DEF Progress
<1>4. BufferIsFresh'
  BY <1>1, <1>2 DEF BufferIsFresh
<1>5. \A o \in Op : Target(o) \notin Present' => count'[o] = 0
  BY <1>2 DEF OrderlyInv, FilesHoldEntries, Present
<1>6. QED
  BY <1>1, <1>2, <1>3, <1>4, <1>5, WorkStep DEF Changing, OrderlyInv

(* A failed write: the store is left as it is for the handler to restore.  The hashes may  *)
(* be lost with it.                                                                        *)
LEMMA FailureSteps ==
  ASSUME Inv, OrderlyInv, Orderly', NEW c \in Caller, WriteFails(c) \/ SaveConsumedFails(c)
  PROVE  OrderlyInv' /\ Visible' = Visible /\ (UNCHANGED histVars \/ Promise!Forget)
<1>1. /\ pc \in [Caller -> Stages] /\ pc[c] \in {"writing", "appending", "saving"}
      /\ applied \ forgotten \subseteq consumedFile /\ forgotten \subseteq applied
  BY DEF Inv, Base, TypeOK, WriteFails, SaveConsumedFails, OrderlyInv
<1>2. /\ UNCHANGED <<diskVars, snapVars, diff, pre, applied>>
      /\ pc' = [pc EXCEPT ![c] = "restoring"]
      /\ \/ UNCHANGED <<consumedFile, forgotten>>
         \/ consumedFile' = {} /\ forgotten' = applied
  <2>1. CASE WriteFails(c)
    BY <2>1 DEF WriteFails, Goto
  <2>2. CASE SaveConsumedFails(c)
    BY <1>1, <2>2 DEF SaveConsumedFails, Goto
  <2>3. QED
    BY <2>1, <2>2
<1>3. \A o \in Op : Target(o) \notin Present' => count'[o] = 0
  BY <1>2 DEF OrderlyInv, FilesHoldEntries, Present
<1>4. /\ forgotten \subseteq forgotten' /\ forgotten' \subseteq applied
      /\ applied \ forgotten' \subseteq consumedFile'
  BY <1>1, <1>2
<1>5. pc[c] \in Changing /\ pc'[c] \in Changing /\ pc'[c] = "restoring"
      /\ \A x \in Caller \ {c} : pc'[x] = pc[x]
  BY <1>1, <1>2 DEF Changing
<1>6. OrderlyInv' /\ Visible' = Visible
  BY <1>2, <1>3, <1>4, <1>5, WorkStep
<1>7. UNCHANGED histVars \/ Promise!Forget
  BY <1>2, <1>6 DEF Promise!Forget
<1>8. QED
  BY <1>6, <1>7

(* The rollback leaves exactly the ledgers of the snapshot. *)
LEMMA RestoreLedgersStep ==
  ASSUME Inv, OrderlyInv, Orderly', NEW c \in Caller, RestoreLedgers(c)
  PROVE  OrderlyInv' /\ Visible' = Visible /\ UNCHANGED histVars
<1> DEFINE d == diff[c]
<1>1. /\ d \in Diff /\ pc \in [Caller -> Stages] /\ pc[c] = "restoring"
      /\ snapFile \in [Diff -> [Ledger -> Shape]] /\ snapCount \in [Diff -> [Op -> Nat]]
      /\ pre[c] = Saved(d)
  BY DEF Inv, Base, TypeOK, RestoreLedgers, OrderlyInv, SnapshotIsExact, Snapped
<1>2. /\ UNCHANGED <<snapVars, consumedFile, diff, pre, histVars>>
      /\ pc' = [pc EXCEPT ![c] = "restoring_canon"]
  BY DEF RestoreLedgers, Goto
<1>3. file' = snapFile[d]
  <2>1. file' = [l \in Ledger |-> IF l \in Saved(d) THEN snapFile[d][l] ELSE "absent"]
    BY <1>1 DEF RestoreLedgers, Saved
  <2>2. \A l \in Ledger \ Saved(d) : snapFile[d][l] = "absent"
    BY DEF Saved
  <2>3. QED
    BY <1>1, <2>1, <2>2
<1>4. count' = snapCount[d]
  <2>1. count' = [o \in Op |-> IF Target(o) \in Saved(d) THEN snapCount[d][o] ELSE 0]
    BY <1>1 DEF RestoreLedgers, Saved
  <2>2. \A o \in Op : Target(o) \notin Saved(d) => snapCount[d][o] = 0
    BY <1>1 DEF OrderlyInv, FilesHoldEntries
  <2>3. QED
    BY <1>1, <2>1, <2>2
<1>5. \A o \in Op : Target(o) \notin Present' => count'[o] = 0
  <2>1. Present' = Saved(d)
    BY <1>3 DEF Present, Saved
  <2>2. QED
    BY <1>1, <1>4, <2>1 DEF OrderlyInv, FilesHoldEntries
<1>6. QED
  BY <1>1, <1>2, <1>3, <1>4, <1>5, WorkStep DEF Changing, OrderlyInv

(* The end of the rollback: the store is again what readers relied on. *)
LEMMA RestoreCanonStep ==
  ASSUME Inv, OrderlyInv, Orderly', NEW c \in Caller, RestoreCanon(c)
  PROVE  OrderlyInv' /\ Visible' = Visible /\ UNCHANGED histVars
<1> DEFINE d == diff[c]
<1>1. /\ d \in Diff /\ pc \in [Caller -> Stages] /\ pc[c] = "restoring_canon"
      /\ file = snapFile[d] /\ count = snapCount[d]
      /\ \A x \in Caller \ {c} : pc[x] = "idle"
  BY Alone DEF Inv, Base, TypeOK, RestoreCanon, Busy, OrderlyInv, SnapshotIsExact, Snapped
<1>2. /\ UNCHANGED <<file, count, snapVars, diff, histVars, consumedFile>>
      /\ pc' = [pc EXCEPT ![c] = "idle"]
      /\ manuscript' = snapManuscript[d] /\ cards' = snapCards[d]
  BY DEF RestoreCanon, Goto
<1>3. Present = Saved(d) /\ Present' = Present /\ \A x \in Diff : Saved(x)' = Saved(x)
  BY <1>1, <1>2 DEF Present, Saved
<1>4. Visible' = Visible
  <2>1. Visible = InSnapshot(d)
    BY <1>1, Seen DEF OrderlyInv, Orderly, Changing
  <2>2. Visible' = OnDisk'
    BY <1>1, <1>2, SeenNext DEF Settled, Changing
  <2>3. InSnapshot(d) = OnDisk'
    BY <1>1, <1>2, <1>3 DEF InSnapshot, OnDisk, Saved
  <2>4. QED
    BY <2>1, <2>2, <2>3
<1>5. FilesHoldEntries' /\ NoStaleCopy' /\ MadeOfApplied'
  BY <1>2, <1>3, <1>4 DEF FilesHoldEntries, NoStaleCopy, MadeOfApplied, CountsByDiff,
     Recognised, OrderlyInv
<1>6. \A x \in Caller : pc'[x] = "idle"
  BY <1>1, <1>2
<1>7. SnapshotIsExact' /\ NotYetApplied' /\ Progress' /\ BufferIsFresh'
  BY <1>6 DEF SnapshotIsExact, NotYetApplied, Progress, BufferIsFresh, Snapped
<1>8. QED
  BY <1>2, <1>4, <1>5, <1>7 DEF OrderlyInv

LEMMA SavingStep ==
  ASSUME TypeOK, SavingIsConsumed, [Next]_vars
  PROVE  SavingIsConsumed'
<1> USE DEF TypeOK, SavingIsConsumed, Goto
<1>1. ASSUME NEW c \in Caller, NEW m \in Manager, NEW d \in Diff, Begin(c, m, d)
      PROVE  SavingIsConsumed'
  BY <1>1 DEF Begin
<1>2. ASSUME NEW c \in Caller, WriteRecord(c)
      PROVE  SavingIsConsumed'
  BY <1>2 DEF WriteRecord
<1>3. ASSUME NEW c \in Caller, UNCHANGED <<diff, mgr, consumed>>,
             \A x \in Caller : pc'[x] = "saving" => pc[x] = "saving"
      PROVE  SavingIsConsumed'
  BY <1>3
<1>4. ASSUME NEW c \in Caller, Step(c), ~WriteRecord(c)
      PROVE  SavingIsConsumed'
  <2>1. CASE Acquire(c) \/ LockTimeout(c) \/ Refuse(c) \/ Admit(c)
    BY <1>3, <2>1 DEF Acquire, LockTimeout, Refuse, Admit
  <2>2. CASE SnapshotLedgers(c) \/ SnapshotCanon(c) \/ SnapshotFails(c)
    BY <1>3, <2>2 DEF SnapshotLedgers, SnapshotCanon, SnapshotFails
  <2>3. CASE CopyDraft(c) \/ ReadLedger(c) \/ AppendEntry(c) \/ WriteCard(c)
    BY <1>3, <2>3 DEF CopyDraft, ReadLedger, AppendEntry, WriteCard
  <2>4. CASE SaveConsumed(c) \/ SaveConsumedFails(c)
    BY <2>4 DEF SaveConsumed, SaveConsumedFails
  <2>5. CASE EmitCommit(c) \/ WriteFails(c)
    BY <1>3, <2>5 DEF EmitCommit, WriteFails
  <2>6. CASE RestoreLedgers(c) \/ RestoreCanon(c) \/ RestoreFails(c)
    BY <1>3, <2>6 DEF RestoreLedgers, RestoreCanon, RestoreFails
  <2>7. QED
    BY <1>4, <2>1, <2>2, <2>3, <2>4, <2>5, <2>6 DEF Step
<1>5. ASSUME NEW m \in Manager, Crash(m)
      PROVE  SavingIsConsumed'
  BY <1>5 DEF Crash, Busy
<1>6. ASSUME NEW m \in Manager, Construct(m)
      PROVE  SavingIsConsumed'
  BY <1>6 DEF Construct, Busy
<1>7. CASE UNCHANGED vars
  BY <1>7 DEF vars
<1>8. QED
  BY <1>1, <1>2, <1>4, <1>5, <1>6, <1>7 DEF Next

(***************************************************************************)
(* The commit point.  The snapshot plus everything the diff brings is what *)
(* is on disk, and this is the step that shows it to readers.              *)
(***************************************************************************)
LEMMA SaveConsumedStep ==
  ASSUME Inv, OrderlyInv, SavingIsConsumed, Orderly', NEW c \in Caller, SaveConsumed(c)
  PROVE  OrderlyInv' /\ Promise!Commit(diff[c])
<1> DEFINE d == diff[c]
<1>1. /\ d \in Diff /\ pc \in [Caller -> Stages] /\ pc[c] = "saving" /\ todo[c] = {}
      /\ count \in [Op -> Nat] /\ snapCount[d] \in [Op -> Nat]
      /\ manuscript \in [Chapter -> Diff \cup {NoDiff}]
      /\ snapManuscript[d] \in [Chapter -> Diff \cup {NoDiff}]
      /\ cards \in [Character -> Diff \cup {NoDiff}]
      /\ snapCards[d] \in [Character -> Diff \cup {NoDiff}]
      /\ \A x \in Caller \ {c} : pc[x] = "idle"
  BY Alone DEF Inv, Base, TypeOK, Working, SaveConsumed, Busy
<1>2. /\ UNCHANGED <<diskVars, snapVars, diff, forgotten>>
      /\ applied' = applied \cup {d}
      /\ pc' = [pc EXCEPT ![c] = "emitting"]
      /\ consumedFile' = consumed[mgr[c]]
  BY DEF SaveConsumed, Goto
<1>3. Admissible(d)
  BY <1>1 DEF OrderlyInv, NotYetApplied, Snapped
<1>4. applied' \ forgotten' \subseteq consumedFile' /\ forgotten' \subseteq applied'
  BY <1>1, <1>2 DEF OrderlyInv, Orderly, FreshManager, Busy, SavingIsConsumed
<1>5. Visible = InSnapshot(d) /\ Visible' = OnDisk'
  BY <1>1, <1>2, Seen, SeenNext DEF OrderlyInv, Orderly, Changing, Settled
<1>6. /\ \A o \in Op : count[o] = IF o \in OpsOf(d) THEN snapCount[d][o] + 1
                                  ELSE snapCount[d][o]
      /\ \A ch \in Chapter : manuscript[ch] = IF ch \in DraftsOf(d) THEN d
                                              ELSE snapManuscript[d][ch]
      /\ \A k \in Character : cards[k] = IF k \in CardsOf(d) THEN d ELSE snapCards[d][k]
      /\ Present = Saved(d) \cup {Target(o) : o \in OpsOf(d)}
  <2>1. \A items : Done(c, items) = items
    BY <1>1 DEF Done
  <2>2. QED
    BY <1>1, <2>1, ProgressOf
<1>7. Visible' = Promise!Merge(Visible, d)
  <2>1. /\ count = [o \in Op |-> IF o \in OpsOf(d) THEN snapCount[d][o] + 1
                                 ELSE snapCount[d][o]]
        /\ manuscript = [ch \in Chapter |-> IF ch \in DraftsOf(d) THEN d
                                            ELSE snapManuscript[d][ch]]
        /\ cards = [k \in Character |-> IF k \in CardsOf(d) THEN d ELSE snapCards[d][k]]
    BY <1>1, <1>6
  <2>2. /\ Change[d].ops = OpsOf(d) /\ Change[d].drafts = DraftsOf(d)
        /\ Change[d].cards = CardsOf(d)
        /\ Change[d].files = {Target(o) : o \in OpsOf(d)}
    BY <1>1 DEF Change
  <2>3. /\ Visible.files = Saved(d) /\ Visible.count = snapCount[d]
        /\ Visible.manuscript = snapManuscript[d] /\ Visible.cards = snapCards[d]
    BY <1>5 DEF InSnapshot, Saved
  <2>4. Visible' = [files |-> Present, count |-> count,
                    manuscript |-> manuscript, cards |-> cards]
    BY <1>2, <1>5 DEF OnDisk, Present
  <2>5. /\ DOMAIN snapCount[d] = Op /\ DOMAIN snapManuscript[d] = Chapter
        /\ DOMAIN snapCards[d] = Character
    BY <1>1
  <2>6. QED
    BY <1>6, <2>1, <2>2, <2>3, <2>4, <2>5 DEF Promise!Merge
<1>8. Promise!Commit(d)
  <2>1. d \notin applied \/ d \in forgotten \ {x \in Diff : HasOwnEvent(x)}
    BY <1>3 DEF Admissible, Recognised
  <2>2. QED
    BY <1>2, <1>7, <2>1 DEF Promise!Commit
<1>9. FilesHoldEntries' /\ NoStaleCopy'
  <2>1. Present' = Present /\ \A x \in Diff : Saved(x)' = Saved(x)
    BY <1>2 DEF Present, Saved
  <2>2. Visible.files = Saved(d) /\ Visible'.files = Present
    BY <1>2, <1>5 DEF InSnapshot, OnDisk, Saved, Present
  <2>3. QED
    BY <1>2, <1>6, <2>1, <2>2 DEF FilesHoldEntries, NoStaleCopy, OrderlyInv
<1>10. MadeOfApplied'
  <2>1. /\ Visible.files = Saved(d) /\ Visible.count = snapCount[d]
        /\ Visible.manuscript = snapManuscript[d] /\ Visible.cards = snapCards[d]
    BY <1>5 DEF InSnapshot, Saved
  <2>2. /\ Visible'.files = Present /\ Visible'.count = count
        /\ Visible'.manuscript = manuscript /\ Visible'.cards = cards
    BY <1>2, <1>5 DEF OnDisk, Present
  <2>3. MadeOfApplied
    BY DEF OrderlyInv
  <2>4. \A o \in Op : o \in OpsOf(d) <=> OpInfo[o].diff = d
    BY DEF OpsOf
  <2>5. CountsByDiff'
    <3>1. /\ \A o \in Op : snapCount[d][o] > 0 <=> OpInfo[o].diff \in applied
          /\ \A o \in Op : Recognised(OpInfo[o].diff) => snapCount[d][o] <= 1
          /\ \A o1, o2 \in Op :
               OpInfo[o1].diff = OpInfo[o2].diff => snapCount[d][o1] = snapCount[d][o2]
      BY <2>1, <2>3 DEF MadeOfApplied, CountsByDiff
    <3>2. /\ \A o \in Op : snapCount[d][o] \in Nat
          /\ \A o \in Op : count[o] = IF OpInfo[o].diff = d THEN snapCount[d][o] + 1
                                       ELSE snapCount[d][o]
      BY <1>1, <1>6, <2>4
    <3>3. \A o \in Op : count[o] > 0 <=> OpInfo[o].diff \in applied'
      BY <1>2, <3>1, <3>2
    <3>4. \A o \in Op : Recognised(OpInfo[o].diff) => count[o] <= 1
      BY <1>3, <3>1, <3>2 DEF Admissible
    <3>5. \A o1, o2 \in Op : OpInfo[o1].diff = OpInfo[o2].diff => count[o1] = count[o2]
      BY <3>1, <3>2
    <3>6. \A x : Recognised(x)' = Recognised(x)
      BY <1>2 DEF Recognised
    <3>7. QED
      BY <2>2, <3>3, <3>4, <3>5, <3>6 DEF CountsByDiff
  <2>6. \A o \in Op : OpInfo[o].diff \in applied' => Target(o) \in Present
    BY <1>2, <1>6, <2>1, <2>3, <2>4 DEF MadeOfApplied
  <2>7. /\ \A ch \in Chapter : manuscript[ch] \in applied' \cup {NoDiff}
        /\ \A x \in applied', ch \in Chapter :
             ch \in DraftsOf(x) => manuscript[ch] # NoDiff
    BY <1>1, <1>2, <1>6, <2>1, <2>3, NullAssumption, DiffTypes
       DEF MadeOfApplied, Inv, Base, TypeOK
  <2>8. /\ \A k \in Character : cards[k] \in applied' \cup {NoDiff}
        /\ \A x \in applied', k \in Character : k \in CardsOf(x) => cards[k] # NoDiff
    BY <1>1, <1>2, <1>6, <2>1, <2>3, NullAssumption, DiffTypes
       DEF MadeOfApplied, Inv, Base, TypeOK
  <2>9. applied' \subseteq Diff
    BY <1>1, <1>2 DEF Inv, Base, TypeOK
  <2>10. QED
    BY <2>2, <2>5, <2>6, <2>7, <2>8, <2>9, DiffTypes
       DEF MadeOfApplied, DraftsOf, CardsOf, Target
<1>11. SnapshotIsExact' /\ NotYetApplied' /\ Progress' /\ BufferIsFresh'
  BY <1>1, <1>2 DEF SnapshotIsExact, NotYetApplied, Progress, BufferIsFresh, Snapped
<1>12. QED
  BY <1>4, <1>8, <1>9, <1>10, <1>11 DEF OrderlyInv

LEMMA ConstructStep ==
  ASSUME Inv, OrderlyInv, Orderly', NEW m \in Manager, Construct(m)
  PROVE  OrderlyInv' /\ Visible' = Visible /\ UNCHANGED histVars
<1>1. UNCHANGED <<fileVars, pc, callVars, histVars>>
  BY DEF Construct
<1>2. Visible' = Visible
  BY <1>1 DEF Visible, Settled, Changer, OnDisk, InSnapshot, Present
<1>3. OrderlyInv'
  BY <1>1, <1>2 DEF OrderlyInv, FilesHoldEntries, NoStaleCopy, SnapshotIsExact,
       NotYetApplied, Admissible, Recognised, Progress, BufferIsFresh, MadeOfApplied,
       CountsByDiff, Present, Saved, Done
<1>4. QED
  BY <1>1, <1>2, <1>3

LEMMA StutterStep ==
  ASSUME OrderlyInv, UNCHANGED vars
  PROVE  OrderlyInv' /\ Visible' = Visible /\ UNCHANGED histVars
<1>1. Visible' = Visible
  BY DEF vars, Visible, Settled, Changer, OnDisk, InSnapshot, Present
<1>2. OrderlyInv'
  BY <1>1 DEF vars, OrderlyInv, Orderly, OneAtATime, FreshManager, Busy,
       FilesHoldEntries, NoStaleCopy, SnapshotIsExact, NotYetApplied, Admissible,
       Recognised, Progress, BufferIsFresh, MadeOfApplied, CountsByDiff, Present, Saved, Done
<1>3. QED
  BY <1>1, <1>2 DEF vars

LEMMA InitOrderly ==
  ASSUME Init
  PROVE  OrderlyInv /\ SavingIsConsumed /\ Promise!Init
<1>1. Settled /\ Visible = OnDisk
  BY Seen DEF Init, Settled, Changing
<1>2. Present = Seeded
  BY SeedAssumption DEF Init, Present
<1>3. Visible = InitialStore
  BY <1>1, <1>2 DEF OnDisk, InitialStore, Init
<1>4. Orderly
  BY DEF Init, Orderly, OneAtATime, FreshManager, Busy
<1>5. FilesHoldEntries /\ NoStaleCopy
  BY DEF Init, FilesHoldEntries, NoStaleCopy, Saved
<1>6. MadeOfApplied
  BY <1>3 DEF MadeOfApplied, CountsByDiff, InitialStore, Init
<1>7. SnapshotIsExact /\ NotYetApplied /\ Progress /\ BufferIsFresh /\ SavingIsConsumed
  BY DEF Init, SnapshotIsExact, NotYetApplied, Progress, BufferIsFresh, Snapped,
         SavingIsConsumed
<1>8. Promise!Init
  BY <1>3 DEF Promise!Init, Init
<1>9. QED
  BY <1>4, <1>5, <1>6, <1>7, <1>8 DEF OrderlyInv, Init

OrderlyNext == Next /\ Orderly' /\ RollbackSurvives

(* The steps orderly use leaves out: both would have to be the failing save of a call that *)
(* is then restoring.                                                                      *)
LEMMA LeftOut ==
  ASSUME TypeOK, RollbackSurvives
  PROVE  /\ \A m \in Manager : ~Crash(m)
         /\ \A c \in Caller : ~RestoreFails(c)
<1>1. faults \in Nat /\ pc \in [Caller -> Stages]
  BY DEF TypeOK
<1>2. ASSUME NEW m \in Manager, Crash(m)
      PROVE  FALSE
  <2>1. faults' = faults + 1 /\ \A x \in Caller : pc'[x] \in {"idle", pc[x]}
    BY <1>2 DEF Crash
  <2>2. QED
    BY <1>1, <2>1 DEF RollbackSurvives, SaveConsumedFails, Goto
<1>3. ASSUME NEW c \in Caller, RestoreFails(c)
      PROVE  FALSE
  <2>1. faults' = faults + 1 /\ \A x \in Caller : pc'[x] \in {"idle", pc[x]}
    BY <1>1, <1>3 DEF RestoreFails, Goto
  <2>2. QED
    BY <1>1, <2>1 DEF RollbackSurvives, SaveConsumedFails, Goto
<1>4. QED
  BY <1>2, <1>3

(* Every step of orderly use is a Commit, a Forget or invisible to readers. *)
LEMMA OrderlyStep ==
  ASSUME Inv, OrderlyInv, SavingIsConsumed, [OrderlyNext]_vars
  PROVE  OrderlyInv' /\ [Promise!Next]_<<Visible, applied, forgotten>>
<1> USE DEF OrderlyNext
<1>1. CASE UNCHANGED vars
  BY <1>1, StutterStep
<1>2. ASSUME OrderlyNext, NEW c \in Caller, NEW m \in Manager, NEW d \in Diff,
             Begin(c, m, d)
      PROVE  OrderlyInv' /\ [Promise!Next]_<<Visible, applied, forgotten>>
  BY <1>2, QuietSteps
<1>3. ASSUME OrderlyNext, NEW m \in Manager, Crash(m)
      PROVE  OrderlyInv' /\ [Promise!Next]_<<Visible, applied, forgotten>>
  BY <1>3, LeftOut DEF Inv, Base
<1>4. ASSUME OrderlyNext, NEW m \in Manager, Construct(m)
      PROVE  OrderlyInv' /\ [Promise!Next]_<<Visible, applied, forgotten>>
  BY <1>4, ConstructStep
<1>5. ASSUME OrderlyNext, NEW c \in Caller, SaveConsumed(c)
      PROVE  OrderlyInv' /\ [Promise!Next]_<<Visible, applied, forgotten>>
  <2>1. diff[c] \in Diff
    BY DEF Inv, Base, TypeOK
  <2>2. QED
    BY <1>5, <2>1, SaveConsumedStep DEF Promise!Next
<1>6. ASSUME OrderlyNext, NEW c \in Caller, RestoreFails(c)
      PROVE  OrderlyInv' /\ [Promise!Next]_<<Visible, applied, forgotten>>
  BY <1>6, LeftOut DEF Inv, Base
<1>7. ASSUME OrderlyNext, NEW c \in Caller, Step(c), ~SaveConsumed(c), ~RestoreFails(c)
      PROVE  OrderlyInv' /\ [Promise!Next]_<<Visible, applied, forgotten>>
  BY <1>7, QuietSteps, SnapshotLedgersStep, SnapshotCanonStep, CopyDraftStep,
     ReadLedgerStep, AppendEntryStep, WriteCardStep, WriteRecordStep, FailureSteps,
     RestoreLedgersStep, RestoreCanonStep DEF Step, Promise!Next
<1>8. QED
  BY <1>1, <1>2, <1>3, <1>4, <1>5, <1>6, <1>7 DEF Next

LEMMA OrderlyInvariant == OrderlySpec => [](Inv /\ OrderlyInv /\ SavingIsConsumed)
<1>1. Init => Inv /\ OrderlyInv /\ SavingIsConsumed
  BY InvInit, InitOrderly
<1>2. Inv /\ OrderlyInv /\ SavingIsConsumed /\ [OrderlyNext]_vars
        => (Inv /\ OrderlyInv /\ SavingIsConsumed)'
  <2>1. [OrderlyNext]_vars => [Next]_vars
    BY DEF OrderlyNext
  <2>2. QED
    BY <2>1, InvStep, SavingStep, OrderlyStep DEF Inv, Base
<1>3. OrderlySpec => Init /\ [][OrderlyNext]_vars
  BY DEF OrderlySpec, OrderlyNext
<1>4. QED
  BY <1>1, <1>2, <1>3, PTL

(***************************************************************************)
(* Used by one caller at a time, with a manager that knows the hashes on   *)
(* disk and a process that survives the call, AtomicApplyManager changes   *)
(* the facts only by whole diffs, each at most once while its hash or an   *)
(* event of its own tells it -- whichever file operations but those of the *)
(* rollback fail, and for every set of diffs.                              *)
(***************************************************************************)
THEOREM OrderlyUseIsAtomic == OrderlySpec => Implements
<1>1. Init => Promise!Init
  BY InitOrderly
<1>2. Inv /\ OrderlyInv /\ SavingIsConsumed /\ [OrderlyNext]_vars
        => [Promise!Next]_<<Visible, applied, forgotten>>
  BY OrderlyStep
<1>3. OrderlySpec => Init /\ [][OrderlyNext]_vars
  BY DEF OrderlySpec, OrderlyNext
<1>4. QED
  BY <1>1, <1>2, <1>3, OrderlyInvariant, PTL DEF Implements, Promise!Spec

LEMMA RecordStep ==
  ASSUME TypeOK, RecordIsBacked, [OrderlyNext]_vars
  PROVE  RecordIsBacked'
<1>1. ASSUME NEW c \in Caller, NEW m \in Manager, NEW d \in Diff, Begin(c, m, d)
      PROVE  RecordIsBacked'
  BY <1>1 DEF Begin, TypeOK, RecordIsBacked, Goto
<1>2. ASSUME NEW c \in Caller, WriteRecord(c)
      PROVE  RecordIsBacked'
  <2>1. /\ record' = [record EXCEPT ![ArcOf(c)] = diff[c]]
        /\ pc' = [pc EXCEPT ![c] = "saving"] /\ UNCHANGED <<diff, applied>>
    BY <1>2 DEF WriteRecord, callVars, Goto
  <2>2. QED
    BY <2>1 DEF ArcOf, TypeOK, RecordIsBacked
<1>3. ASSUME NEW c \in Caller, SaveConsumed(c)
      PROVE  RecordIsBacked'
  <2>1. /\ UNCHANGED <<record, diff>> /\ applied' = applied \cup {diff[c]}
        /\ \A x \in Caller : x # c => pc'[x] = pc[x]
    BY <1>3 DEF SaveConsumed, callVars, TypeOK, Goto
  <2>2. ASSUME NEW a \in Arc, record[a] # NoDiff
        PROVE  /\ DiffInfo[record[a]].arc = a
               /\ \/ record[a] \in applied'
                  \/ \E x \in Caller : pc'[x] = "saving" /\ diff[x] = record[a]
    <3>1. CASE record[a] \in applied
      BY <2>1, <2>2, <3>1 DEF RecordIsBacked
    <3>2. ASSUME NEW x \in Caller, pc[x] = "saving", diff[x] = record[a]
          PROVE  record[a] \in applied' \/ pc'[x] = "saving"
      BY <2>1, <3>2
    <3>3. QED
      BY <2>2, <3>1, <3>2 DEF RecordIsBacked
  <2>3. QED
    BY <2>1, <2>2 DEF RecordIsBacked
<1>4. ASSUME NEW c \in Caller, SaveConsumedFails(c)
      PROVE  RecordIsBacked'
  <2>1. /\ record' = [record EXCEPT ![ArcOf(c)] = NoDiff] /\ UNCHANGED <<diff, applied>>
        /\ \A x \in Caller : x # c => pc'[x] = pc[x]
    BY <1>4 DEF SaveConsumedFails, callVars, TypeOK, Goto
  <2>2. \A a \in Arc : a # ArcOf(c) => record'[a] = record[a]
    BY <2>1 DEF TypeOK
  <2>3. record'[ArcOf(c)] = NoDiff \/ ArcOf(c) \notin Arc
    BY <2>1 DEF TypeOK
  <2>4. ASSUME NEW a \in Arc, a # ArcOf(c), record[a] # NoDiff
        PROVE  /\ DiffInfo[record[a]].arc = a
               /\ \/ record[a] \in applied
                  \/ \E x \in Caller : pc'[x] = "saving" /\ diff[x] = record[a]
    <3>1. ASSUME NEW x \in Caller, diff[x] = record[a]
          PROVE  x # c
      BY <2>4, <3>1 DEF RecordIsBacked, ArcOf
    <3>2. QED
      BY <2>1, <2>4, <3>1 DEF RecordIsBacked
  <2>5. QED
    BY <2>1, <2>2, <2>3, <2>4 DEF RecordIsBacked
<1>5. ASSUME UNCHANGED <<diff, applied>>,
             \A a \in Arc : record'[a] \in {record[a], NoDiff},
             \A x \in Caller : pc[x] = "saving" => pc'[x] = "saving"
      PROVE  RecordIsBacked'
  BY <1>5 DEF RecordIsBacked
<1>6. ASSUME NEW c \in Caller, Step(c), ~WriteRecord(c), ~SaveConsumed(c),
             ~SaveConsumedFails(c)
      PROVE  RecordIsBacked'
  <2> USE DEF TypeOK, Goto, callVars, fileVars, markVars
  <2>1. UNCHANGED <<diff, applied>> /\ \A a \in Arc : record'[a] \in {record[a], NoDiff}
    BY <1>6 DEF Step, Acquire, LockTimeout, Refuse, Admit, SnapshotLedgers,
       SnapshotCanon, SnapshotFails, CopyDraft, ReadLedger, AppendEntry, WriteCard,
       EmitCommit, WriteFails, RestoreLedgers, RestoreCanon, RestoreFails
  <2>2. \A x \in Caller : pc[x] = "saving" => pc'[x] = "saving"
    BY <1>6 DEF Step, Acquire, LockTimeout, Refuse, Admit, SnapshotLedgers,
       SnapshotCanon, SnapshotFails, CopyDraft, ReadLedger, AppendEntry, WriteCard,
       EmitCommit, WriteFails, RestoreLedgers, RestoreCanon, RestoreFails
  <2>3. QED
    BY <1>5, <2>1, <2>2
<1>7. ASSUME OrderlyNext, NEW m \in Manager, Crash(m)
      PROVE  RecordIsBacked'
  BY <1>7, LeftOut DEF OrderlyNext
<1>8. ASSUME NEW m \in Manager, Construct(m)
      PROVE  RecordIsBacked'
  BY <1>5, <1>8 DEF Construct, callVars, fileVars, markVars
<1>9. CASE UNCHANGED vars
  BY <1>5, <1>9 DEF vars, callVars, fileVars, markVars
<1>10. QED
  BY <1>1, <1>2, <1>3, <1>4, <1>6, <1>7, <1>8, <1>9 DEF OrderlyNext, Next

LEMMA RecordInvariant == OrderlySpec => [](Inv /\ OrderlyInv /\ RecordIsBacked)
<1>1. Init => RecordIsBacked
  BY DEF Init, RecordIsBacked
<1>2. Inv /\ RecordIsBacked /\ [OrderlyNext]_vars => RecordIsBacked'
  BY RecordStep DEF Inv, Base
<1>3. OrderlySpec => Init /\ [][OrderlyNext]_vars
  BY DEF OrderlySpec, OrderlyNext
<1>4. QED
  BY <1>1, <1>2, <1>3, OrderlyInvariant, PTL

(* A rolled back apply() leaves no trace, a successful one stays whole, and is there once  *)
(* unless its hash was lost and it brings no event that tells it.                          *)
THEOREM OrderlyAllOrNothing == OrderlySpec => [](AppliedPersists /\ FailedLeavesNoTrace)
<1>1. Inv /\ OrderlyInv /\ RecordIsBacked => AppliedPersists /\ FailedLeavesNoTrace
  <2>1. SUFFICES ASSUME Inv, OrderlyInv, RecordIsBacked, Settled
                 PROVE  /\ \A d \in applied : Whole(d)
                        /\ \A d \in Diff \ applied :
                             Untouched(d) /\ \A a \in Arc : record[a] # d
    BY DEF AppliedPersists, FailedLeavesNoTrace
  <2>2. Visible = OnDisk /\ MadeOfApplied /\ applied \subseteq Diff
    BY <2>1, Seen DEF OrderlyInv, Inv, Base, TypeOK
  <2>3. /\ \A o \in Op : count[o] > 0 <=> OpInfo[o].diff \in applied
        /\ \A o \in Op : Recognised(OpInfo[o].diff) => count[o] <= 1
        /\ \A o1, o2 \in Op : OpInfo[o1].diff = OpInfo[o2].diff => count[o1] = count[o2]
        /\ \A o \in Op : OpInfo[o].diff \in applied => Target(o) \in Present
        /\ \A ch \in Chapter : manuscript[ch] \in applied \cup {NoDiff}
        /\ \A k \in Character : cards[k] \in applied \cup {NoDiff}
        /\ \A d \in applied : /\ \A ch \in DraftsOf(d) : manuscript[ch] # NoDiff
                              /\ \A k \in CardsOf(d) : cards[k] # NoDiff
    BY <2>2 DEF MadeOfApplied, CountsByDiff, OnDisk
  <2>4. \A o \in Op : count[o] \in Nat
    BY <2>1 DEF Inv, Base, TypeOK
  <2>5. \A d \in applied : Whole(d)
    BY <2>2, <2>3, <2>4, DiffTypes DEF Whole, OpsOf, Present
  <2>6. \A d \in Diff \ applied : Untouched(d)
    BY <2>2, <2>3, <2>4, NullAssumption, DiffTypes DEF Untouched, OpsOf
  <2>7. \A d \in Diff \ applied : \A a \in Arc : record[a] # d
    <3>1. \A c \in Caller : pc[c] # "saving"
      BY <2>1 DEF Settled, Changing
    <3>2. QED
      BY <2>1, <3>1, NullAssumption DEF RecordIsBacked
  <2>8. QED
    BY <2>5, <2>6, <2>7
<1>2. QED
  BY <1>1, RecordInvariant, PTL

(* The second half of it, on its own. *)
THEOREM FailuresLeaveNoTrace == OrderlySpec => []FailedLeavesNoTrace
<1>1. OrderlySpec => [](AppliedPersists /\ FailedLeavesNoTrace)
  BY OrderlyAllOrNothing
<1>2. QED
  BY <1>1, PTL

(* The hash of an applied diff is on disk and known to every running call, unless a save   *)
(* of the hashes was torn since.                                                           *)
THEOREM AppliedIsRemembered == OrderlySpec => []AppliedIsConsumed
<1>1. OrderlyInv => AppliedIsConsumed
  BY DEF OrderlyInv, Orderly, FreshManager, AppliedIsConsumed
<1>2. QED
  BY <1>1, OrderlyInvariant, PTL

(****************************************************************************)
(* Event ids.  What is admitted is apart from what is applied because, with *)
(* one call at a time, prevalidation finds exactly the applied events in    *)
(* the ledger.                                                              *)
(****************************************************************************)
(* What prevalidation admits shares no event id with what is applied. *)
LEMMA AdmissionIsApart ==
  ASSUME Inv, OrderlyInv, AdmittedApart, "timeline" \in Seeded, NEW c \in Caller, Admit(c)
  PROVE  EventsApart(applied \cup {diff[c]})
<1>1. pc[c] = "checking" /\ FreshEvents(diff[c])
  BY DEF Admit, Prevalidated
<1>2. Settled
  BY <1>1 DEF OrderlyInv, Orderly, OneAtATime, Busy, Settled, Changing
<1>3. Visible = OnDisk
  BY <1>2, Seen
<1>4. \A o \in Op : OpInfo[o].diff \in applied => count[o] > 0
  BY <1>3 DEF OrderlyInv, MadeOfApplied, CountsByDiff, OnDisk
<1>5. file["timeline"] = "events" /\ EventsApart(applied)
  BY DEF Inv, TimelineKeepsShape, AdmittedApart
<1>6. ASSUME NEW o \in Op, NEW x \in Op, OpInfo[o].diff = diff[c],
             OpInfo[x].diff \in applied
      PROVE  ~Clash(o, x) /\ ~Clash(x, o)
  <2>1. o \in OpsOf(diff[c])
    BY <1>6 DEF OpsOf
  <2>2. Target(x) = "timeline" => Event(x) \in ExistingEvents
    BY <1>4, <1>5, <1>6 DEF ExistingEvents
  <2>3. Target(o) = "timeline" /\ Event(o) # NoEvent => Event(o) \notin ExistingEvents
    BY <1>1, <2>1 DEF FreshEvents
  <2>4. QED
    BY <2>2, <2>3 DEF Clash
<1>7. ASSUME NEW o \in Op, NEW x \in Op, OpInfo[o].diff = diff[c], OpInfo[x].diff = diff[c]
      PROVE  ~Clash(o, x)
  <2>1. o \in OpsOf(diff[c]) /\ x \in OpsOf(diff[c])
    BY <1>7 DEF OpsOf
  <2>2. QED
    BY <1>1, <2>1 DEF FreshEvents, Clash
<1>8. QED
  BY <1>5, <1>6, <1>7 DEF EventsApart

LEMMA ApartStep ==
  ASSUME Inv, OrderlyInv, AdmittedApart, [Next]_vars
  PROVE  AdmittedApart'
<1> SUFFICES ASSUME "timeline" \in Seeded
             PROVE  AdmittedApart'
  BY DEF AdmittedApart
<1> DEFINE Inside == Snapped \cup {"snapshot"}
<1>1. /\ EventsApart(applied)
      /\ \A c \in Caller : pc[c] \in Inside => EventsApart(applied \cup {diff[c]})
  BY DEF AdmittedApart
<1> USE DEF Inv, Base, TypeOK, Goto, Snapped
<1>2. ASSUME UNCHANGED applied,
             \A x \in Caller : pc'[x] \in Inside => pc[x] \in Inside /\ diff'[x] = diff[x]
      PROVE  AdmittedApart'
  BY <1>1, <1>2 DEF AdmittedApart, EventsApart, Clash, Target, Event
<1>3. ASSUME NEW c \in Caller, Admit(c)
      PROVE  AdmittedApart'
  <2>1. EventsApart(applied \cup {diff[c]})
    BY <1>3, AdmissionIsApart
  <2>2. UNCHANGED <<applied, diff>> /\ \A x \in Caller : x # c => pc'[x] = pc[x]
    BY <1>3 DEF Admit
  <2>3. QED
    BY <1>1, <2>1, <2>2 DEF AdmittedApart
<1>4. ASSUME NEW c \in Caller, SaveConsumed(c)
      PROVE  AdmittedApart'
  <2>1. pc[c] = "saving" /\ applied' = applied \cup {diff[c]} /\ UNCHANGED diff
        /\ pc' = [pc EXCEPT ![c] = "emitting"]
    BY <1>4 DEF SaveConsumed
  <2>2. EventsApart(applied')
    BY <1>1, <2>1
  <2>3. \A x \in Caller : x # c => pc[x] = "idle"
    BY <2>1 DEF OrderlyInv, Orderly, OneAtATime, Busy
  <2>4. \A x \in Caller : pc'[x] \notin Inside
    BY <2>1, <2>3
  <2>5. QED
    BY <2>2, <2>4 DEF AdmittedApart
<1>5. ASSUME NEW c \in Caller, NEW m \in Manager, NEW d \in Diff, Begin(c, m, d)
      PROVE  AdmittedApart'
  BY <1>2, <1>5 DEF Begin
<1>6. ASSUME NEW c \in Caller,
             \/ Acquire(c) \/ LockTimeout(c) \/ Refuse(c) \/ SnapshotLedgers(c)
             \/ SnapshotCanon(c) \/ SnapshotFails(c) \/ CopyDraft(c) \/ ReadLedger(c)
             \/ AppendEntry(c) \/ WriteCard(c) \/ WriteRecord(c) \/ SaveConsumedFails(c)
             \/ EmitCommit(c) \/ WriteFails(c) \/ RestoreLedgers(c) \/ RestoreCanon(c)
             \/ RestoreFails(c)
      PROVE  AdmittedApart'
  <2>1. CASE Acquire(c) \/ LockTimeout(c) \/ Refuse(c)
    BY <1>2, <2>1 DEF Acquire, LockTimeout, Refuse
  <2>2. CASE SnapshotLedgers(c) \/ SnapshotCanon(c) \/ SnapshotFails(c)
    BY <1>2, <2>2 DEF SnapshotLedgers, SnapshotCanon, SnapshotFails
  <2>3. CASE CopyDraft(c) \/ ReadLedger(c) \/ AppendEntry(c) \/ WriteCard(c)
    BY <1>2, <2>3 DEF CopyDraft, ReadLedger, AppendEntry, WriteCard
  <2>4. CASE WriteRecord(c) \/ SaveConsumedFails(c)
    BY <1>2, <2>4 DEF WriteRecord, SaveConsumedFails
  <2>5. CASE EmitCommit(c) \/ WriteFails(c)
    BY <1>2, <2>5 DEF EmitCommit, WriteFails
  <2>6. CASE RestoreLedgers(c) \/ RestoreCanon(c) \/ RestoreFails(c)
    BY <1>2, <2>6 DEF RestoreLedgers, RestoreCanon, RestoreFails
  <2>7. QED
    BY <1>6, <2>1, <2>2, <2>3, <2>4, <2>5, <2>6
<1>7. ASSUME NEW m \in Manager, Crash(m)
      PROVE  AdmittedApart'
  BY <1>2, <1>7 DEF Crash
<1>8. ASSUME NEW m \in Manager, Construct(m)
      PROVE  AdmittedApart'
  BY <1>2, <1>8 DEF Construct
<1>9. CASE UNCHANGED vars
  BY <1>2, <1>9 DEF vars
<1>10. QED
  BY <1>3, <1>4, <1>5, <1>6, <1>7, <1>8, <1>9 DEF Next, Step

(* A timeline that started with an "events" list never holds one event id twice, whichever *)
(* diffs are applied, or submitted again, in whichever order and whichever writes fail.    *)
THEOREM EventsStayDistinct == OrderlySpec => []NoDuplicateEvents
<1>1. Init => AdmittedApart
  BY DEF Init, AdmittedApart, EventsApart, Snapped
<1>2. Inv /\ OrderlyInv /\ AdmittedApart /\ [OrderlyNext]_vars => AdmittedApart'
  BY ApartStep DEF OrderlyNext
<1>3. Inv /\ OrderlyInv /\ AdmittedApart => NoDuplicateEvents
  <2> SUFFICES ASSUME Inv, OrderlyInv, AdmittedApart, Settled, "timeline" \in Seeded
               PROVE  /\ \A o1, o2 \in Op : count[o1] > 0 /\ count[o2] > 0 => ~Clash(o1, o2)
                      /\ \A o \in Op : Target(o) = "timeline" /\ Event(o) # NoEvent
                                        => count[o] <= 1
    BY DEF NoDuplicateEvents
  <2>1. /\ \A o \in Op : count[o] > 0 => OpInfo[o].diff \in applied
        /\ \A o \in Op : Recognised(OpInfo[o].diff) => count[o] <= 1
    BY Seen DEF OrderlyInv, MadeOfApplied, CountsByDiff, OnDisk
  <2>2. ASSUME NEW o1 \in Op, NEW o2 \in Op, count[o1] > 0, count[o2] > 0
        PROVE  ~Clash(o1, o2)
    BY <2>1, <2>2 DEF AdmittedApart, EventsApart
  <2>3. ASSUME NEW o \in Op, Target(o) = "timeline", Event(o) # NoEvent
        PROVE  count[o] <= 1
    <3>1. o \in OpsOf(OpInfo[o].diff)
      BY DEF OpsOf
    <3>2. QED
      BY <2>1, <2>3, <3>1 DEF Recognised, HasOwnEvent
  <2>4. QED
    BY <2>2, <2>3
<1>4. OrderlySpec => Init /\ [][OrderlyNext]_vars
  BY DEF OrderlySpec, OrderlyNext
<1>5. QED
  BY <1>1, <1>2, <1>3, <1>4, OrderlyInvariant, PTL

-----------------------------------------------------------------------------
(***************************************************************************)
(* Every call comes to an end: no step of anybody gives it more to do.     *)
(***************************************************************************)
LEMMA WhatIsLeft ==
  ASSUME Base, NEW c \in Caller
  PROVE  /\ IsFiniteSet(Work(diff[c])) /\ Cardinality(Work(diff[c])) \in Nat
         /\ IsFiniteSet(todo[c]) /\ Cardinality(todo[c]) \in Nat
         /\ pc[c] \notin {"writing", "appending"} => Cardinality(todo[c]) = 0
         /\ ToGo(pc[c]) \in Nat /\ StepsLeft(c) \in Nat
<1>1. diff[c] \in Diff /\ pc[c] \in Stages
  BY DEF Base, TypeOK
<1>2. todo[c] \subseteq Work(diff[c])
  BY DEF Base, Working, Work
<1>3. IsFiniteSet(Work(diff[c])) /\ Cardinality(Work(diff[c])) \in Nat
  BY <1>1, FiniteAssumption, FS_CardinalityType
<1>4. IsFiniteSet(todo[c]) /\ Cardinality(todo[c]) \in Nat
  BY <1>2, <1>3, FS_Subset, FS_CardinalityType
<1>5. pc[c] \notin {"writing", "appending"} => Cardinality(todo[c]) = 0
  BY FS_EmptySet DEF Base, Working
<1>6. ToGo(pc[c]) \in Nat
  BY <1>1 DEF ToGo, Stages
<1>7. StepsLeft(c) \in Nat
  BY <1>3, <1>4, <1>6 DEF StepsLeft
<1> QED
  BY <1>3, <1>4, <1>5, <1>6, <1>7

(* One thing less to write. *)
LEMMA OneLess ==
  ASSUME Base, NEW c \in Caller, NEW x \in todo[c]
  PROVE  Cardinality(todo[c] \ {x}) = Cardinality(todo[c]) - 1
BY WhatIsLeft, FS_RemoveElement

LEMMA StepShortens ==
  ASSUME Base, NEW c \in Caller, Step(c)
  PROVE  StepsLeft(c)' < StepsLeft(c) /\ StepsLeft(c)' <= StepsLeft(c)
<1> DEFINE W == Cardinality(Work(diff[c]))
           T == Cardinality(todo[c])
<1>1. W \in Nat /\ T \in Nat /\ (pc[c] \notin {"writing", "appending"} => T = 0)
  BY WhatIsLeft
<1>2. StepsLeft(c) = ToGo(pc[c]) + 2 * (IF pc[c] \in Before THEN W ELSE T)
  BY DEF StepsLeft
<1>3. diff'[c] = diff[c]
  BY DEF Step, Acquire, LockTimeout, Refuse, Admit, SnapshotLedgers, SnapshotCanon,
         SnapshotFails, CopyDraft, ReadLedger, AppendEntry, WriteCard, WriteRecord,
         SaveConsumed, SaveConsumedFails, EmitCommit, WriteFails, RestoreLedgers,
         RestoreCanon, RestoreFails
<1> DEFINE U == Cardinality(todo'[c])
<1>4. StepsLeft(c)' = ToGo(pc'[c]) + 2 * (IF pc'[c] \in Before THEN W ELSE U)
  BY <1>3 DEF StepsLeft, Work
<1>5. pc \in [Caller -> Stages] /\ todo \in [Caller -> SUBSET (Chapter \cup Op \cup Character)]
  BY DEF Base, TypeOK
<1> HIDE DEF W, T, U
<1>6. CASE Acquire(c) \/ Admit(c) \/ SnapshotLedgers(c)
  <2>1. \/ pc[c] = "locking" /\ pc'[c] = "checking"
        \/ pc[c] = "checking" /\ pc'[c] = "snapshot"
        \/ pc[c] = "snapshot" /\ pc'[c] = "snapshot_canon"
    BY <1>5, <1>6 DEF Acquire, Admit, SnapshotLedgers, Goto
  <2> QED
    BY <1>1, <1>2, <1>4, <2>1 DEF ToGo, Before
<1>7. CASE \/ LockTimeout(c) \/ Refuse(c) \/ SnapshotFails(c) \/ WriteRecord(c)
           \/ SaveConsumed(c) \/ SaveConsumedFails(c) \/ EmitCommit(c)
           \/ RestoreLedgers(c) \/ RestoreCanon(c) \/ RestoreFails(c)
  <2>1. \/ pc[c] \in Before /\ pc'[c] = "idle"
        \/ pc[c] = "writing" /\ todo[c] = {} /\ pc'[c] = "saving"
        \/ pc[c] = "saving" /\ pc'[c] \in {"emitting", "restoring"}
        \/ pc[c] = "emitting" /\ pc'[c] = "idle"
        \/ pc[c] = "restoring" /\ pc'[c] \in {"restoring_canon", "idle"}
        \/ pc[c] = "restoring_canon" /\ pc'[c] = "idle"
    BY <1>5, <1>7 DEF LockTimeout, Refuse, SnapshotFails, WriteRecord, SaveConsumed,
       SaveConsumedFails, EmitCommit, RestoreLedgers, RestoreCanon, RestoreFails, Goto, Before
  <2>2. todo' = todo
    BY <1>7 DEF LockTimeout, Refuse, SnapshotFails, WriteRecord, SaveConsumed,
       SaveConsumedFails, EmitCommit, RestoreLedgers, RestoreCanon, RestoreFails
  <2>3. todo[c] = {} => T = 0
    BY FS_EmptySet DEF T
  <2>4. U = 0
    BY <1>1, <2>1, <2>2, <2>3 DEF U, T, Before
  <2>5. StepsLeft(c)' = ToGo(pc'[c]) /\ pc'[c] \notin Before
    <3>1. pc'[c] \notin Before /\ ToGo(pc'[c]) \in Nat
      BY <2>1 DEF Before, ToGo
    <3> QED
      BY <1>4, <2>4, <3>1
  <2>6. StepsLeft(c) = ToGo(pc[c]) + 2 * (IF pc[c] \in Before THEN W ELSE 0)
    BY <1>1, <1>2, <2>1, <2>3 DEF Before
  <2>7. CASE pc[c] \in Before /\ pc'[c] = "idle"
    <3>1. ToGo(pc'[c]) = 0 /\ ToGo(pc[c]) \in {5, 6, 7, 8}
      BY <2>7 DEF Before, ToGo
    <3> QED
      BY <1>1, <2>5, <2>6, <2>7, <3>1
  <2>8. CASE pc[c] \notin Before
    <3>1. ToGo(pc'[c]) < ToGo(pc[c]) /\ ToGo(pc'[c]) \in Nat /\ ToGo(pc[c]) \in Nat
      BY <2>1, <2>8 DEF Before, ToGo
    <3> QED
      BY <2>5, <2>6, <2>8, <3>1
  <2> QED
    BY <2>1, <2>7, <2>8 DEF Before
<1>8. CASE SnapshotCanon(c)
  <2>1. pc[c] = "snapshot_canon" /\ pc'[c] = "writing" /\ todo'[c] = Work(diff[c])
    BY <1>5, <1>8 DEF SnapshotCanon, Goto, Work
  <2>2. U = W
    BY <2>1 DEF U, W
  <2> QED
    BY <1>1, <1>2, <1>4, <2>1, <2>2 DEF ToGo, Before
<1>9. CASE CopyDraft(c) \/ WriteCard(c)
  <2>1. pc[c] = "writing" /\ pc'[c] = "writing"
    BY <1>9 DEF CopyDraft, WriteCard
  <2>2. PICK x \in todo[c] : todo'[c] = todo[c] \ {x}
    BY <1>5, <1>9 DEF CopyDraft, WriteCard, Written
  <2>3. U = T - 1
    BY <2>2, OneLess DEF U, T
  <2> QED
    BY <1>1, <1>2, <1>4, <2>1, <2>3 DEF ToGo, Before
<1>10. CASE ReadLedger(c)
  <2>1. pc[c] = "writing" /\ pc'[c] = "appending" /\ todo' = todo
    BY <1>5, <1>10 DEF ReadLedger, Goto
  <2>2. U = T
    BY <2>1 DEF U, T
  <2> QED
    BY <1>1, <1>2, <1>4, <2>1, <2>2 DEF ToGo, Before
<1>11. CASE AppendEntry(c)
  <2>1. /\ pc[c] = "appending" /\ pc'[c] = "writing"
        /\ todo'[c] = todo[c] \ {bufOp[c]}
    BY <1>5, <1>11 DEF AppendEntry, Written, Goto
  <2>2. bufOp[c] \in todo[c]
    BY <2>1 DEF Base, Working
  <2>3. U = T - 1
    BY <2>1, <2>2, OneLess DEF U, T
  <2> QED
    BY <1>1, <1>2, <1>4, <2>1, <2>3 DEF ToGo, Before
<1>12. CASE WriteFails(c)
  <2>1. pc[c] \in {"writing", "appending"} /\ pc'[c] = "restoring" /\ todo'[c] = {}
    BY <1>5, <1>12 DEF WriteFails, Goto
  <2>2. U = 0
    BY <2>1, FS_EmptySet DEF U
  <2> QED
    BY <1>1, <1>2, <1>4, <2>1, <2>2 DEF ToGo, Before
<1> QED
  BY <1>6, <1>7, <1>8, <1>9, <1>10, <1>11, <1>12 DEF Step

LEMMA SameWork ==
  ASSUME NEW c \in Caller, pc'[c] = pc[c], todo'[c] = todo[c], diff'[c] = diff[c]
  PROVE  StepsLeft(c)' = StepsLeft(c)
BY DEF StepsLeft, Work

(* A step of another call, or of the managers. *)
LEMMA OthersDoNotLengthen ==
  ASSUME Base, [Next]_vars, NEW c \in Caller, Busy(c), ~Step(c)
  PROVE  StepsLeft(c)' <= StepsLeft(c)
<1>1. /\ pc \in [Caller -> Stages] /\ diff \in [Caller -> Diff]
      /\ todo \in [Caller -> SUBSET (Chapter \cup Op \cup Character)]
  BY DEF Base, TypeOK
<1>2. StepsLeft(c) \in Nat
  BY WhatIsLeft
<1>3. ASSUME pc'[c] = pc[c], todo'[c] = todo[c], diff'[c] = diff[c]
      PROVE  StepsLeft(c)' <= StepsLeft(c)
  BY <1>2, <1>3, SameWork
<1>4. ASSUME NEW b \in Caller, NEW m \in Manager, NEW d \in Diff, Begin(b, m, d)
      PROVE  StepsLeft(c)' <= StepsLeft(c)
  <2>1. b # c
    BY <1>4 DEF Begin, Busy
  <2>2. pc'[c] = pc[c] /\ todo'[c] = todo[c] /\ diff'[c] = diff[c]
    BY <1>1, <1>4, <2>1 DEF Begin, Goto
  <2> QED
    BY <1>3, <2>2
<1>5. ASSUME NEW b \in Caller, Step(b)
      PROVE  StepsLeft(c)' <= StepsLeft(c)
  <2>1. b # c
    BY <1>5
  <2>2. pc'[c] = pc[c]
    BY <1>1, <1>5, <2>1 DEF Goto, Step, Acquire, LockTimeout, Refuse, Admit, SnapshotLedgers,
         SnapshotCanon, SnapshotFails, CopyDraft, ReadLedger, AppendEntry, WriteCard,
         WriteRecord, SaveConsumed, SaveConsumedFails, EmitCommit, WriteFails,
         RestoreLedgers, RestoreCanon, RestoreFails
  <2>3. todo'[c] = todo[c] /\ diff'[c] = diff[c]
    BY <1>1, <1>5, <2>1 DEF Written, Step, Acquire, LockTimeout, Refuse, Admit,
         SnapshotLedgers, SnapshotCanon, SnapshotFails, CopyDraft, ReadLedger, AppendEntry,
         WriteCard, WriteRecord, SaveConsumed, SaveConsumedFails, EmitCommit, WriteFails,
         RestoreLedgers, RestoreCanon, RestoreFails
  <2> QED
    BY <1>3, <2>2, <2>3
<1>6. ASSUME NEW m \in Manager, Crash(m)
      PROVE  StepsLeft(c)' <= StepsLeft(c)
  <2>1. diff'[c] = diff[c]
    BY <1>6 DEF Crash
  <2>2. CASE mgr[c] = m
    <3>1. pc'[c] = "idle" /\ todo'[c] = {}
      BY <1>6, <2>2 DEF Crash
    <3>2. StepsLeft(c)' = 0
      BY <3>1, FS_EmptySet DEF StepsLeft, ToGo, Before
    <3> QED
      BY <1>2, <3>2
  <2>3. CASE mgr[c] # m
    <3>1. pc'[c] = pc[c] /\ todo'[c] = todo[c]
      BY <1>6, <2>3 DEF Crash
    <3> QED
      BY <1>3, <2>1, <3>1
  <2> QED
    BY <2>2, <2>3
<1>7. CASE UNCHANGED <<pc, todo, diff>>
  BY <1>3, <1>7
<1> QED
  BY <1>4, <1>5, <1>6, <1>7 DEF Next, Construct, vars

(* A call has ever fewer steps left, whether it goes on, fails or is being restored, and   *)
(* whatever other calls, crashes and new managers do meanwhile: at most eight, and two for *)
(* each thing its diff writes (AtomicApplyManager.apply, atomic_apply_manager.py:127-233). *)
THEOREM CallsEnd == Spec => CallsShorten
<1>1. Inv /\ [Next]_vars =>
        [\A c \in Caller : /\ Step(c) => StepsLeft(c)' < StepsLeft(c)
                           /\ Busy(c) => StepsLeft(c)' <= StepsLeft(c)]_vars
  <2> SUFFICES ASSUME Inv, [Next]_vars, NEW c \in Caller
               PROVE  /\ Step(c) => StepsLeft(c)' < StepsLeft(c)
                      /\ Busy(c) => StepsLeft(c)' <= StepsLeft(c)
    OBVIOUS
  <2>1. Base
    BY DEF Inv
  <2>2. ASSUME Step(c) PROVE StepsLeft(c)' < StepsLeft(c) /\ StepsLeft(c)' <= StepsLeft(c)
    BY <2>1, <2>2, StepShortens
  <2>3. ASSUME Busy(c), ~Step(c) PROVE StepsLeft(c)' <= StepsLeft(c)
    BY <2>1, <2>3, OthersDoNotLengthen
  <2> QED
    BY <2>2, <2>3
<1> QED
  BY <1>1, Invariant, PTL DEF Spec, CallsShorten
=============================================================================
