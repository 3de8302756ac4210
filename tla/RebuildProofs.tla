--------------------------- MODULE RebuildProofs ---------------------------
(***************************************************************************)
(* Proofs about Rebuild for any callers, chapters, requests and bounds.    *)
(* What an adapter does is used only through ScriptShape (it saves right   *)
(* after a load and never otherwise, and only the lifecycle adapter, after *)
(* its first operation, registers the lifecycle index) and, for            *)
(* SuccessIsComplete, through ScriptSavesAll (it saves whatever it loads). *)
(***************************************************************************)
EXTENDS Rebuild, TLAPS

-----------------------------------------------------------------------------
(* The scripts.                                                            *)

Chapter == Chapters \cup {NoChapter}

\* A rebuild has ten steps.
LEMMA TenSteps == Len(REBUILD_ORDER) = 10 /\ 0 .. Len(REBUILD_ORDER) + 1 = 0 .. 11
<1>1. Len(REBUILD_ORDER) = 10
  BY DEF REBUILD_ORDER
<1> QED
  BY <1>1

\* They are the ten adapters.
LEMMA OrderOfSteps ==
    /\ Len(REBUILD_ORDER) = 10
    /\ \A i \in 1 .. 10 : REBUILD_ORDER[i] \in Steps
    /\ \A i \in 1 .. 10 : REBUILD_ORDER[i] = "lifecycle" <=> i = 3
    /\ Steps = {"summary", "graph", "lifecycle", "drift", "arc_plan", "beat_plan",
                "trace", "structured_audit", "calibration", "manifest_verification"}
<1>1. Len(REBUILD_ORDER) = 10
  BY DEF REBUILD_ORDER
<1>2. /\ REBUILD_ORDER[1] = "summary" /\ REBUILD_ORDER[2] = "graph"
      /\ REBUILD_ORDER[3] = "lifecycle" /\ REBUILD_ORDER[4] = "drift"
      /\ REBUILD_ORDER[5] = "arc_plan" /\ REBUILD_ORDER[6] = "beat_plan"
      /\ REBUILD_ORDER[7] = "trace" /\ REBUILD_ORDER[8] = "structured_audit"
      /\ REBUILD_ORDER[9] = "calibration" /\ REBUILD_ORDER[10] = "manifest_verification"
  BY DEF REBUILD_ORDER
<1>3. Steps = {REBUILD_ORDER[i] : i \in 1 .. 10}
  BY <1>1 DEF Steps
<1>4. \A i \in 1 .. 10 : i \in {1, 2, 3, 4, 5, 6, 7, 8, 9, 10}
  OBVIOUS
<1> QED
  BY <1>1, <1>2, <1>3, <1>4

\* What every adapter's script is like.
ScriptFits(sc, s) ==
    /\ Len(sc) \in Nat
    /\ \A i \in 1 .. Len(sc) :
          /\ sc[i].does \in {"write", "hash", "load", "save", "verify"}
          /\ sc[i].paths \subseteq Path
          /\ sc[i].does = "load" /\ LifecycleIndex \in sc[i].paths =>
                s = "lifecycle" /\ i >= 2
          /\ s = "lifecycle" /\ i = 1 =>
                sc[i].does = "write" /\ LifecycleIndex \in sc[i].paths
          /\ sc[i].does = "save" => i > 1 /\ sc[i - 1].does = "load"

LEMMA ScriptShape ==
    ASSUME NEW s \in Steps, NEW c \in Chapter
    PROVE  ScriptFits(Script(s, c), s)
<1>1. CASE Script(s, c) = <<>> /\ s # "lifecycle"
  BY <1>1 DEF ScriptFits
<1> USE DEF ScriptFits, Script, AdapterScript, ChapterSteps, LifecycleIndex, Publish,
            Announce, Write, HashIt, Register, Save, VerifyIt, LifecycleScript,
            GraphScript, DriftScript, ArcPlanScript, BeatPlanScript, TraceScript,
            StructuredAuditScript, SummaryScript, Summary, CheckedReport, ArcPlan,
            HealthReport, BeatPlan, AuditReport
<1>2. CASE s = "summary" /\ c \in Chapters
  BY <1>2 DEF Path, ChapterKinds
<1>3. CASE s = "graph"
  BY <1>3 DEF Path, GlobalKinds
<1>4. CASE s = "lifecycle"
  BY <1>4 DEF Path, GlobalKinds
<1>5. CASE s = "drift" /\ c \in Chapters
  BY <1>5 DEF Path, ChapterKinds
<1>6. CASE s = "arc_plan"
  BY <1>6 DEF Path, GlobalKinds
<1>7. CASE s = "beat_plan" /\ c \in Chapters
  BY <1>7 DEF Path, ChapterKinds
<1>8. CASE s = "trace" /\ c \in Chapters
  BY <1>8 DEF Path, ChapterKinds
<1>9. CASE s = "structured_audit" /\ c \in Chapters
  BY <1>9 DEF Path, ChapterKinds
<1>10. CASE s = "calibration"
  BY <1>10
<1>11. CASE s = "manifest_verification"
  BY <1>11
<1> QED
  BY <1>1, <1>2, <1>3, <1>4, <1>5, <1>6, <1>7, <1>8, <1>9, <1>10, <1>11, OrderOfSteps
     DEF Chapter

-----------------------------------------------------------------------------
(* Types.                                                                  *)

\* A running call is at an operation, counted from 1.
Started == \A r \in Callers : pc[r] = "running" => step[r] >= 1 /\ at[r] >= 1

TypeInv == TypeOK /\ Started

\* The operation a busy caller is at.
LEMMA OpShape ==
    ASSUME TypeInv, NEW r \in Callers, Busy(r)
    PROVE  /\ step[r] \in 1 .. 10 /\ REBUILD_ORDER[step[r]] \in Steps
           /\ Len(StepScript(r)) \in Nat /\ at[r] \in 1 .. Len(StepScript(r))
           /\ ScriptFits(StepScript(r), REBUILD_ORDER[step[r]])
<1>1. step[r] \in 1 .. 10 /\ at[r] \in Nat /\ at[r] >= 1 /\ call[r].chapter \in Chapter
  <2>1. step[r] \in 0 .. 11 /\ at[r] \in Nat /\ pc[r] = "running" /\ step[r] <= 10
    <3>1. step \in [Callers -> 0 .. 11]
      BY TenSteps DEF TypeInv, TypeOK
    <3>2. at \in [Callers -> Nat]
      BY DEF TypeInv, TypeOK
    <3> QED
      BY <3>1, <3>2, TenSteps DEF Busy
  <2>2. step[r] >= 1 /\ at[r] >= 1
    BY DEF TypeInv, Started, Busy
  <2>3. call[r].chapter \in Chapter
    BY DEF TypeInv, TypeOK, Chapter
  <2> QED
    BY <2>1, <2>2, <2>3
<1>2. ScriptFits(StepScript(r), REBUILD_ORDER[step[r]])
  BY <1>1, OrderOfSteps, ScriptShape DEF StepScript
<1>3. REBUILD_ORDER[step[r]] \in Steps
  BY <1>1, OrderOfSteps
<1>4. Len(StepScript(r)) \in Nat
  BY <1>2 DEF ScriptFits
<1>5. at[r] <= Len(StepScript(r))
  BY DEF Busy
<1>6. at[r] \in 1 .. Len(StepScript(r))
  BY <1>1, <1>4, <1>5
<1> QED
  BY <1>1, <1>2, <1>3, <1>4, <1>6

LEMMA EntriesType ==
    ASSUME NEW m \in Manifest, NEW S \in SUBSET Path, NEW h \in Nat
    PROVE  WithEntries(m, S, h) \in Manifest
  BY DEF Manifest, WithEntries

LEMMA EmptyType == EmptyManifest \in Manifest
  BY DEF Manifest, EmptyManifest

\* Where a caller is after an operation, a failure or a skipped adapter.
LEMMA MoveType ==
    ASSUME TypeInv, NEW r \in Callers, pc[r] = "running", step[r] \in 1 .. 10,
           OpDone(r) \/ GoTo(r, step[r] + 1) \/ UNCHANGED <<step, at>>
    PROVE  /\ step' \in [Callers -> 0 .. Len(REBUILD_ORDER) + 1]
           /\ at' \in [Callers -> Nat]
           /\ step'[r] >= 1 /\ at'[r] >= 1
           /\ \A o \in Callers : o # r => step'[o] = step[o] /\ at'[o] = at[o]
<1>1. /\ step \in [Callers -> 0 .. 11] /\ at \in [Callers -> Nat]
      /\ step[r] >= 1 /\ at[r] >= 1
  <2>1. step \in [Callers -> 0 .. 11]
    BY TenSteps DEF TypeInv, TypeOK
  <2>2. at \in [Callers -> Nat]
    BY DEF TypeInv, TypeOK
  <2> QED
    BY <2>1, <2>2 DEF TypeInv, Started
<1>2. CASE OpDone(r)
  <2>1. CASE at[r] < Len(StepScript(r))
    BY <1>1, <1>2, <2>1, TenSteps DEF OpDone
  <2>2. CASE ~(at[r] < Len(StepScript(r)))
    <3>1. at' = [at EXCEPT ![r] = 1] /\ step' = [step EXCEPT ![r] = @ + 1]
      BY <1>2, <2>2 DEF OpDone
    <3>2. step' \in [Callers -> 0 .. 11] /\ at' \in [Callers -> Nat]
      BY <1>1, <3>1
    <3> QED
      BY <1>1, <3>1, <3>2, TenSteps
  <2> QED
    BY <2>1, <2>2
<1>3. CASE GoTo(r, step[r] + 1)
  BY <1>1, <1>3, TenSteps DEF GoTo
<1>4. CASE UNCHANGED <<step, at>>
  BY <1>1, <1>4, TenSteps
<1> QED
  BY <1>2, <1>3, <1>4

LEMMA DoneType ==
    ASSUME TypeInv, NEW r \in Callers, AdapterDone(r)
    PROVE  buf' \in [Callers -> Manifest] /\ seen' \in [Callers -> Nat]
  BY EmptyType DEF TypeInv, TypeOK, AdapterDone

LEMMA CallDoneType ==
    ASSUME TypeInv, NEW r \in Callers, CallDone(r), Leave(r)
    PROVE  /\ buf' \in [Callers -> Manifest] /\ seen' \in [Callers -> Nat]
           /\ call' \in [Callers -> [id : Nat, chapter : Chapters \cup {NoChapter},
                                     active : BOOLEAN, fresh : BOOLEAN]]
           /\ step' \in [Callers -> 0 .. Len(REBUILD_ORDER) + 1]
           /\ at' \in [Callers -> Nat]
           /\ failed' \in [Callers -> SUBSET Steps]
           /\ pc' \in [Callers -> {"idle", "clearing", "locking", "running", "leaving"}]
           /\ Started'
<1>1. buf' \in [Callers -> Manifest] /\ seen' \in [Callers -> Nat]
  BY DoneType DEF CallDone
<1>2. NoCall \in [id : Nat, chapter : Chapters \cup {NoChapter},
                  active : BOOLEAN, fresh : BOOLEAN]
  BY DEF NoCall
<1>3. call' \in [Callers -> [id : Nat, chapter : Chapters \cup {NoChapter},
                             active : BOOLEAN, fresh : BOOLEAN]]
  BY <1>2 DEF CallDone, TypeInv, TypeOK
<1>4. /\ step' \in [Callers -> 0 .. Len(REBUILD_ORDER) + 1]
      /\ at' \in [Callers -> Nat]
      /\ failed' \in [Callers -> SUBSET Steps]
      /\ pc' \in [Callers -> {"idle", "clearing", "locking", "running", "leaving"}]
  <2>1. step \in [Callers -> 0 .. 11]
    BY TenSteps DEF TypeInv, TypeOK
  <2>2. step' \in [Callers -> 0 .. 11]
    BY <2>1 DEF CallDone
  <2> QED
    BY <2>2, TenSteps DEF CallDone, Leave, TypeInv, TypeOK
<1>5. ASSUME NEW o \in Callers, pc'[o] = "running"
      PROVE  step'[o] >= 1 /\ at'[o] >= 1
  <2>1. o # r /\ pc[o] = "running"
    BY <1>5 DEF Leave, TypeInv, TypeOK
  <2>2. step'[o] = step[o] /\ at'[o] = at[o]
    BY <2>1 DEF CallDone, TypeInv, TypeOK
  <2> QED
    BY <2>1, <2>2 DEF TypeInv, Started
<1> QED
  BY <1>1, <1>3, <1>4, <1>5 DEF Started

LEMMA FailType ==
    ASSUME TypeInv, NEW r \in Callers, Busy(r), Fail(r)
    PROVE  /\ failed' \in [Callers -> SUBSET Steps]
           /\ buf' \in [Callers -> Manifest] /\ seen' \in [Callers -> Nat]
           /\ step' \in [Callers -> 0 .. Len(REBUILD_ORDER) + 1]
           /\ at' \in [Callers -> Nat]
           /\ pc' \in [Callers -> {"idle", "clearing", "locking", "running", "leaving"}]
           /\ result' \in [Callers -> {"none", "lock held", "required adapter failed",
                                       "success", "failures", "raised"}]
           /\ Started' /\ call' = call
<1>1. /\ REBUILD_ORDER[step[r]] \in Steps /\ pc[r] = "running" /\ step[r] \in 1 .. 10
  BY OpShape DEF Busy
<1>2. failed' \in [Callers -> SUBSET Steps] /\ call' = call
  BY <1>1 DEF Fail, TypeInv, TypeOK
<1>3. AdapterDone(r) /\ (GoTo(r, step[r] + 1) \/ UNCHANGED <<step, at>>)
  BY DEF Fail, GoTo
<1>4. /\ pc' \in [Callers -> {"idle", "clearing", "locking", "running", "leaving"}]
      /\ result' \in [Callers -> {"none", "lock held", "required adapter failed",
                                  "success", "failures", "raised"}]
      /\ \A o \in Callers : pc'[o] = "running" => pc[o] = "running"
  BY DEF Fail, Return, TypeInv, TypeOK
<1>5. Started'
  BY <1>1, <1>3, <1>4, MoveType DEF Started, TypeInv
<1> QED
  BY <1>1, <1>2, <1>3, <1>4, <1>5, MoveType, DoneType

\* What the next-state relation is made of.
LEMMA NextCases ==
    ASSUME Next
    PROVE  Expire \/ \E r \in Callers :
              \/ Construct(r) \/ Refused(r) \/ LookAtLock(r) \/ ClearLock(r)
              \/ TakeLock(r) \/ TakeLockFails(r)
              \/ WriteArtifact(r) \/ HashArtifact(r) \/ LoadManifest(r)
              \/ LoadUnreadable(r) \/ SaveManifest(r) \/ VerifyPasses(r)
              \/ VerifyFails(r) \/ AdapterRaises(r) \/ SkipAdapter(r)
              \/ FinalLoad(r) \/ FinalLoadUnreadable(r) \/ FinalSave(r)
              \/ FinalSaveRaises(r) \/ Release(r) \/ ReleaseFails(r) \/ Crash(r)
  BY DEF Next, Acquire, Adapt, Finish

LEMMA InitType == Init => TypeInv
<1> SUFFICES ASSUME Init
             PROVE  TypeInv
  OBVIOUS
<1>1. step \in [Callers -> 0 .. Len(REBUILD_ORDER) + 1]
  BY TenSteps DEF Init
<1>2. call \in [Callers -> [id : Nat, chapter : Chapters \cup {NoChapter},
                            active : BOOLEAN, fresh : BOOLEAN]]
  BY DEF Init, NoCall
<1>3. disk \in Manifest /\ buf \in [Callers -> Manifest]
      /\ cache \in [Callers -> Manifest \cup {NoManifest}]
  BY EmptyType DEF Init
<1>4. /\ written \subseteq Path /\ index \in Nat
      /\ lock \in {"free", "live", "expired", "torn"}
      /\ pc \in [Callers -> {"idle", "clearing", "locking", "running", "leaving"}]
      /\ at \in [Callers -> Nat]
      /\ seen \in [Callers -> Nat]
      /\ failed \in [Callers -> SUBSET Steps]
      /\ result \in [Callers -> {"none", "lock held", "required adapter failed",
                                 "success", "failures", "raised"}]
  BY DEF Init
<1>5. calls \in Nat /\ faults \in Nat /\ unreadable \in Nat /\ abandoned \in Nat
      /\ raced \in BOOLEAN
  BY DEF Init
<1>6. Started
  BY DEF Init, Started
<1> QED
  BY <1>1, <1>2, <1>3, <1>4, <1>5, <1>6 DEF TypeInv, TypeOK

\* A new count of calls, faults, unreadable manifests or deaths.
LEMMA BoundsType ==
    ASSUME TypeInv,
           Fault \/ Unreadable \/ Abandon
    PROVE  calls' \in Nat /\ faults' \in Nat /\ unreadable' \in Nat /\ abandoned' \in Nat
<1> calls \in Nat /\ faults \in Nat /\ unreadable \in Nat /\ abandoned \in Nat
  BY DEF TypeInv, TypeOK
<1>1. CASE Fault
  BY <1>1 DEF Fault
<1>2. CASE Unreadable
  BY <1>2 DEF Unreadable
<1>3. CASE Abandon
  BY <1>3 DEF Abandon
<1> QED
  BY <1>1, <1>2, <1>3

LEMMA StepType == TypeInv /\ [Next]_vars => TypeInv'
<1> SUFFICES ASSUME TypeInv, [Next]_vars
             PROVE  TypeInv'
  OBVIOUS
<1> USE DEF TypeInv
<1>1. CASE UNCHANGED vars
  BY <1>1 DEF TypeOK, Started, vars, locals, bounds
<1>2. CASE Expire
  BY <1>2 DEF Expire, TypeOK, Started, locals, bounds
<1>3. ASSUME NEW r \in Callers, Construct(r)
      PROVE  TypeInv'
  BY <1>3 DEF Construct, TypeOK, Started, locals, bounds
<1>4. ASSUME NEW r \in Callers, Refused(r)
      PROVE  TypeInv'
  BY <1>4 DEF Refused, Return, TypeOK, Started, locals, bounds
<1>5. ASSUME NEW r \in Callers, LookAtLock(r)
      PROVE  TypeInv'
  BY <1>5 DEF LookAtLock, TypeOK, Started, locals, bounds
<1>6. ASSUME NEW r \in Callers, ClearLock(r)
      PROVE  TypeInv'
  BY <1>6 DEF ClearLock, TypeOK, Started, locals, bounds
<1>7. ASSUME NEW r \in Callers, TakeLock(r)
      PROVE  TypeInv'
  <2>1. PICK q \in Requests :
            call' = [call EXCEPT ![r] = [id |-> calls + 1,
                                         chapter |-> q.chapter, active |-> q.active,
                                         fresh |-> cache[r] = NoManifest]]
    BY <1>7 DEF TakeLock
  <2>2. calls + 1 \in Nat /\ q.chapter \in Chapter /\ q.active \in BOOLEAN
    <3>1. q \in Request
      BY RequestAssumption
    <3>2. calls + 1 \in Nat
      <4>1. calls \in Nat
        BY DEF TypeOK
      <4> QED
        BY <4>1
    <3> QED
      BY <3>1, <3>2 DEF Request, Chapter
  <2>3. call' \in [Callers -> [id : Nat, chapter : Chapters \cup {NoChapter},
                               active : BOOLEAN, fresh : BOOLEAN]]
    BY <2>1, <2>2 DEF TypeOK, Chapter
  <2>4. step' \in [Callers -> 0 .. Len(REBUILD_ORDER) + 1] /\ at' \in [Callers -> Nat]
    <3>1. step \in [Callers -> 0 .. 11] /\ at \in [Callers -> Nat]
      BY TenSteps DEF TypeOK
    <3>2. step' = [step EXCEPT ![r] = 1] /\ at' = [at EXCEPT ![r] = 1]
      BY <1>7 DEF TakeLock
    <3>3. step' \in [Callers -> 0 .. 11] /\ at' \in [Callers -> Nat]
      BY <3>1, <3>2
    <3> QED
      BY <3>3, TenSteps
  <2>5. Started'
    <3>1. /\ DOMAIN step = Callers /\ DOMAIN at = Callers /\ DOMAIN pc = Callers
          /\ step' = [step EXCEPT ![r] = 1] /\ at' = [at EXCEPT ![r] = 1]
          /\ pc' = [pc EXCEPT ![r] = "running"]
      BY <1>7 DEF TakeLock, TypeOK
    <3> QED
      BY <3>1 DEF Started
  <2>6. calls' \in Nat /\ faults' \in Nat /\ unreadable' \in Nat /\ abandoned' \in Nat
    <3>1. /\ calls \in Nat /\ faults \in Nat /\ unreadable \in Nat
          /\ abandoned \in Nat
      BY DEF TypeOK
    <3> QED
      BY <1>7, <3>1 DEF TakeLock
  <2> QED
    BY <1>7, <2>3, <2>4, <2>5, <2>6 DEF TakeLock, Return, TypeOK
<1>8. ASSUME NEW r \in Callers, TakeLockFails(r)
      PROVE  TypeInv'
  BY <1>8, BoundsType DEF TakeLockFails, Fault, Leave, Return, TypeOK, Started, locals
<1>9. ASSUME NEW r \in Callers, WriteArtifact(r)
      PROVE  TypeInv'
  <2>1. pc[r] = "running" /\ step[r] \in 1 .. 10 /\ Op(r).paths \subseteq Path
    BY <1>9, OpShape DEF WriteArtifact, Doing, Busy, Op, ScriptFits
  <2>2. /\ step' \in [Callers -> 0 .. Len(REBUILD_ORDER) + 1]
        /\ at' \in [Callers -> Nat] /\ pc' = pc
        /\ Started'
    BY <1>9, <2>1, MoveType DEF WriteArtifact, Started
  <2> QED
    BY <1>9, <2>1, <2>2 DEF WriteArtifact, TypeOK, bounds
<1>10. ASSUME NEW r \in Callers, HashArtifact(r)
      PROVE  TypeInv'
  <2>1. pc[r] = "running" /\ step[r] \in 1 .. 10 /\ Op(r).paths \subseteq Path
    BY <1>10, OpShape DEF HashArtifact, Doing, Busy, Op, ScriptFits
  <2>2. /\ step' \in [Callers -> 0 .. Len(REBUILD_ORDER) + 1]
        /\ at' \in [Callers -> Nat] /\ pc' = pc
        /\ Started'
    BY <1>10, <2>1, MoveType DEF HashArtifact, Started
  <2> QED
    BY <1>10, <2>1, <2>2 DEF HashArtifact, TypeOK, bounds
<1>11. ASSUME NEW r \in Callers, LoadManifest(r)
      PROVE  TypeInv'
  <2>1. pc[r] = "running" /\ step[r] \in 1 .. 10 /\ Op(r).paths \subseteq Path
    BY <1>11, OpShape DEF LoadManifest, Doing, Busy, Op, ScriptFits
  <2>2. /\ step' \in [Callers -> 0 .. Len(REBUILD_ORDER) + 1]
        /\ at' \in [Callers -> Nat] /\ pc' = pc
        /\ Started'
    BY <1>11, <2>1, MoveType DEF LoadManifest, Started
  <2>3. WithEntries(disk, Op(r).paths, seen[r]) \in Manifest
    BY <2>1, EntriesType DEF TypeOK
  <2> QED
    BY <1>11, <2>2, <2>3 DEF LoadManifest, TypeOK, bounds
<1>12. ASSUME NEW r \in Callers, LoadUnreadable(r)
      PROVE  TypeInv'
  <2>1. pc[r] = "running" /\ step[r] \in 1 .. 10 /\ Op(r).paths \subseteq Path
    BY <1>12, OpShape DEF LoadUnreadable, Doing, Busy, Op, ScriptFits
  <2>2. /\ step' \in [Callers -> 0 .. Len(REBUILD_ORDER) + 1]
        /\ at' \in [Callers -> Nat] /\ pc' = pc
        /\ Started'
    BY <1>12, <2>1, MoveType DEF LoadUnreadable, Started
  <2>3. WithEntries(EmptyManifest, Op(r).paths, seen[r]) \in Manifest
    BY <2>1, EntriesType, EmptyType DEF TypeOK
  <2>4. calls' \in Nat /\ faults' \in Nat /\ unreadable' \in Nat /\ abandoned' \in Nat
    BY <1>12, BoundsType DEF LoadUnreadable
  <2> QED
    BY <1>12, <2>2, <2>3, <2>4 DEF LoadUnreadable, TypeOK
<1>13. ASSUME NEW r \in Callers, SaveManifest(r)
      PROVE  TypeInv'
  <2>1. pc[r] = "running" /\ step[r] \in 1 .. 10 /\ Op(r).paths \subseteq Path
    BY <1>13, OpShape DEF SaveManifest, Doing, Busy, Op, ScriptFits
  <2>2. /\ step' \in [Callers -> 0 .. Len(REBUILD_ORDER) + 1]
        /\ at' \in [Callers -> Nat] /\ pc' = pc
        /\ Started'
    BY <1>13, <2>1, MoveType DEF SaveManifest, Started
  <2>3. buf' \in [Callers -> Manifest] /\ seen' \in [Callers -> Nat]
    BY <1>13, DoneType DEF SaveManifest
  <2> QED
    BY <1>13, <2>2, <2>3 DEF SaveManifest, TypeOK, bounds
<1>14. ASSUME NEW r \in Callers, VerifyPasses(r)
      PROVE  TypeInv'
  <2>1. pc[r] = "running" /\ step[r] \in 1 .. 10 /\ Op(r).paths \subseteq Path
    BY <1>14, OpShape DEF VerifyPasses, Doing, Busy, Op, ScriptFits
  <2>2. /\ step' \in [Callers -> 0 .. Len(REBUILD_ORDER) + 1]
        /\ at' \in [Callers -> Nat] /\ pc' = pc
        /\ Started'
    BY <1>14, <2>1, MoveType DEF VerifyPasses, Started
  <2> QED
    BY <1>14, <2>2 DEF VerifyPasses, TypeOK, bounds
<1>15. ASSUME NEW r \in Callers, VerifyFails(r)
      PROVE  TypeInv'
  <2>1. Busy(r) /\ Fail(r)
    BY <1>15 DEF VerifyFails, Doing
  <2> QED
    BY <1>15, <2>1, FailType DEF VerifyFails, TypeOK, bounds
<1>16. ASSUME NEW r \in Callers, AdapterRaises(r)
      PROVE  TypeInv'
  <2>1. Busy(r) /\ Fail(r)
    BY <1>16 DEF AdapterRaises
  <2>2. calls' \in Nat /\ faults' \in Nat /\ unreadable' \in Nat /\ abandoned' \in Nat
    BY <1>16, BoundsType DEF AdapterRaises
  <2> QED
    BY <1>16, <2>1, <2>2, FailType DEF AdapterRaises, TypeOK
<1>17. ASSUME NEW r \in Callers, SkipAdapter(r)
      PROVE  TypeInv'
  <2>1. pc[r] = "running" /\ step[r] \in 1 .. 10 /\ GoTo(r, step[r] + 1)
    <3>1. step[r] \in 0 .. 11 /\ pc[r] = "running" /\ step[r] <= 10
      BY <1>17, TenSteps DEF SkipAdapter, TypeOK
    <3> QED
      BY <1>17, <3>1 DEF SkipAdapter, Started
  <2>2. /\ step' \in [Callers -> 0 .. Len(REBUILD_ORDER) + 1]
        /\ at' \in [Callers -> Nat] /\ pc' = pc
        /\ Started'
    BY <1>17, <2>1, MoveType DEF SkipAdapter, Started
  <2>3. buf' \in [Callers -> Manifest] /\ seen' \in [Callers -> Nat]
    BY <2>1, DoneType DEF GoTo
  <2> QED
    BY <1>17, <2>2, <2>3 DEF SkipAdapter, TypeOK, bounds
<1>18. ASSUME NEW r \in Callers, FinalLoad(r)
      PROVE  TypeInv'
  BY <1>18 DEF FinalLoad, TypeOK, Started, locals, bounds
<1>19. ASSUME NEW r \in Callers, FinalLoadUnreadable(r)
      PROVE  TypeInv'
  <2>1. calls' \in Nat /\ faults' \in Nat /\ unreadable' \in Nat /\ abandoned' \in Nat
    BY <1>19, BoundsType DEF FinalLoadUnreadable
  <2> QED
    BY <1>19, <2>1, EmptyType DEF FinalLoadUnreadable, TypeOK, Started, locals
<1>20. ASSUME NEW r \in Callers, FinalSave(r)
      PROVE  TypeInv'
  <2>1. cache[r] \in Manifest
    BY <1>20 DEF FinalSave, TypeOK
  <2> QED
    BY <1>20, <2>1 DEF FinalSave, Return, TypeOK, Started, locals, bounds
<1>21. ASSUME NEW r \in Callers, FinalSaveRaises(r)
      PROVE  TypeInv'
  <2>1. calls' \in Nat /\ faults' \in Nat /\ unreadable' \in Nat /\ abandoned' \in Nat
    BY <1>21, BoundsType DEF FinalSaveRaises
  <2> QED
    BY <1>21, <2>1 DEF FinalSaveRaises, Return, TypeOK, Started, locals
<1>22. ASSUME NEW r \in Callers, Release(r)
      PROVE  TypeInv'
  <2>1. CallDone(r) /\ Leave(r)
    BY <1>22 DEF Release
  <2> QED
    BY <1>22, <2>1, CallDoneType DEF Release, TypeOK, bounds
<1>23. ASSUME NEW r \in Callers, ReleaseFails(r)
      PROVE  TypeInv'
  <2>1. CallDone(r) /\ Leave(r)
    BY <1>23 DEF ReleaseFails
  <2>2. calls' \in Nat /\ faults' \in Nat /\ unreadable' \in Nat /\ abandoned' \in Nat
    BY <1>23, BoundsType DEF ReleaseFails
  <2> QED
    BY <1>23, <2>1, <2>2, CallDoneType DEF ReleaseFails, TypeOK
<1>24. ASSUME NEW r \in Callers, Crash(r)
      PROVE  TypeInv'
  <2>1. CallDone(r) /\ Leave(r)
    BY <1>24 DEF Crash
  <2>2. calls' \in Nat /\ faults' \in Nat /\ unreadable' \in Nat /\ abandoned' \in Nat
    BY <1>24, BoundsType DEF Crash
  <2>3. lock' \in {"free", "live", "expired", "torn"}
    BY <1>24 DEF Crash, TypeOK
  <2> QED
    BY <1>24, <2>1, <2>2, <2>3, CallDoneType DEF Crash, Return, TypeOK
<1> QED
  BY <1>1, <1>2, <1>3, <1>4, <1>5, <1>6, <1>7, <1>8, <1>9, <1>10, <1>11, <1>12, <1>13, <1>14, <1>15, <1>16, <1>17, <1>18, <1>19, <1>20, <1>21, <1>22, <1>23, <1>24, NextCases

\* Every variable has its type, for any number of callers and chapters.
THEOREM TypeCorrect == Spec => []TypeOK
<1>1. TypeInv => TypeOK
  BY DEF TypeInv
<1> QED
  BY <1>1, InitType, StepType, PTL DEF Spec

-----------------------------------------------------------------------------
(* The lock.                                                               *)

Entered(r) == Acquiring(r) \/ Inside(r)

\* Between acquire and release: everything that neither takes nor gives up the lock.
Works(r) ==
    \/ Adapt(r) \/ FinalLoad(r) \/ FinalLoadUnreadable(r)
    \/ FinalSave(r) \/ FinalSaveRaises(r)

LEMMA WorkCases ==
    ASSUME Next
    PROVE  Expire \/ \E r \in Callers :
              \/ Works(r) \/ Construct(r) \/ Refused(r) \/ LookAtLock(r) \/ ClearLock(r)
              \/ TakeLock(r) \/ TakeLockFails(r) \/ Release(r) \/ ReleaseFails(r) \/ Crash(r)
  BY DEF Next, Acquire, Works, Finish

\* While a rebuild works it stays inside, and nobody else moves.
LEMMA WorkStays ==
    ASSUME TypeInv, NEW r \in Callers, Works(r)
    PROVE  /\ lock' = lock /\ raced' = raced /\ abandoned' = abandoned /\ calls' = calls
           /\ pc[r] = "running" /\ pc'[r] \in {"running", "leaving"}
           /\ call' = call
           /\ \A o \in Callers : o # r => pc'[o] = pc[o]
<1>1. ASSUME pc[r] = "running",
             pc' = pc \/ pc' = [pc EXCEPT ![r] = "leaving"]
      PROVE  /\ pc'[r] \in {"running", "leaving"}
             /\ \A o \in Callers : o # r => pc'[o] = pc[o]
  BY <1>1 DEF TypeInv, TypeOK
<1>2. ASSUME Fail(r)
      PROVE  call' = call /\ (pc' = pc \/ pc' = [pc EXCEPT ![r] = "leaving"])
  BY <1>2 DEF Fail
<1>3. CASE WriteArtifact(r) \/ HashArtifact(r) \/ LoadManifest(r) \/ SaveManifest(r)
           \/ VerifyPasses(r)
  BY <1>1, <1>3 DEF WriteArtifact, HashArtifact, LoadManifest, SaveManifest,
                    VerifyPasses, Doing, Busy, bounds
<1>4. CASE LoadUnreadable(r)
  BY <1>1, <1>4 DEF LoadUnreadable, Unreadable, Doing, Busy
<1>5. CASE SkipAdapter(r)
  BY <1>1, <1>5 DEF SkipAdapter, bounds
<1>6. CASE VerifyFails(r)
  BY <1>1, <1>2, <1>6 DEF VerifyFails, Doing, Busy, bounds
<1>7. CASE AdapterRaises(r)
  BY <1>1, <1>2, <1>7 DEF AdapterRaises, Fault, Busy
<1>8. CASE FinalLoad(r)
  BY <1>1, <1>8 DEF FinalLoad, Finishing, locals, bounds
<1>9. CASE FinalLoadUnreadable(r)
  BY <1>1, <1>9 DEF FinalLoadUnreadable, Finishing, Unreadable, locals
<1>10. CASE FinalSave(r)
  BY <1>1, <1>10 DEF FinalSave, Finishing, locals, bounds
<1>11. CASE FinalSaveRaises(r)
  BY <1>1, <1>11 DEF FinalSaveRaises, Finishing, Fault, locals
<1> QED
  BY <1>3, <1>4, <1>5, <1>6, <1>7, <1>8, <1>9, <1>10, <1>11 DEF Works, Adapt

\* The strengthening of OneRebuild: until somebody has been overtaken, at most one caller
\* is past the look at the lock, and a rebuild's lock is valid all the time.
LockInv ==
    raced \/ /\ \A r \in Callers : Inside(r) => lock = "live"
             /\ \A r, o \in Callers : Entered(r) /\ Entered(o) => r = o

LEMMA LockStep == TypeInv /\ LockInv /\ [Next]_vars => LockInv'
<1> SUFFICES ASSUME TypeInv, LockInv, [Next]_vars, ~raced'
             PROVE  /\ \A r \in Callers : Inside(r)' => lock' = "live"
                    /\ \A r, o \in Callers : Entered(r)' /\ Entered(o)' => r = o
  BY DEF LockInv
<1> USE DEF Entered, Inside, Acquiring
<1>0. pc \in [Callers -> {"idle", "clearing", "locking", "running", "leaving"}]
  BY DEF TypeInv, TypeOK
<1>a. ~raced => /\ \A r \in Callers : Inside(r) => lock = "live"
                /\ \A r, o \in Callers : Entered(r) /\ Entered(o) => r = o
  BY DEF LockInv
<1>1. CASE UNCHANGED vars
  BY <1>1, <1>a DEF vars
<1>2. CASE Expire
  BY <1>2, <1>a DEF Expire
<1>3. ASSUME NEW r \in Callers, Works(r)
      PROVE  /\ \A o \in Callers : Inside(o)' => lock' = "live"
             /\ \A q, o \in Callers : Entered(q)' /\ Entered(o)' => q = o
  <2>1. ~raced /\ lock' = lock /\ \A o \in Callers : Inside(o)' = Inside(o)
        /\ Entered(o)' = Entered(o)
    BY <1>3, WorkStays
  <2> QED
    BY <2>1, <1>a
<1>4. ASSUME NEW r \in Callers, Construct(r) \/ Refused(r)
      PROVE  /\ \A o \in Callers : Inside(o)' => lock' = "live"
             /\ \A q, o \in Callers : Entered(q)' /\ Entered(o)' => q = o
  <2>1. pc' = pc /\ lock' = lock /\ raced' = raced
    BY <1>4 DEF Construct, Refused
  <2> QED
    BY <2>1, <1>a
<1>5. ASSUME NEW r \in Callers, LookAtLock(r)
      PROVE  /\ \A o \in Callers : Inside(o)' => lock' = "live"
             /\ \A q, o \in Callers : Entered(q)' /\ Entered(o)' => q = o
  <2>1. ~raced /\ lock # "live" /\ \A o \in Callers : ~Acquiring(o)
    BY <1>5 DEF LookAtLock
  <2>2. \A o \in Callers : ~Entered(o)
    BY <2>1, <1>a
  <2>3. \A o \in Callers : o # r => pc'[o] = pc[o]
    BY <1>5, <1>0 DEF LookAtLock
  <2>4. pc'[r] \in {"clearing", "locking"}
    BY <1>5, <1>0 DEF LookAtLock
  <2> QED
    BY <2>2, <2>3, <2>4
<1>6. ASSUME NEW r \in Callers, ClearLock(r) \/ TakeLock(r)
      PROVE  /\ \A o \in Callers : Inside(o)' => lock' = "live"
             /\ \A q, o \in Callers : Entered(q)' /\ Entered(o)' => q = o
  <2>1. ~raced /\ Entered(r) /\ (Inside(r)' => lock' = "live")
    BY <1>6, <1>0 DEF ClearLock, TakeLock
  <2>2. \A o \in Callers : o # r => pc'[o] = pc[o]
    BY <1>6, <1>0 DEF ClearLock, TakeLock
  <2>3. \A o \in Callers : o # r => ~Entered(o)
    BY <2>1, <1>a
  <2> QED
    BY <2>1, <2>2, <2>3
<1>7. ASSUME NEW r \in Callers,
             TakeLockFails(r) \/ Release(r) \/ ReleaseFails(r) \/ Crash(r)
      PROVE  /\ \A o \in Callers : Inside(o)' => lock' = "live"
             /\ \A q, o \in Callers : Entered(q)' /\ Entered(o)' => q = o
  <2>1. ~raced /\ Entered(r) /\ Leave(r)
    <3>1. ~raced /\ Leave(r) /\ pc[r] # "idle"
      <4>1. CASE TakeLockFails(r)
        BY <4>1 DEF TakeLockFails
      <4>2. CASE Release(r)
        BY <4>2 DEF Release
      <4>3. CASE ReleaseFails(r)
        BY <4>3 DEF ReleaseFails
      <4>4. CASE Crash(r)
        BY <4>4 DEF Crash
      <4> QED
        BY <1>7, <4>1, <4>2, <4>3, <4>4
    <3> QED
      BY <3>1, <1>0
  <2>2. pc'[r] = "idle" /\ \A o \in Callers : o # r => pc'[o] = pc[o]
    BY <2>1, <1>0 DEF Leave
  <2>3. \A o \in Callers : o # r => ~Entered(o)
    BY <2>1, <1>a
  <2> QED
    BY <2>2, <2>3
<1> QED
  BY <1>1, <1>2, <1>3, <1>4, <1>5, <1>6, <1>7, WorkCases

LEMMA InitLock == Init => LockInv
  BY DEF Init, LockInv, Entered, Inside, Acquiring

\* The lock admits one rebuild at a time, for any number of callers, any expiry and any
\* fault, as long as nobody is overtaken.
THEOREM OneRebuildHolds == Spec => []OneRebuild
<1>1. LockInv => OneRebuild
  BY DEF LockInv, OneRebuild, Entered
<1> QED
  BY <1>1, InitType, StepType, InitLock, LockStep, PTL DEF Spec

-----------------------------------------------------------------------------
(* The lock after the calls.                                               *)

\* The strengthening of NoLockLeftBehind: a lock file belongs to a call that is not over.
HeldInv ==
    abandoned = 0 /\ lock \in {"live", "expired"} => \E r \in Callers : Inside(r)

LEMMA HeldStep == TypeInv /\ HeldInv /\ [Next]_vars => HeldInv'
<1> SUFFICES ASSUME TypeInv, HeldInv, [Next]_vars,
                    abandoned' = 0, lock' \in {"live", "expired"}
             PROVE  \E r \in Callers : Inside(r)'
  BY DEF HeldInv
<1> USE DEF Inside
<1>0. /\ pc \in [Callers -> {"idle", "clearing", "locking", "running", "leaving"}]
      /\ abandoned \in Nat
  BY DEF TypeInv, TypeOK
<1>1. CASE UNCHANGED vars
  BY <1>1 DEF HeldInv, vars, bounds
<1>2. CASE Expire
  BY <1>2 DEF HeldInv, Expire, bounds
<1>3. ASSUME NEW r \in Callers, Works(r)
      PROVE  \E o \in Callers : Inside(o)'
  BY <1>3, WorkStays
<1>4. ASSUME NEW r \in Callers, Construct(r) \/ Refused(r)
      PROVE  \E o \in Callers : Inside(o)'
  BY <1>4 DEF HeldInv, Construct, Refused, bounds
<1>5. ASSUME NEW r \in Callers, LookAtLock(r) \/ TakeLockFails(r)
      PROVE  \E o \in Callers : Inside(o)'
  <2>1. /\ lock \in {"live", "expired"} /\ abandoned = 0 /\ ~Inside(r)
        /\ \A o \in Callers : o # r => pc'[o] = pc[o]
    BY <1>5, <1>0 DEF LookAtLock, TakeLockFails, Fault, Leave, bounds
  <2>2. PICK o \in Callers : Inside(o)
    BY <2>1 DEF HeldInv
  <2> QED
    BY <2>1, <2>2
<1>6. ASSUME NEW r \in Callers, TakeLock(r)
      PROVE  \E o \in Callers : Inside(o)'
  BY <1>6, <1>0 DEF TakeLock
<1>7. ASSUME NEW r \in Callers, ClearLock(r) \/ Release(r)
      PROVE  FALSE
  BY <1>7 DEF ClearLock, Release
<1>8. ASSUME NEW r \in Callers, ReleaseFails(r) \/ Crash(r)
      PROVE  FALSE
  BY <1>8, <1>0 DEF ReleaseFails, Crash, Abandon
<1> QED
  BY <1>1, <1>2, <1>3, <1>4, <1>5, <1>6, <1>7, <1>8, WorkCases

\* No way out of rebuild() leaves a valid lock behind, for any number of callers, unless
\* a process died or could not unlink the file.
THEOREM NoLockLeft == Spec => []NoLockLeftBehind
<1>1. Init => HeldInv
  BY DEF Init, HeldInv
<1>2. TypeInv /\ HeldInv => NoLockLeftBehind
  <2> SUFFICES ASSUME TypeInv, HeldInv, \A r \in Callers : pc[r] = "idle", abandoned = 0
               PROVE  lock \in {"free", "torn"}
    BY DEF NoLockLeftBehind
  <2>1. lock \in {"free", "live", "expired", "torn"}
    BY DEF TypeInv, TypeOK
  <2> QED
    BY <2>1 DEF HeldInv, Inside
<1> QED
  BY <1>1, <1>2, InitType, StepType, HeldStep, PTL DEF Spec

-----------------------------------------------------------------------------
(* The index is registered after it is written.                            *)

\* A rebuild past the first operation of the lifecycle adapter.
PastIndex == \A r \in Callers :
    pc[r] = "running" /\ step[r] = 3 /\ at[r] >= 2 => LifecycleIndex \in written

\* The strengthening of IndexRegisteredAfterWritten, copy by copy.
IndexInv ==
    /\ LifecycleIndex \in disk.paths => LifecycleIndex \in written
    /\ \A r \in Callers : LifecycleIndex \in buf[r].paths => LifecycleIndex \in written
    /\ \A r \in Callers : cache[r] # NoManifest =>
          (LifecycleIndex \in cache[r].paths => LifecycleIndex \in written)
    /\ PastIndex

LEMMA EmptyNames == LifecycleIndex \notin EmptyManifest.paths
  BY DEF EmptyManifest

LEMMA EntryNames ==
    ASSUME NEW m \in Manifest, NEW S, NEW h
    PROVE  WithEntries(m, S, h).paths = m.paths \cup S
  BY DEF WithEntries

\* An operation of an adapter keeps PastIndex: the first one writes the index.
LEMMA PastIndexOp ==
    ASSUME TypeInv, PastIndex, NEW r \in Callers, Busy(r), OpDone(r), pc' = pc,
           written \subseteq written',
           Op(r).does = "write" => Op(r).paths \subseteq written'
    PROVE  PastIndex'
<1> SUFFICES ASSUME NEW o \in Callers, pc[o] = "running", step'[o] = 3, at'[o] >= 2
             PROVE  LifecycleIndex \in written'
  BY DEF PastIndex
<1>1. CASE o # r
  <2>1. step[o] = 3 /\ at[o] = at'[o]
    BY <1>1, MoveType, OpShape DEF Busy
  <2> QED
    BY <2>1 DEF PastIndex
<1>2. CASE o = r
  <2>1. /\ step[r] \in 1 .. 10 /\ at[r] \in 1 .. Len(StepScript(r))
        /\ ScriptFits(StepScript(r), REBUILD_ORDER[step[r]])
        /\ step \in [Callers -> 0 .. 11] /\ at \in [Callers -> Nat]
    BY OpShape, TenSteps DEF TypeInv, TypeOK
  <2>2. step[r] = 3 /\ at'[r] = at[r] + 1
    BY <1>2, <2>1 DEF OpDone
  <2>3. CASE at[r] >= 2
    BY <2>2, <2>3, <1>2 DEF PastIndex
  <2>4. CASE at[r] = 1
    <3>1. REBUILD_ORDER[step[r]] = "lifecycle"
      BY <2>2, OrderOfSteps
    <3>2. Op(r).does = "write" /\ LifecycleIndex \in Op(r).paths
      BY <3>1, <2>1, <2>4 DEF ScriptFits, Op
    <3> QED
      BY <3>2
  <2> QED
    BY <2>1, <2>3, <2>4
<1> QED
  BY <1>1, <1>2

\* An adapter that is skipped or fails ends before PastIndex has anything to say.
LEMMA PastIndexNext ==
    ASSUME TypeInv, PastIndex, NEW r \in Callers, pc[r] = "running", step[r] \in 1 .. 10,
           \/ GoTo(r, step[r] + 1) /\ pc' = pc
           \/ UNCHANGED <<step, at>> /\ pc' = [pc EXCEPT ![r] = "leaving"],
           written' = written
    PROVE  PastIndex'
<1> SUFFICES ASSUME NEW o \in Callers, pc'[o] = "running", step'[o] = 3, at'[o] >= 2
             PROVE  LifecycleIndex \in written
  BY DEF PastIndex
<1>1. /\ pc \in [Callers -> {"idle", "clearing", "locking", "running", "leaving"}]
      /\ at \in [Callers -> Nat]
  BY DEF TypeInv, TypeOK
<1>2. o # r /\ pc[o] = "running"
  BY <1>1 DEF GoTo
<1>3. step'[o] = step[o] /\ at'[o] = at[o]
  BY <1>2, MoveType
<1> QED
  BY <1>2, <1>3 DEF PastIndex

LEMMA IndexStep == TypeInv /\ IndexInv /\ [Next]_vars => IndexInv'
<1> SUFFICES ASSUME TypeInv, IndexInv, [Next]_vars
             PROVE  IndexInv'
  OBVIOUS
<1>0. /\ pc \in [Callers -> {"idle", "clearing", "locking", "running", "leaving"}]
      /\ disk \in Manifest /\ buf \in [Callers -> Manifest]
      /\ cache \in [Callers -> Manifest \cup {NoManifest}]
      /\ step \in [Callers -> 0 .. 11] /\ at \in [Callers -> Nat]
  BY TenSteps DEF TypeInv, TypeOK
<1>1. CASE UNCHANGED vars
  BY <1>1 DEF IndexInv, PastIndex, vars, locals
<1>2. CASE Expire
  BY <1>2 DEF IndexInv, PastIndex, Expire, locals
<1>3. ASSUME NEW r \in Callers, Construct(r)
      PROVE  IndexInv'
  BY <1>3, <1>0 DEF IndexInv, PastIndex, Construct, locals
<1>4. ASSUME NEW r \in Callers, Refused(r)
      PROVE  IndexInv'
  BY <1>4 DEF IndexInv, PastIndex, Refused, locals
<1>5. ASSUME NEW r \in Callers, LookAtLock(r)
      PROVE  IndexInv'
  BY <1>5, <1>0 DEF IndexInv, PastIndex, LookAtLock, locals
<1>6. ASSUME NEW r \in Callers, ClearLock(r)
      PROVE  IndexInv'
  BY <1>6, <1>0 DEF IndexInv, PastIndex, ClearLock, locals
<1>7. ASSUME NEW r \in Callers, TakeLockFails(r)
      PROVE  IndexInv'
  BY <1>7, <1>0 DEF IndexInv, PastIndex, TakeLockFails, Leave, locals
<1>8. ASSUME NEW r \in Callers, TakeLock(r)
      PROVE  IndexInv'
  <2>1. PastIndex'
    BY <1>8, <1>0 DEF IndexInv, PastIndex, TakeLock
  <2> QED
    BY <1>8, <2>1 DEF IndexInv, TakeLock
<1>9. ASSUME NEW r \in Callers, WriteArtifact(r)
      PROVE  IndexInv'
  <2>1. Busy(r) /\ OpDone(r) /\ pc' = pc
    BY <1>9 DEF WriteArtifact, Doing
  <2>2. PastIndex'
    BY <1>9, <2>1, PastIndexOp DEF IndexInv, WriteArtifact, Doing
  <2> QED
    BY <1>9, <2>2 DEF IndexInv, WriteArtifact
<1>10. ASSUME NEW r \in Callers, HashArtifact(r)
      PROVE  IndexInv'
  <2>1. Busy(r) /\ OpDone(r) /\ pc' = pc
    BY <1>10 DEF HashArtifact, Doing
  <2>2. PastIndex'
    BY <1>10, <2>1, PastIndexOp DEF IndexInv, HashArtifact, Doing
  <2> QED
    BY <1>10, <2>2 DEF IndexInv, HashArtifact
<1>11. ASSUME NEW r \in Callers, LoadManifest(r)
      PROVE  IndexInv'
  <2>1. Busy(r) /\ OpDone(r) /\ pc' = pc
    BY <1>11 DEF LoadManifest, Doing
  <2>2. PastIndex'
    BY <1>11, <2>1, PastIndexOp DEF IndexInv, LoadManifest, Doing
  <2>3. LifecycleIndex \in Op(r).paths => LifecycleIndex \in written
    <3> SUFFICES ASSUME LifecycleIndex \in Op(r).paths
                 PROVE  LifecycleIndex \in written
      OBVIOUS
    <3>1. REBUILD_ORDER[step[r]] = "lifecycle" /\ at[r] >= 2 /\ step[r] \in 1 .. 10
      BY <1>11, <2>1, OpShape DEF LoadManifest, Doing, Op, ScriptFits
    <3>2. step[r] = 3
      BY <3>1, OrderOfSteps
    <3> QED
      BY <2>1, <3>1, <3>2 DEF IndexInv, PastIndex, Busy
  <2>4. LifecycleIndex \in WithEntries(disk, Op(r).paths, seen[r]).paths =>
           LifecycleIndex \in written
    BY <1>0, <2>3, EntryNames, EmptyNames, EmptyType DEF IndexInv
  <2> QED
    BY <1>11, <1>0, <2>2, <2>4 DEF IndexInv, LoadManifest
<1>12. ASSUME NEW r \in Callers, LoadUnreadable(r)
      PROVE  IndexInv'
  <2>1. Busy(r) /\ OpDone(r) /\ pc' = pc
    BY <1>12 DEF LoadUnreadable, Doing
  <2>2. PastIndex'
    BY <1>12, <2>1, PastIndexOp DEF IndexInv, LoadUnreadable, Doing
  <2>3. LifecycleIndex \in Op(r).paths => LifecycleIndex \in written
    <3> SUFFICES ASSUME LifecycleIndex \in Op(r).paths
                 PROVE  LifecycleIndex \in written
      OBVIOUS
    <3>1. REBUILD_ORDER[step[r]] = "lifecycle" /\ at[r] >= 2 /\ step[r] \in 1 .. 10
      BY <1>12, <2>1, OpShape DEF LoadUnreadable, Doing, Op, ScriptFits
    <3>2. step[r] = 3
      BY <3>1, OrderOfSteps
    <3> QED
      BY <2>1, <3>1, <3>2 DEF IndexInv, PastIndex, Busy
  <2>4. LifecycleIndex \in WithEntries(EmptyManifest, Op(r).paths, seen[r]).paths =>
           LifecycleIndex \in written
    BY <1>0, <2>3, EntryNames, EmptyNames, EmptyType DEF IndexInv
  <2> QED
    BY <1>12, <1>0, <2>2, <2>4 DEF IndexInv, LoadUnreadable
<1>13. ASSUME NEW r \in Callers, SaveManifest(r)
      PROVE  IndexInv'
  <2>1. Busy(r) /\ OpDone(r) /\ pc' = pc
    BY <1>13 DEF SaveManifest, Doing
  <2>2. PastIndex'
    BY <1>13, <2>1, PastIndexOp DEF IndexInv, SaveManifest, Doing
  <2> QED
    BY <1>13, <1>0, <2>2, EmptyNames DEF IndexInv, SaveManifest, AdapterDone
<1>14. ASSUME NEW r \in Callers, VerifyPasses(r)
      PROVE  IndexInv'
  <2>1. Busy(r) /\ OpDone(r) /\ pc' = pc
    BY <1>14 DEF VerifyPasses, Doing
  <2>2. PastIndex'
    BY <1>14, <2>1, PastIndexOp DEF IndexInv, VerifyPasses, Doing
  <2> QED
    BY <1>14, <2>2 DEF IndexInv, VerifyPasses
<1>15. ASSUME NEW r \in Callers, VerifyFails(r)
      PROVE  IndexInv'
  <2>1. Busy(r) /\ Fail(r) /\ written' = written /\ disk' = disk /\ cache' = cache
    BY <1>15 DEF VerifyFails, Doing
  <2>2. pc[r] = "running" /\ step[r] \in 1 .. 10
    BY <2>1, OpShape DEF Busy
  <2>3. PastIndex'
    BY <2>1, <2>2, PastIndexNext DEF IndexInv, Fail
  <2>4. AdapterDone(r)
    BY <2>1 DEF Fail, GoTo
  <2> QED
    BY <1>0, <2>1, <2>3, <2>4, EmptyNames DEF IndexInv, AdapterDone
<1>16. ASSUME NEW r \in Callers, AdapterRaises(r)
      PROVE  IndexInv'
  <2>1. Busy(r) /\ Fail(r) /\ written' = written /\ disk' = disk /\ cache' = cache
    BY <1>16 DEF AdapterRaises
  <2>2. pc[r] = "running" /\ step[r] \in 1 .. 10
    BY <2>1, OpShape DEF Busy
  <2>3. PastIndex'
    BY <2>1, <2>2, PastIndexNext DEF IndexInv, Fail
  <2>4. AdapterDone(r)
    BY <2>1 DEF Fail, GoTo
  <2> QED
    BY <1>0, <2>1, <2>3, <2>4, EmptyNames DEF IndexInv, AdapterDone
<1>17. ASSUME NEW r \in Callers, SkipAdapter(r)
      PROVE  IndexInv'
  <2>1. /\ pc[r] = "running" /\ step[r] <= 10 /\ GoTo(r, step[r] + 1)
        /\ pc' = pc /\ written' = written /\ disk' = disk /\ cache' = cache
    BY <1>17, TenSteps DEF SkipAdapter
  <2>2. step[r] \in 1 .. 10
    BY <2>1, <1>0 DEF TypeInv, Started
  <2>3. PastIndex'
    BY <2>1, <2>2, PastIndexNext DEF IndexInv
  <2> QED
    BY <1>0, <2>1, <2>3, EmptyNames DEF IndexInv, GoTo, AdapterDone
<1>18. ASSUME NEW r \in Callers, FinalLoad(r)
      PROVE  IndexInv'
  BY <1>18, <1>0 DEF IndexInv, PastIndex, FinalLoad, locals
<1>19. ASSUME NEW r \in Callers, FinalLoadUnreadable(r)
      PROVE  IndexInv'
  BY <1>19, <1>0, EmptyNames DEF IndexInv, PastIndex, FinalLoadUnreadable, locals
<1>20. ASSUME NEW r \in Callers, FinalSave(r)
      PROVE  IndexInv'
  <2>1. PastIndex'
    BY <1>20, <1>0 DEF IndexInv, PastIndex, FinalSave, locals
  <2> QED
    BY <1>20, <1>0, <2>1 DEF IndexInv, FinalSave, locals
<1>21. ASSUME NEW r \in Callers, FinalSaveRaises(r)
      PROVE  IndexInv'
  BY <1>21, <1>0 DEF IndexInv, PastIndex, FinalSaveRaises, locals
<1>22. ASSUME NEW r \in Callers, Release(r)
      PROVE  IndexInv'
  <2>1. /\ CallDone(r) /\ Leave(r) /\ written' = written /\ disk' = disk
        /\ cache' = cache \/ cache' = [cache EXCEPT ![r] = NoManifest]
    BY <1>22 DEF Release
  <2>2. PastIndex'
    BY <1>0, <2>1 DEF IndexInv, PastIndex, CallDone, Leave
  <2> QED
    BY <1>0, <2>1, <2>2, EmptyNames DEF IndexInv, CallDone, AdapterDone
<1>23. ASSUME NEW r \in Callers, ReleaseFails(r)
      PROVE  IndexInv'
  <2>1. /\ CallDone(r) /\ Leave(r) /\ written' = written /\ disk' = disk
        /\ cache' = cache \/ cache' = [cache EXCEPT ![r] = NoManifest]
    BY <1>23 DEF ReleaseFails
  <2>2. PastIndex'
    BY <1>0, <2>1 DEF IndexInv, PastIndex, CallDone, Leave
  <2> QED
    BY <1>0, <2>1, <2>2, EmptyNames DEF IndexInv, CallDone, AdapterDone
<1>24. ASSUME NEW r \in Callers, Crash(r)
      PROVE  IndexInv'
  <2>1. /\ CallDone(r) /\ Leave(r) /\ written' = written /\ disk' = disk
        /\ cache' = cache \/ cache' = [cache EXCEPT ![r] = NoManifest]
    BY <1>24 DEF Crash
  <2>2. PastIndex'
    BY <1>0, <2>1 DEF IndexInv, PastIndex, CallDone, Leave
  <2> QED
    BY <1>0, <2>1, <2>2, EmptyNames DEF IndexInv, CallDone, AdapterDone
<1> QED
  BY <1>1, <1>2, <1>3, <1>4, <1>5, <1>6, <1>7, <1>8, <1>9, <1>10, <1>11, <1>12, <1>13, <1>14, <1>15, <1>16, <1>17, <1>18, <1>19, <1>20, <1>21, <1>22, <1>23, <1>24, NextCases

\* No copy of the manifest names a lifecycle index that was never written, however many
\* callers rebuild, overtake one another, fail and die.
THEOREM IndexIsWritten == Spec => []IndexRegisteredAfterWritten
<1>1. Init => IndexInv
  BY EmptyNames DEF Init, IndexInv, PastIndex
<1>2. TypeInv /\ IndexInv => IndexRegisteredAfterWritten
  BY DEF IndexInv, IndexRegisteredAfterWritten, Copies
<1> QED
  BY <1>1, <1>2, InitType, StepType, IndexStep, PTL DEF Spec

-----------------------------------------------------------------------------
(* Registrations are kept.                                                 *)

\* What a rebuild is about to save covers the manifest on disk: an adapter's copy after
\* its load, the orchestrator's own after the last adapter.
Covers(r) ==
    /\ Doing(r, "save") => disk.paths \subseteq buf[r].paths
    /\ cache[r] # NoManifest => step[r] > 10 /\ disk.paths \subseteq cache[r].paths

KeepInv ==
    ~raced /\ unreadable = 0 =>
        \A r \in Callers : pc[r] = "running" /\ call[r].fresh => Covers(r)

\* No adapter begins with a save.
LEMMA NoSaveFirst ==
    ASSUME TypeInv, NEW r \in Callers, call' = call \/ call'[r].chapter \in Chapter,
           at'[r] = 1, step'[r] \in 1 .. 11
    PROVE  ~Doing(r, "save")'
<1> SUFFICES ASSUME Doing(r, "save")'
             PROVE  FALSE
  OBVIOUS
<1>1. step'[r] \in 1 .. 10 /\ call'[r].chapter \in Chapter
  <2>1. call[r].chapter \in Chapter
    BY DEF TypeInv, TypeOK, Chapter
  <2>2. step'[r] <= 10
    BY TenSteps DEF Doing, Busy
  <2> QED
    BY <2>1, <2>2
<1>2. ScriptFits(StepScript(r)', REBUILD_ORDER[step'[r]])
  BY <1>1, OrderOfSteps, ScriptShape DEF StepScript
<1>3. 1 \in 1 .. Len(StepScript(r)') /\ StepScript(r)'[1].does = "save"
  BY <1>2 DEF Doing, Busy, Op, ScriptFits
<1> QED
  BY <1>2, <1>3 DEF ScriptFits

\* An operation that is not a save comes next, unless a load was just done.
LEMMA NoSaveNext ==
    ASSUME TypeInv, NEW r \in Callers, Busy(r), OpDone(r), pc' = pc, call' = call,
           Op(r).does # "load"
    PROVE  ~Doing(r, "save")'
<1>0. /\ step[r] \in 1 .. 10 /\ at[r] \in 1 .. Len(StepScript(r))
      /\ ScriptFits(StepScript(r), REBUILD_ORDER[step[r]])
      /\ step \in [Callers -> 0 .. 11] /\ at \in [Callers -> Nat]
      /\ call[r].chapter \in Chapter
  BY OpShape, TenSteps DEF TypeInv, TypeOK, Chapter
<1>1. CASE at[r] < Len(StepScript(r))
  <2>1. at'[r] = at[r] + 1 /\ step'[r] = step[r]
    BY <1>0, <1>1 DEF OpDone
  <2>2. StepScript(r)' = StepScript(r)
    BY <2>1 DEF StepScript
  <2>3. Op(r)' = StepScript(r)[at[r] + 1]
    BY <2>1, <2>2 DEF Op
  <2>4. StepScript(r)[at[r] + 1].does = "save" => StepScript(r)[at[r]].does = "load"
    <3>1. at[r] + 1 \in 1 .. Len(StepScript(r)) /\ (at[r] + 1) - 1 = at[r]
      BY <1>0, <1>1 DEF ScriptFits
    <3> QED
      BY <1>0, <3>1 DEF ScriptFits
  <2> QED
    BY <2>3, <2>4 DEF Doing, Op
<1>2. CASE ~(at[r] < Len(StepScript(r)))
  <2>1. at'[r] = 1 /\ step'[r] = step[r] + 1
    BY <1>0, <1>2 DEF OpDone
  <2> QED
    BY <1>0, <2>1, NoSaveFirst
<1> QED
  BY <1>1, <1>2

LEMMA KeepStep == TypeInv /\ LockInv /\ KeepInv /\ [Next]_vars => KeepInv'
<1> SUFFICES ASSUME TypeInv, LockInv, KeepInv, [Next]_vars, ~raced', unreadable' = 0,
                    NEW o \in Callers, pc'[o] = "running", call'[o].fresh
             PROVE  Covers(o)'
  BY DEF KeepInv
<1>0. /\ pc \in [Callers -> {"idle", "clearing", "locking", "running", "leaving"}]
      /\ disk \in Manifest /\ buf \in [Callers -> Manifest]
      /\ cache \in [Callers -> Manifest \cup {NoManifest}]
      /\ step \in [Callers -> 0 .. 11] /\ at \in [Callers -> Nat]
      /\ unreadable \in Nat
  BY TenSteps DEF TypeInv, TypeOK
\* A step that leaves everything o's rebuild looks at keeps Covers.
<1>a. ASSUME ~raced, unreadable = 0, pc[o] = "running",
             call'[o] = call[o], step'[o] = step[o], at'[o] = at[o],
             buf'[o] = buf[o], cache'[o] = cache[o], disk' = disk
      PROVE  Covers(o)'
  <2>1. Covers(o)
    BY <1>a DEF KeepInv
  <2>2. Doing(o, "save")' = Doing(o, "save")
    BY <1>a DEF Doing, Busy, Op, StepScript
  <2> QED
    BY <1>a, <2>1, <2>2 DEF Covers
\* A caller that has entered is alone.
<1>b. ASSUME NEW r \in Callers, Entered(r), ~raced, pc[o] = "running"
      PROVE  o = r
  BY <1>b DEF LockInv, Entered, Inside
<1>1. CASE UNCHANGED vars
  BY <1>1, <1>a DEF vars, locals, bounds
<1>2. CASE Expire
  BY <1>2, <1>a DEF Expire, locals, bounds
<1>3. ASSUME NEW r \in Callers, Construct(r) \/ Refused(r) \/ LookAtLock(r)
      PROVE  Covers(o)'
  <2>1. /\ ~raced /\ unreadable = 0 /\ UNCHANGED <<locals, disk, buf>>
        /\ cache' = cache \/ cache' = [cache EXCEPT ![r] = NoManifest]
        /\ pc[r] = "idle" /\ (pc' = pc \/ pc'[r] # "running")
        /\ \A q \in Callers : q # r => pc'[q] = pc[q]
    <3>1. CASE Construct(r)
      BY <3>1 DEF Construct, locals, bounds
    <3>2. CASE Refused(r)
      BY <3>2 DEF Refused, locals, bounds
    <3>3. CASE LookAtLock(r)
      BY <1>0, <3>3 DEF LookAtLock, locals, bounds
    <3> QED
      BY <1>3, <3>1, <3>2, <3>3
  <2>2. o # r /\ pc[o] = "running" /\ cache'[o] = cache[o]
    BY <1>0, <2>1
  <2> QED
    BY <1>a, <2>1, <2>2 DEF locals
<1>4. ASSUME NEW r \in Callers,
             \/ ClearLock(r) \/ TakeLockFails(r)
             \/ Release(r) \/ ReleaseFails(r) \/ Crash(r)
      PROVE  Covers(o)'
  <2>1. ~raced /\ Entered(r) /\ pc'[r] # "running"
        /\ \A q \in Callers : q # r => pc'[q] = pc[q]
    <3>1. CASE ClearLock(r)
      BY <1>0, <3>1 DEF ClearLock, Entered, Acquiring
    <3>2. CASE TakeLockFails(r)
      BY <1>0, <3>2 DEF TakeLockFails, Leave, Entered, Acquiring
    <3>3. CASE Release(r)
      BY <1>0, <3>3 DEF Release, Leave, Entered, Inside
    <3>4. CASE ReleaseFails(r)
      BY <1>0, <3>4 DEF ReleaseFails, Leave, Entered, Inside
    <3>5. CASE Crash(r)
      BY <1>0, <3>5 DEF Crash, Leave, Entered, Inside, Acquiring
    <3> QED
      BY <1>4, <3>1, <3>2, <3>3, <3>4, <3>5
  <2> QED
    BY <1>b, <2>1
<1>5. ASSUME NEW r \in Callers, TakeLock(r)
      PROVE  Covers(o)'
  <2>1. ~raced /\ Entered(r) /\ \A q \in Callers : q # r => pc'[q] = pc[q]
    BY <1>0, <1>5 DEF TakeLock, Entered, Acquiring
  <2>2. o = r
    BY <1>b, <2>1
  <2>3. /\ at'[r] = 1 /\ step'[r] = 1 /\ cache' = cache
        /\ call'[r].fresh <=> cache[r] = NoManifest
    <3>1. PICK q \in Requests :
              call' = [call EXCEPT ![r] = [id |-> calls + 1,
                                           chapter |-> q.chapter, active |-> q.active,
                                           fresh |-> cache[r] = NoManifest]]
      BY <1>5 DEF TakeLock
    <3>2. call'[r].fresh <=> cache[r] = NoManifest
      BY <3>1 DEF TypeInv, TypeOK
    <3> QED
      BY <1>0, <1>5, <3>2 DEF TakeLock
  <2>4. call'[r].chapter \in Chapter
    BY <1>5, StepType DEF TypeInv, TypeOK, Chapter
  <2>5. at'[o] = 1 /\ step'[o] = 1 /\ call'[o].chapter \in Chapter
    BY <2>2, <2>3, <2>4
  <2>6. ~Doing(o, "save")'
    BY <2>5, NoSaveFirst
  <2>7. cache'[o] = NoManifest
    BY <2>2, <2>3
  <2> QED
    BY <2>6, <2>7 DEF Covers
<1>6. ASSUME Works(o)
      PROVE  Covers(o)'
  <2>0. /\ ~raced /\ pc[o] = "running" /\ call[o].fresh /\ call' = call
        /\ unreadable = 0 => Covers(o)
    BY <1>6, WorkStays DEF KeepInv
  <2>a. Busy(o) /\ unreadable = 0 => cache[o] = NoManifest /\ step[o] \in 1 .. 10
    BY <2>0, OpShape DEF Covers
  <2>1. CASE WriteArtifact(o)
    <3>1. /\ Busy(o) /\ OpDone(o) /\ Op(o).does # "load"
          /\ pc' = pc /\ cache' = cache /\ unreadable = 0
      BY <2>1 DEF WriteArtifact, Doing, bounds
    <3>2. ~Doing(o, "save")'
      BY <2>0, <3>1, NoSaveNext
    <3> QED
      BY <2>a, <3>1, <3>2 DEF Covers
  <2>2. CASE HashArtifact(o)
    <3>1. /\ Busy(o) /\ OpDone(o) /\ Op(o).does # "load"
          /\ pc' = pc /\ cache' = cache /\ unreadable = 0
      BY <2>2 DEF HashArtifact, Doing, bounds
    <3>2. ~Doing(o, "save")'
      BY <2>0, <3>1, NoSaveNext
    <3> QED
      BY <2>a, <3>1, <3>2 DEF Covers
  <2>3. CASE VerifyPasses(o)
    <3>1. /\ Busy(o) /\ OpDone(o) /\ Op(o).does # "load"
          /\ pc' = pc /\ cache' = cache /\ unreadable = 0
      BY <2>3 DEF VerifyPasses, Doing, bounds
    <3>2. ~Doing(o, "save")'
      BY <2>0, <3>1, NoSaveNext
    <3> QED
      BY <2>a, <3>1, <3>2 DEF Covers
  <2>4. CASE SaveManifest(o)
    <3>1. /\ Busy(o) /\ OpDone(o) /\ Op(o).does # "load"
          /\ pc' = pc /\ cache' = cache /\ unreadable = 0
      BY <2>4 DEF SaveManifest, Doing, bounds
    <3>2. ~Doing(o, "save")'
      BY <2>0, <3>1, NoSaveNext
    <3> QED
      BY <2>a, <3>1, <3>2 DEF Covers
  <2>5. CASE LoadManifest(o)
    <3>1. /\ Busy(o) /\ unreadable = 0 /\ cache' = cache /\ disk' = disk
          /\ buf'[o] = WithEntries(disk, Op(o).paths, seen[o])
      BY <1>0, <2>5 DEF LoadManifest, Doing, bounds
    <3>2. disk.paths \subseteq buf'[o].paths
      BY <1>0, <3>1, EntryNames
    <3> QED
      BY <2>a, <3>1, <3>2 DEF Covers
  <2>6. CASE LoadUnreadable(o) \/ FinalLoadUnreadable(o)
    BY <1>0, <2>6 DEF LoadUnreadable, FinalLoadUnreadable, Unreadable
  <2>7. CASE VerifyFails(o)
    <3>1. step[o] \in 1 .. 10 /\ cache[o] = NoManifest /\ cache' = cache
      BY <2>7, <2>a DEF VerifyFails, Doing, bounds
    <3>2. at'[o] = 1 /\ step'[o] = step[o] + 1
      BY <1>0, <2>7 DEF VerifyFails, Fail, GoTo
    <3>3. ~Doing(o, "save")'
      BY <2>0, <3>1, <3>2, NoSaveFirst
    <3> QED
      BY <3>1, <3>3 DEF Covers
  <2>8. CASE AdapterRaises(o)
    <3>1. step[o] \in 1 .. 10 /\ cache[o] = NoManifest /\ cache' = cache
      BY <2>8, <2>a DEF AdapterRaises, Fault
    <3>2. at'[o] = 1 /\ step'[o] = step[o] + 1
      BY <1>0, <2>8 DEF AdapterRaises, Fail, GoTo
    <3>3. ~Doing(o, "save")'
      BY <2>0, <3>1, <3>2, NoSaveFirst
    <3> QED
      BY <3>1, <3>3 DEF Covers
  <2>9. CASE SkipAdapter(o)
    <3>1. step[o] \in 1 .. 10 /\ cache[o] = NoManifest /\ cache' = cache
      <4>1. step[o] <= 10 /\ unreadable = 0 /\ cache' = cache
        BY <2>9, TenSteps DEF SkipAdapter, bounds
      <4>2. step[o] >= 1
        BY <2>0 DEF TypeInv, Started
      <4> QED
        BY <1>0, <2>0, <4>1, <4>2 DEF Covers
    <3>2. at'[o] = 1 /\ step'[o] = step[o] + 1
      BY <1>0, <2>9 DEF SkipAdapter, GoTo
    <3>3. ~Doing(o, "save")'
      BY <2>0, <3>1, <3>2, NoSaveFirst
    <3> QED
      BY <3>1, <3>3 DEF Covers
  <2>10. CASE FinalLoad(o)
    <3>1. /\ step[o] > 10 /\ step'[o] = step[o]
          /\ cache'[o] = disk /\ disk' = disk
      BY <1>0, <2>10, TenSteps DEF FinalLoad, Finishing, locals
    <3>2. ~Doing(o, "save")'
      <4>1. ~(step'[o] <= 10)
        BY <1>0, <3>1
      <4> QED
        BY <4>1, TenSteps DEF Doing, Busy
    <3> QED
      BY <3>1, <3>2 DEF Covers
  <2>11. CASE FinalSave(o) \/ FinalSaveRaises(o)
    BY <1>0, <2>11 DEF FinalSave, FinalSaveRaises
  <2> QED
    BY <1>6, <2>1, <2>2, <2>3, <2>4, <2>5, <2>6, <2>7, <2>8, <2>9, <2>10, <2>11
       DEF Works, Adapt
<1>7. ASSUME NEW r \in Callers, Works(r)
      PROVE  Covers(o)'
  <2>1. ~raced /\ Entered(r) /\ \A q \in Callers : q # r => pc'[q] = pc[q]
    BY <1>7, WorkStays DEF Entered, Inside
  <2>2. o = r
    BY <1>b, <2>1
  <2> QED
    BY <1>6, <1>7, <2>2
<1> QED
  BY <1>1, <1>2, <1>3, <1>4, <1>5, <1>7, WorkCases

LEMMA InitKeep == Init => KeepInv
  BY DEF Init, KeepInv

\* A step of calm rebuilds does not take a registration off the manifest.
LEMMA KeepsPaths ==
    ASSUME TypeInv, KeepInv, [Next]_vars, Calm
    PROVE  disk.paths \subseteq disk'.paths
<1>1. \A r \in Callers : pc[r] = "running" => Covers(r)
  BY DEF KeepInv, Calm, Inside
<1>2. CASE UNCHANGED vars
  BY <1>2 DEF vars
<1>3. CASE Expire
  BY <1>3 DEF Expire
<1>4. ASSUME NEW r \in Callers, SaveManifest(r)
      PROVE  disk.paths \subseteq disk'.paths
  BY <1>1, <1>4 DEF SaveManifest, Covers, Doing, Busy
<1>5. ASSUME NEW r \in Callers, FinalSave(r)
      PROVE  disk.paths \subseteq disk'.paths
  BY <1>1, <1>5 DEF FinalSave, Finishing, Covers
<1>6. ASSUME NEW r \in Callers,
             \/ Construct(r) \/ Refused(r) \/ LookAtLock(r) \/ ClearLock(r)
             \/ TakeLock(r) \/ TakeLockFails(r)
      PROVE  disk' = disk
  BY <1>6 DEF Construct, Refused, LookAtLock, ClearLock, TakeLock, TakeLockFails
<1>7. ASSUME NEW r \in Callers,
             \/ WriteArtifact(r) \/ HashArtifact(r) \/ LoadManifest(r)
             \/ LoadUnreadable(r) \/ VerifyPasses(r) \/ VerifyFails(r)
             \/ AdapterRaises(r) \/ SkipAdapter(r)
      PROVE  disk' = disk
  BY <1>7 DEF WriteArtifact, HashArtifact, LoadManifest, LoadUnreadable, VerifyPasses,
              VerifyFails, AdapterRaises, SkipAdapter
<1>8. ASSUME NEW r \in Callers,
             \/ FinalLoad(r) \/ FinalLoadUnreadable(r) \/ FinalSaveRaises(r)
             \/ Release(r) \/ ReleaseFails(r) \/ Crash(r)
      PROVE  disk' = disk
  BY <1>8 DEF FinalLoad, FinalLoadUnreadable, FinalSaveRaises, Release, ReleaseFails, Crash
<1> QED
  BY <1>2, <1>3, <1>4, <1>5, <1>6, <1>7, <1>8, NextCases

\* Calm rebuilds keep what is registered, for any number of callers and chapters and
\* wherever they fail or die.
THEOREM RegistrationsAreKept == Spec => RegistrationsKept
<1>1. TypeInv /\ KeepInv /\ [Next]_vars => [Calm => disk.paths \subseteq disk'.paths]_vars
  BY KeepsPaths
<1> QED
  BY <1>1, InitType, StepType, InitLock, LockStep, InitKeep, KeepStep, PTL
     DEF Spec, RegistrationsKept

-----------------------------------------------------------------------------
(* A success is complete.                                                  *)

\* The operations of a script that put entries into a copy of the manifest.
Loads(sc) == {i \in 1 .. Len(sc) : sc[i].does = "load"}

\* Every adapter saves what it has registered at once; and the lifecycle index is what the
\* lifecycle adapter writes, and nobody else.
ScriptSaves(sc, s) ==
    /\ \A i \in Loads(sc) : i + 1 \in 1 .. Len(sc) /\ sc[i + 1].does = "save"
    /\ s = "lifecycle" => sc = LifecycleScript
    /\ s # "lifecycle" => \A i \in 1 .. Len(sc) : LifecycleIndex \notin sc[i].paths

\* What the adapters behind r have registered is in the manifest on disk, and so is what
\* its present adapter has saved; what the adapter has just registered is in its copy.
BehindIsSaved(r) ==
    /\ \A k \in 1 .. 10 : k < step[r] =>
          LET sc == Script(REBUILD_ORDER[k], call[r].chapter)
          IN  \A i \in Loads(sc) : sc[i].paths \subseteq disk.paths
    /\ step[r] <= 10 => \A i \in Loads(StepScript(r)) :
          /\ i + 1 < at[r] => StepScript(r)[i].paths \subseteq disk.paths
          /\ i + 1 = at[r] => StepScript(r)[i].paths \subseteq buf[r].paths

\* From the lifecycle adapter on, the hash it computed, its copy, the manifest on disk and
\* every later copy of that describe the index on disk.
HashIsRight(r) ==
    /\ step[r] = 3 /\ at[r] = 3 => seen[r] = index
    /\ step[r] = 3 /\ at[r] = 4 => buf[r].hash = index
    /\ step[r] > 3 => disk.hash = index
    /\ step[r] > 3 /\ step[r] <= 10 =>
          \A i \in Loads(StepScript(r)) : i + 1 = at[r] => buf[r].hash = index
    /\ step[r] > 3 /\ cache[r] # NoManifest => cache[r].hash = index

Complete(r) ==
    /\ pc[r] = "running" /\ failed[r] = {} => BehindIsSaved(r) /\ HashIsRight(r)
    /\ pc[r] = "leaving" /\ result[r] = "success" =>
          /\ Registers(call[r].chapter) \subseteq disk.paths
          /\ disk.hash = index

CompleteInv ==
    ~raced /\ unreadable = 0 => \A r \in Callers : call[r].fresh => Complete(r)

LEMMA ScriptSavesAll ==
    ASSUME NEW s \in Steps, NEW c \in Chapter
    PROVE  ScriptSaves(Script(s, c), s)
<1>1. CASE Script(s, c) = <<>> /\ s # "lifecycle"
  BY <1>1 DEF ScriptSaves, Loads
<1> USE DEF ScriptSaves, Loads, Script, AdapterScript, ChapterSteps, LifecycleIndex,
            Publish, Announce, Write, HashIt, Register, Save, VerifyIt, GraphScript,
            DriftScript, ArcPlanScript, BeatPlanScript, TraceScript,
            StructuredAuditScript, SummaryScript, Summary, CheckedReport, ArcPlan,
            HealthReport, BeatPlan, AuditReport
<1>2. CASE s = "summary" /\ c \in Chapters
  BY <1>2
<1>3. CASE s = "graph"
  BY <1>3
<1>4. CASE s = "lifecycle"
  <2>1. Script(s, c) = LifecycleScript
    BY <1>4
  <2>2. \A i \in Loads(LifecycleScript) :
            i + 1 \in 1 .. Len(LifecycleScript) /\ LifecycleScript[i + 1].does = "save"
    BY DEF LifecycleScript
  <2> QED
    BY <1>4, <2>1, <2>2
<1>5. CASE s = "drift" /\ c \in Chapters
  BY <1>5
<1>6. CASE s = "arc_plan"
  BY <1>6
<1>7. CASE s = "beat_plan" /\ c \in Chapters
  BY <1>7
<1>8. CASE s = "trace" /\ c \in Chapters
  BY <1>8
<1>9. CASE s = "structured_audit" /\ c \in Chapters
  BY <1>9
<1>10. CASE s = "calibration"
  BY <1>10
<1>11. CASE s = "manifest_verification"
  BY <1>11
<1> QED
  BY <1>1, <1>2, <1>3, <1>4, <1>5, <1>6, <1>7, <1>8, <1>9, <1>10, <1>11, OrderOfSteps
     DEF Chapter

\* An operation of an adapter that is not the last one, and the last one.
LEMMA OpMoves ==
    ASSUME TypeInv, NEW r \in Callers, Busy(r), OpDone(r)
    PROVE  /\ step[r] \in 1 .. 10 /\ at[r] \in 1 .. Len(StepScript(r))
           /\ Len(StepScript(r)) \in Nat
           /\ ScriptSaves(StepScript(r), REBUILD_ORDER[step[r]])
           /\ \/ at'[r] = at[r] + 1 /\ step'[r] = step[r] /\ at[r] < Len(StepScript(r))
              \/ at'[r] = 1 /\ step'[r] = step[r] + 1 /\ at[r] = Len(StepScript(r))
<1>1. /\ step[r] \in 1 .. 10 /\ at[r] \in 1 .. Len(StepScript(r))
      /\ Len(StepScript(r)) \in Nat /\ REBUILD_ORDER[step[r]] \in Steps
  BY OpShape
<1>2. call[r].chapter \in Chapter
  BY DEF TypeInv, TypeOK, Chapter
<1>3. ScriptSaves(StepScript(r), REBUILD_ORDER[step[r]])
  BY <1>1, <1>2, ScriptSavesAll DEF StepScript
<1>4. step \in [Callers -> 0 .. 11] /\ at \in [Callers -> Nat]
  BY TenSteps DEF TypeInv, TypeOK
<1>5. CASE at[r] < Len(StepScript(r))
  BY <1>1, <1>3, <1>4, <1>5 DEF OpDone
<1>6. CASE ~(at[r] < Len(StepScript(r)))
  <2>1. at[r] = Len(StepScript(r))
    BY <1>1, <1>6
  <2>2. at'[r] = 1 /\ step'[r] = step[r] + 1
    BY <1>4, <1>6 DEF OpDone
  <2> QED
    BY <1>1, <1>3, <2>1, <2>2
<1> QED
  BY <1>5, <1>6

\* Once an operation is done, what a load has put into the copy and a save onto the disk
\* is what the next operation calls for.
LEMMA OpSaves ==
    ASSUME TypeInv, NEW r \in Callers, Busy(r), OpDone(r), BehindIsSaved(r),
           call' = call, disk.paths \subseteq disk'.paths,
           Op(r).does = "load" => Op(r).paths \subseteq buf'[r].paths,
           Op(r).does = "save" => buf[r].paths \subseteq disk'.paths
    PROVE  BehindIsSaved(r)'
<1> DEFINE sc == StepScript(r)
<1>1. /\ step[r] \in 1 .. 10 /\ at[r] \in 1 .. Len(sc) /\ Len(sc) \in Nat
      /\ ScriptSaves(sc, REBUILD_ORDER[step[r]])
  BY OpMoves
<1>2. ASSUME NEW i \in Loads(sc), i + 1 <= at[r]
      PROVE  sc[i].paths \subseteq disk'.paths
  <2>1. i \in 1 .. Len(sc) /\ sc[i + 1].does = "save"
    BY <1>1 DEF ScriptSaves, Loads
  <2>2. CASE i + 1 < at[r]
    BY <1>1, <2>2 DEF BehindIsSaved
  <2>3. CASE i + 1 = at[r]
    <3>1. Op(r).does = "save"
      BY <2>1, <2>3 DEF Op
    <3>2. sc[i].paths \subseteq buf[r].paths
      BY <1>1, <2>3 DEF BehindIsSaved
    <3> QED
      BY <3>1, <3>2
  <2> QED
    BY <1>1, <1>2, <2>1, <2>2, <2>3
<1>3. ASSUME NEW k \in 1 .. 10, k < step[r],
             NEW i \in Loads(Script(REBUILD_ORDER[k], call[r].chapter))
      PROVE  Script(REBUILD_ORDER[k], call[r].chapter)[i].paths \subseteq disk'.paths
  BY <1>3 DEF BehindIsSaved
<1>4. CASE at'[r] = at[r] + 1 /\ step'[r] = step[r] /\ at[r] < Len(sc)
  <2>1. StepScript(r)' = sc
    BY <1>4 DEF StepScript
  <2>2. ASSUME NEW i \in Loads(sc)
        PROVE  /\ i + 1 < at'[r] => sc[i].paths \subseteq disk'.paths
               /\ i + 1 = at'[r] => sc[i].paths \subseteq buf'[r].paths
    <3>1. i \in 1 .. Len(sc) /\ sc[i].does = "load"
      BY DEF Loads
    <3>2. i + 1 < at'[r] => i + 1 <= at[r]
      BY <1>1, <1>4, <3>1
    <3>3. i + 1 = at'[r] => i = at[r]
      BY <1>1, <1>4, <3>1
    <3>4. i = at[r] => sc[i].paths \subseteq buf'[r].paths
      BY <3>1 DEF Op
    <3> QED
      BY <1>2, <3>2, <3>3, <3>4
  <2>3. StepScript(r)' = StepScript(r)
    BY <2>1
  <2> HIDE DEF sc
  <2> QED
    BY <1>3, <1>4, <2>1, <2>2 DEF BehindIsSaved
<1>5. CASE at'[r] = 1 /\ step'[r] = step[r] + 1 /\ at[r] = Len(sc)
  <2>1. ASSUME NEW k \in 1 .. 10, k < step'[r],
               NEW i \in Loads(Script(REBUILD_ORDER[k], call[r].chapter))
        PROVE  Script(REBUILD_ORDER[k], call[r].chapter)[i].paths \subseteq disk'.paths
    <3>1. k < step[r] \/ k = step[r]
      BY <1>1, <1>5, <2>1
    <3>2. CASE k = step[r]
      <4>1. Script(REBUILD_ORDER[k], call[r].chapter) = sc
        BY <3>2 DEF StepScript
      <4>2. i + 1 <= at[r]
        BY <1>1, <1>5, <2>1, <4>1 DEF ScriptSaves
      <4> QED
        BY <1>2, <2>1, <4>1, <4>2
    <3> QED
      BY <1>3, <2>1, <3>1, <3>2
  <2>2. ASSUME NEW i \in Loads(StepScript(r)')
        PROVE  ~(i + 1 < at'[r]) /\ i + 1 # at'[r]
    <3>1. i \in Nat /\ i >= 1
      BY DEF Loads
    <3> QED
      BY <1>5, <3>1
  <2> QED
    BY <2>1, <2>2 DEF BehindIsSaved
<1> QED
  BY <1>4, <1>5, OpMoves

\* What an operation does to the index, the manifest and the copies.
OpEffect(r) ==
    \/ /\ Op(r).does = "write" /\ UNCHANGED <<disk, buf, seen>>
       /\ LifecycleIndex \notin Op(r).paths => index' = index
    \/ Op(r).does = "hash" /\ seen'[r] = index /\ UNCHANGED <<disk, buf, index>>
    \/ /\ Op(r).does = "load" /\ UNCHANGED <<disk, seen, index>>
       /\ buf'[r] = WithEntries(disk, Op(r).paths, seen[r])
    \/ Op(r).does = "save" /\ disk' = buf[r] /\ UNCHANGED index
    \/ Op(r).does = "verify" /\ UNCHANGED <<disk, buf, seen, index>>

\* The lifecycle adapter, operation by operation.
LEMMA LifecycleOps ==
    /\ Len(LifecycleScript) = 4
    /\ LifecycleScript[1].does = "write" /\ LifecycleScript[2].does = "hash"
    /\ LifecycleScript[3].does = "load" /\ LifecycleScript[4].does = "save"
    /\ LifecycleScript[3].paths = {LifecycleIndex}
  BY DEF LifecycleScript, Write, HashIt, Register, Save

LEMMA OpKeepsHash ==
    ASSUME TypeInv, NEW r \in Callers, Busy(r), OpDone(r), HashIsRight(r), OpEffect(r),
           cache[r] = NoManifest, UNCHANGED <<call, cache>>
    PROVE  HashIsRight(r)'
<1> DEFINE sc == StepScript(r)
<1>1. /\ step[r] \in 1 .. 10 /\ at[r] \in 1 .. Len(sc) /\ Len(sc) \in Nat
      /\ ScriptSaves(sc, REBUILD_ORDER[step[r]])
      /\ \/ at'[r] = at[r] + 1 /\ step'[r] = step[r] /\ at[r] < Len(sc)
         \/ at'[r] = 1 /\ step'[r] = step[r] + 1 /\ at[r] = Len(sc)
  BY OpMoves
<1>2. ASSUME NEW i \in Loads(StepScript(r)'), at'[r] = 1
      PROVE  i + 1 # at'[r]
  <2>1. i \in Nat /\ i >= 1
    BY DEF Loads
  <2> QED
    BY <1>2, <2>1
<1>3. CASE step[r] < 3
  <2>1. ~(step'[r] > 3) /\ (step'[r] = 3 => at'[r] = 1)
    BY <1>1, <1>3
  <2> QED
    BY <2>1 DEF HashIsRight
<1>4. CASE step[r] = 3
  <2>1. REBUILD_ORDER[step[r]] = "lifecycle"
    BY <1>4, OrderOfSteps
  <2>2. sc = LifecycleScript
    BY <1>1, <2>1 DEF ScriptSaves
  <2>3. at[r] \in {1, 2, 3, 4} /\ Len(sc) = 4 /\ Op(r) = LifecycleScript[at[r]]
    BY <1>1, <2>2, LifecycleOps DEF Op
  <2>4. CASE at[r] = 1
    BY <1>1, <1>4, <2>3, <2>4 DEF HashIsRight
  <2>5. CASE at[r] = 2
    <3>1. seen'[r] = index' /\ at'[r] = 3 /\ step'[r] = 3
      BY <1>1, <1>4, <2>3, <2>5, LifecycleOps DEF OpEffect
    <3> QED
      BY <3>1 DEF HashIsRight
  <2>6. CASE at[r] = 3
    <3>1. at'[r] = 4 /\ step'[r] = 3 /\ seen[r] = index
      BY <1>1, <1>4, <2>3, <2>6 DEF HashIsRight
    <3>2. buf'[r] = WithEntries(disk, {LifecycleIndex}, seen[r]) /\ index' = index
      BY <2>3, <2>6, LifecycleOps DEF OpEffect
    <3>3. buf'[r].hash = index'
      BY <3>1, <3>2 DEF WithEntries
    <3> QED
      BY <3>1, <3>3 DEF HashIsRight
  <2>7. CASE at[r] = 4
    <3>1. at'[r] = 1 /\ step'[r] = 4 /\ buf[r].hash = index
      BY <1>1, <1>4, <2>3, <2>7 DEF HashIsRight
    <3>2. disk' = buf[r] /\ index' = index
      BY <2>3, <2>7, LifecycleOps DEF OpEffect
    <3> QED
      BY <1>2, <3>1, <3>2 DEF HashIsRight
  <2> QED
    BY <2>3, <2>4, <2>5, <2>6, <2>7
<1>5. CASE step[r] > 3
  <2>1. REBUILD_ORDER[step[r]] # "lifecycle"
    BY <1>1, <1>5, OrderOfSteps
  <2>2. LifecycleIndex \notin Op(r).paths
    BY <1>1, <2>1 DEF ScriptSaves, Op
  <2>3. disk.hash = index
    BY <1>5 DEF HashIsRight
  <2>4. index' = index
    BY <2>2 DEF OpEffect
  <2>5. disk'.hash = index
    <3>1. CASE Op(r).does = "save"
      <4>1. \E i \in Loads(sc) : i + 1 = at[r]
        <5>1. at[r] > 1 /\ sc[at[r] - 1].does = "load"
          BY <3>1, OpShape DEF ScriptFits, Op
        <5>2. at[r] - 1 \in Loads(sc) /\ (at[r] - 1) + 1 = at[r]
          BY <1>1, <5>1 DEF Loads
        <5> QED
          BY <5>2
      <4>2. buf[r].hash = index
        BY <1>1, <1>5, <4>1 DEF HashIsRight
      <4> QED
        BY <3>1, <4>2 DEF OpEffect
    <3>2. CASE Op(r).does # "save"
      BY <2>3, <3>2 DEF OpEffect
    <3> QED
      BY <3>1, <3>2
  <2>6. ASSUME NEW i \in Loads(StepScript(r)'), i + 1 = at'[r]
        PROVE  buf'[r].hash = index
    <3>1. at'[r] = at[r] + 1 /\ step'[r] = step[r]
      BY <1>1, <1>2, <2>6
    <3>2. StepScript(r)' = sc
      BY <3>1 DEF StepScript
    <3>3. i = at[r] /\ sc[i].does = "load"
      <4>1. i \in 1 .. Len(sc) /\ sc[i].does = "load"
        BY <3>2 DEF Loads
      <4> QED
        BY <1>1, <2>6, <3>1, <4>1
    <3>4. buf'[r] = WithEntries(disk, Op(r).paths, seen[r])
      BY <3>3 DEF Op, OpEffect
    <3> QED
      BY <2>2, <2>3, <3>4 DEF WithEntries
  <2>7. step'[r] > 3 /\ cache'[r] = NoManifest
    BY <1>1, <1>5
  <2> QED
    BY <2>4, <2>5, <2>6, <2>7 DEF HashIsRight
<1> QED
  BY <1>1, <1>3, <1>4, <1>5

\* An adapter that returned at once.
LEMMA SkipKeeps ==
    ASSUME TypeInv, NEW r \in Callers, SkipAdapter(r), BehindIsSaved(r), HashIsRight(r)
    PROVE  BehindIsSaved(r)' /\ HashIsRight(r)'
<1>1. /\ step[r] \in 1 .. 10 /\ StepScript(r) = <<>> /\ call' = call /\ disk' = disk
      /\ index' = index /\ cache' = cache /\ at'[r] = 1 /\ step'[r] = step[r] + 1
  <2>1. step \in [Callers -> 0 .. 11] /\ at \in [Callers -> Nat]
    BY TenSteps DEF TypeInv, TypeOK
  <2>2. step[r] >= 1
    BY DEF SkipAdapter, TypeInv, Started
  <2> QED
    BY <2>1, <2>2, TenSteps DEF SkipAdapter, GoTo
<1>2. ASSUME NEW i \in Loads(StepScript(r)')
      PROVE  ~(i + 1 < at'[r]) /\ i + 1 # at'[r]
  <2>1. i \in Nat /\ i >= 1
    BY DEF Loads
  <2> QED
    BY <1>1, <2>1
<1>3. BehindIsSaved(r)'
  <2>1. ASSUME NEW k \in 1 .. 10, k < step'[r],
               NEW i \in Loads(Script(REBUILD_ORDER[k], call[r].chapter))
        PROVE  Script(REBUILD_ORDER[k], call[r].chapter)[i].paths \subseteq disk'.paths
    <3>1. k < step[r] \/ k = step[r]
      BY <1>1, <2>1
    <3>2. CASE k = step[r]
      BY <1>1, <3>2 DEF StepScript, Loads
    <3> QED
      BY <1>1, <3>1, <3>2 DEF BehindIsSaved
  <2> QED
    BY <1>1, <1>2, <2>1 DEF BehindIsSaved
<1>4. HashIsRight(r)'
  <2>1. step[r] # 3
    <3>1. SUFFICES ASSUME step[r] = 3 PROVE FALSE
      OBVIOUS
    <3>2. REBUILD_ORDER[3] \in Steps /\ REBUILD_ORDER[3] = "lifecycle"
      <4>1. 3 \in 1 .. 10
        OBVIOUS
      <4> QED
        BY <4>1, OrderOfSteps
    <3>3. call[r].chapter \in Chapter
      BY DEF TypeInv, TypeOK, Chapter
    <3>4. StepScript(r) = LifecycleScript
      BY <3>1, <3>2, <3>3, ScriptSavesAll DEF StepScript, ScriptSaves
    <3> QED
      BY <1>1, <3>4, LifecycleOps
  <2>2. step'[r] > 3 => step[r] > 3
    BY <1>1, <2>1
  <2> QED
    BY <1>1, <1>2, <2>2 DEF HashIsRight
<1> QED
  BY <1>3, <1>4

\* After the last adapter everything is in the manifest.
LEMMA AllIsSaved ==
    ASSUME TypeInv, NEW r \in Callers, step[r] > 10, BehindIsSaved(r)
    PROVE  Registers(call[r].chapter) \subseteq disk.paths
<1> SUFFICES ASSUME NEW s \in Steps, NEW i \in Loads(Script(s, call[r].chapter))
             PROVE  Script(s, call[r].chapter)[i].paths \subseteq disk.paths
  BY DEF Registers, Loads
<1>1. PICK k \in 1 .. 10 : s = REBUILD_ORDER[k]
  BY OrderOfSteps DEF Steps
<1>2. k < step[r]
  <2>1. step[r] \in 0 .. 11
    BY TenSteps DEF TypeInv, TypeOK
  <2> QED
    BY <2>1
<1> QED
  BY <1>1, <1>2 DEF BehindIsSaved

\* An operation of a rebuild that is alone.
LEMMA OpCompletes ==
    ASSUME TypeInv, NEW r \in Callers, Busy(r), OpDone(r), OpEffect(r), Covers(r),
           Complete(r), UNCHANGED <<pc, call, failed, cache>>
    PROVE  Complete(r)'
<1>0. pc[r] = "running" /\ step[r] \in 1 .. 10 /\ cache[r] = NoManifest
  BY OpShape DEF Busy, Covers
<1>1. pc'[r] = "running" /\ failed'[r] = failed[r]
  BY <1>0
<1>2. ASSUME failed[r] = {}
      PROVE  BehindIsSaved(r)' /\ HashIsRight(r)'
  <2>1. BehindIsSaved(r) /\ HashIsRight(r)
    BY <1>0, <1>2 DEF Complete
  <2>2. Op(r).does = "load" => Op(r).paths \subseteq buf'[r].paths
    BY DEF OpEffect, WithEntries
  <2>3. Op(r).does = "save" => buf[r].paths \subseteq disk'.paths
    BY DEF OpEffect
  <2>4. disk.paths \subseteq disk'.paths
    BY DEF OpEffect, Covers, Doing
  <2>5. BehindIsSaved(r)'
    BY <2>1, <2>2, <2>3, <2>4, OpSaves
  <2>6. HashIsRight(r)'
    BY <1>0, <2>1, OpKeepsHash
  <2> QED
    BY <2>5, <2>6
<1> QED
  BY <1>1, <1>2 DEF Complete

\* Work of a rebuild that is alone.
LEMMA WorkCompletes ==
    ASSUME TypeInv, NEW r \in Callers, Works(r), Covers(r), Complete(r),
           unreadable' = unreadable
    PROVE  Complete(r)'
<1>0. /\ pc \in [Callers -> {"idle", "clearing", "locking", "running", "leaving"}]
      /\ disk \in Manifest /\ buf \in [Callers -> Manifest]
      /\ seen \in [Callers -> Nat] /\ failed \in [Callers -> SUBSET Steps]
      /\ cache \in [Callers -> Manifest \cup {NoManifest}]
      /\ result \in [Callers -> {"none", "lock held", "required adapter failed",
                                 "success", "failures", "raised"}]
      /\ step \in [Callers -> 0 .. 11] /\ unreadable \in Nat /\ pc[r] = "running"
  BY TenSteps, WorkStays DEF TypeInv, TypeOK
<1>1. CASE WriteArtifact(r)
  <2>1. Busy(r) /\ OpDone(r) /\ UNCHANGED <<pc, call, failed, cache>>
    BY <1>1 DEF WriteArtifact, Doing
  <2>2. OpEffect(r)
    BY <1>1 DEF WriteArtifact, Doing, OpEffect
  <2> QED
    BY <2>1, <2>2, OpCompletes
<1>2. CASE HashArtifact(r)
  <2>1. Busy(r) /\ OpDone(r) /\ UNCHANGED <<pc, call, failed, cache>>
    BY <1>2 DEF HashArtifact, Doing
  <2>2. OpEffect(r)
    BY <1>0, <1>2 DEF HashArtifact, Doing, OpEffect
  <2> QED
    BY <2>1, <2>2, OpCompletes
<1>3. CASE LoadManifest(r)
  <2>1. Busy(r) /\ OpDone(r) /\ UNCHANGED <<pc, call, failed, cache>>
    BY <1>3 DEF LoadManifest, Doing
  <2>2. OpEffect(r)
    BY <1>0, <1>3 DEF LoadManifest, Doing, OpEffect
  <2> QED
    BY <2>1, <2>2, OpCompletes
<1>4. CASE SaveManifest(r)
  <2>1. Busy(r) /\ OpDone(r) /\ UNCHANGED <<pc, call, failed, cache>>
    BY <1>4 DEF SaveManifest, Doing
  <2>2. OpEffect(r)
    BY <1>4 DEF SaveManifest, Doing, OpEffect
  <2> QED
    BY <2>1, <2>2, OpCompletes
<1>5. CASE VerifyPasses(r)
  <2>1. Busy(r) /\ OpDone(r) /\ UNCHANGED <<pc, call, failed, cache>>
    BY <1>5 DEF VerifyPasses, Doing
  <2>2. OpEffect(r)
    BY <1>5 DEF VerifyPasses, Doing, OpEffect
  <2> QED
    BY <2>1, <2>2, OpCompletes
<1>6. CASE LoadUnreadable(r) \/ FinalLoadUnreadable(r)
  <2>1. unreadable' = unreadable + 1
    BY <1>6 DEF LoadUnreadable, FinalLoadUnreadable, Unreadable
  <2>2. unreadable \in Nat
    BY <1>0
  <2> QED
    BY <2>1, <2>2
<1>7. CASE VerifyFails(r) \/ AdapterRaises(r)
  <2>1. Fail(r) /\ pc[r] = "running"
    BY <1>0, <1>7 DEF VerifyFails, AdapterRaises
  <2>2. failed'[r] # {}
    BY <1>0, <2>1 DEF Fail
  <2>3. pc' = pc \/ result'[r] = "required adapter failed"
    BY <1>0, <2>1 DEF Fail, Return
  <2> QED
    BY <1>0, <2>2, <2>3 DEF Complete
<1>8. CASE SkipAdapter(r)
  BY <1>0, <1>8, SkipKeeps DEF SkipAdapter, Complete
<1>9. CASE FinalLoad(r)
  <2>1. /\ cache'[r] = disk /\ step[r] > 10
        /\ UNCHANGED <<disk, index, pc, call, step, at, buf, seen, failed, result>>
    BY <1>0, <1>9, TenSteps DEF FinalLoad, Finishing, locals
  <2>2. StepScript(r)' = StepScript(r)
    BY <2>1 DEF StepScript
  <2>3. step[r] > 3 /\ ~(step[r] <= 10)
    <3>1. step[r] \in 0 .. 11
      BY <1>0
    <3> QED
      BY <2>1, <3>1
  <2> QED
    BY <1>0, <2>1, <2>2, <2>3 DEF Complete, BehindIsSaved, HashIsRight
<1>10. CASE FinalSave(r)
  <2>1. /\ disk' = cache[r] /\ cache[r] # NoManifest /\ step[r] > 10
        /\ pc'[r] = "leaving" /\ UNCHANGED <<call, index>>
        /\ result'[r] = "success" => failed[r] = {}
    BY <1>0, <1>10, TenSteps DEF FinalSave, Finishing, Return, locals
  <2>2. ASSUME failed[r] = {}
        PROVE  Registers(call[r].chapter) \subseteq disk'.paths /\ disk'.hash = index
    <3>0. step[r] \in 0 .. 11
      BY <1>0
    <3>1. BehindIsSaved(r) /\ HashIsRight(r) /\ step[r] > 3
      <4>1. pc[r] = "running"
        BY <1>0
      <4>2. step[r] > 3
        BY <2>1, <3>0
      <4> QED
        BY <2>2, <4>1, <4>2 DEF Complete
    <3>2. Registers(call[r].chapter) \subseteq disk.paths
      BY <2>1, <3>1, AllIsSaved
    <3>3. disk.paths \subseteq disk'.paths /\ disk'.hash = index
      BY <2>1, <3>1 DEF Covers, HashIsRight
    <3> QED
      BY <3>2, <3>3
  <2> QED
    BY <2>1, <2>2 DEF Complete
<1>11. CASE FinalSaveRaises(r)
  <2>1. pc'[r] = "leaving" /\ result'[r] = "raised"
    BY <1>0, <1>11 DEF FinalSaveRaises, Return
  <2> QED
    BY <2>1 DEF Complete
<1> QED
  BY <1>1, <1>2, <1>3, <1>4, <1>5, <1>6, <1>7, <1>8, <1>9, <1>10, <1>11 DEF Works, Adapt

LEMMA CompleteStep ==
    TypeInv /\ LockInv /\ KeepInv /\ CompleteInv /\ [Next]_vars => CompleteInv'
<1> SUFFICES ASSUME TypeInv, LockInv, KeepInv, CompleteInv, [Next]_vars,
                    ~raced', unreadable' = 0, NEW o \in Callers, call'[o].fresh,
                    pc'[o] \in {"running", "leaving"}
             PROVE  Complete(o)'
  BY DEF CompleteInv, Complete
<1>0. /\ pc \in [Callers -> {"idle", "clearing", "locking", "running", "leaving"}]
      /\ unreadable \in Nat
      /\ cache \in [Callers -> Manifest \cup {NoManifest}]
      /\ result \in [Callers -> {"none", "lock held", "required adapter failed",
                                 "success", "failures", "raised"}]
  BY DEF TypeInv, TypeOK
\* A step that leaves everything o's rebuild looks at keeps Complete.
<1>a. ASSUME ~raced, unreadable = 0, pc'[o] = pc[o], UNCHANGED <<locals, disk, index>>,
             cache'[o] = cache[o], result'[o] = result[o]
      PROVE  Complete(o)'
  <2>1. Complete(o)
    BY <1>a DEF CompleteInv, locals
  <2>2. StepScript(o)' = StepScript(o)
    BY <1>a DEF StepScript, locals
  <2> QED
    BY <1>a, <2>1, <2>2 DEF Complete, BehindIsSaved, HashIsRight, locals
\* A caller that has entered is alone.
<1>b. ASSUME NEW r \in Callers, Entered(r), ~raced, pc[o] \in {"running", "leaving"}
      PROVE  o = r
  BY <1>b DEF LockInv, Entered, Inside
<1>1. CASE UNCHANGED vars
  BY <1>1, <1>a DEF vars, bounds
<1>2. CASE Expire
  BY <1>2, <1>a DEF Expire, bounds
<1>3. ASSUME NEW r \in Callers, Construct(r) \/ Refused(r) \/ LookAtLock(r)
      PROVE  Complete(o)'
  <2>1. /\ ~raced /\ unreadable = 0 /\ UNCHANGED <<locals, disk, index>>
        /\ cache' = cache \/ cache' = [cache EXCEPT ![r] = NoManifest]
        /\ result' = result \/ result' = [result EXCEPT ![r] = "lock held"]
        /\ pc[r] = "idle" /\ (pc' = pc \/ pc'[r] \in {"clearing", "locking"})
        /\ \A q \in Callers : q # r => pc'[q] = pc[q]
    <3>1. CASE Construct(r)
      BY <3>1 DEF Construct, bounds
    <3>2. CASE Refused(r)
      BY <3>2 DEF Refused, Return, bounds
    <3>3. CASE LookAtLock(r)
      BY <1>0, <3>3 DEF LookAtLock, bounds
    <3> QED
      BY <1>3, <3>1, <3>2, <3>3
  <2>2. o # r /\ pc'[o] = pc[o]
    BY <2>1
  <2>3. cache'[o] = cache[o] /\ result'[o] = result[o]
    BY <1>0, <2>1, <2>2
  <2> QED
    BY <1>a, <2>1, <2>2, <2>3
<1>4. ASSUME NEW r \in Callers,
             \/ ClearLock(r) \/ TakeLockFails(r)
             \/ Release(r) \/ ReleaseFails(r) \/ Crash(r)
      PROVE  Complete(o)'
  <2>1. /\ ~raced /\ Entered(r) /\ pc'[r] \notin {"running", "leaving"}
        /\ \A q \in Callers : q # r => pc'[q] = pc[q]
    <3>1. CASE ClearLock(r)
      BY <1>0, <3>1 DEF ClearLock, Entered, Acquiring
    <3>2. CASE TakeLockFails(r)
      BY <1>0, <3>2 DEF TakeLockFails, Leave, Entered, Acquiring
    <3>3. CASE Release(r)
      BY <1>0, <3>3 DEF Release, Leave, Entered, Inside
    <3>4. CASE ReleaseFails(r)
      BY <1>0, <3>4 DEF ReleaseFails, Leave, Entered, Inside
    <3>5. CASE Crash(r)
      BY <1>0, <3>5 DEF Crash, Leave, Entered, Inside, Acquiring
    <3> QED
      BY <1>4, <3>1, <3>2, <3>3, <3>4, <3>5
  <2> QED
    BY <1>b, <2>1
<1>5. ASSUME NEW r \in Callers, TakeLock(r)
      PROVE  Complete(o)'
  <2>1. ~raced /\ Entered(r) /\ \A q \in Callers : q # r => pc'[q] = pc[q]
    BY <1>0, <1>5 DEF TakeLock, Entered, Acquiring
  <2>2. o = r
    BY <1>b, <2>1
  <2>3. at'[o] = 1 /\ step'[o] = 1 /\ pc'[o] = "running"
    BY <1>0, <1>5, <2>2 DEF TakeLock, TypeInv, TypeOK
  <2>4. HashIsRight(o)'
    BY <2>3 DEF HashIsRight
  <2>5. BehindIsSaved(o)'
    <3>1. ASSUME NEW i \in Loads(StepScript(o)')
          PROVE  ~(i + 1 < at'[o]) /\ i + 1 # at'[o]
      <4>1. i \in Nat /\ i >= 1
        BY DEF Loads
      <4> QED
        BY <2>3, <4>1
    <3>2. \A k \in 1 .. 10 : ~(k < step'[o])
      BY <2>3
    <3> QED
      BY <3>1, <3>2 DEF BehindIsSaved
  <2> QED
    BY <2>3, <2>4, <2>5 DEF Complete
<1>6. ASSUME NEW r \in Callers, Works(r)
      PROVE  Complete(o)'
  <2>1. /\ ~raced /\ Entered(r) /\ pc[r] = "running" /\ call' = call
        /\ \A q \in Callers : q # r => pc'[q] = pc[q]
    BY <1>6, WorkStays DEF Entered, Inside
  <2>2. o = r
    BY <1>b, <2>1
  <2>3. CASE unreadable = 0
    <3>1. Covers(r) /\ Complete(r)
      BY <2>1, <2>2, <2>3 DEF KeepInv, CompleteInv
    <3> QED
      BY <1>6, <2>2, <2>3, <3>1, WorkCompletes
  <2>4. CASE unreadable # 0
    <3>1. unreadable' = unreadable \/ unreadable' = unreadable + 1
      BY <1>6
         DEF Works, Adapt, WriteArtifact, HashArtifact, LoadManifest, LoadUnreadable,
             SaveManifest, VerifyPasses, VerifyFails, AdapterRaises, SkipAdapter,
             FinalLoad, FinalLoadUnreadable, FinalSave, FinalSaveRaises, Unreadable,
             Fault, bounds
    <3>2. unreadable \in Nat
      BY <1>0
    <3> QED
      BY <2>4, <3>1, <3>2
  <2> QED
    BY <2>3, <2>4
<1> QED
  BY <1>1, <1>2, <1>3, <1>4, <1>5, <1>6, WorkCases

LEMMA InitComplete == Init => CompleteInv
  BY DEF Init, CompleteInv, Complete

\* A rebuild that reports success to its caller has put everything it rebuilt into the
\* manifest on disk, which describes the index on disk, for any number of callers and
\* chapters, however the ones before it failed or died (RebuildOrchestrator.rebuild).
THEOREM SuccessesAreComplete == Spec => []SuccessIsComplete
<1>1. CompleteInv => SuccessIsComplete
  BY DEF CompleteInv, Complete, SuccessIsComplete, Calm, Inside
<1> QED
  BY <1>1, InitType, StepType, InitLock, LockStep, InitKeep, KeepStep, InitComplete,
     CompleteStep, PTL DEF Spec
=============================================================================
