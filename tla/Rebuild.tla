------------------------------ MODULE Rebuild ------------------------------
(****************************************************************************)
(* RebuildOrchestrator.rebuild with its RebuildLock and the ManifestManager *)
(* copies it goes through.  A rebuild runs ten adapters in a fixed order;   *)
(* most of them write an artifact, load a fresh copy of the manifest, put   *)
(* an entry into it and save the whole copy; the orchestrator saves its own *)
(* copy last.  The lock is a file with an expiry: "look, then write".       *)
(*                                                                          *)
(* A path is a pair <<kind, chapter>>.  Only the lifecycle index is         *)
(* registered with a content hash; its content is identified with the call  *)
(* that wrote it, because every write stamps the time.  Of all other        *)
(* artifacts only the existence is kept.                                    *)
(****************************************************************************)
EXTENDS Integers, Sequences, FiniteSets

CONSTANTS
    Callers,          \* processes that call rebuild(), each with its orchestrator
    Chapters,
    NoChapter,        \* chapter_id=None: a rebuild of the arc
    NoManifest,       \* ManifestManager._manifest before the first load
    Requests,         \* the chapter_id and mode a rebuild may be called with
    HasBaselines,     \* whether character baselines exist (else drift is skipped)
    MaxCalls,         \* bound: rebuilds that get past the lock
    MaxFaults         \* bound: operations that raise, unreadable manifests, deaths

VARIABLES
    written,      \* paths of the artifacts on disk
    index,        \* the call that wrote the lifecycle index on disk, 0 for none
    disk,         \* workspace/phase2/manifest.json
    lock,         \* workspace/phase2/rebuild.lock
    pc, call, step, at, buf, seen, failed,   \* one call of rebuild(), per caller
    cache,        \* _manifest of the orchestrator's own ManifestManager
    result,       \* what the last call of rebuild() returned
    calls, faults, unreadable, abandoned,    \* the bounds' counters
    raced         \* history: the lock was outlived, or acquired by two at once

locals == <<call, step, at, buf, seen, failed>>
bounds == <<calls, faults, unreadable, abandoned>>
vars == <<written, index, disk, lock, pc, locals, cache, result, bounds, raced>>

Request == [chapter : Chapters \cup {NoChapter}, active : BOOLEAN]

ASSUME RequestAssumption == Requests \subseteq Request
ASSUME ChapterAssumption == NoChapter \notin Chapters

-----------------------------------------------------------------------------
REBUILD_ORDER == <<"summary", "graph", "lifecycle", "drift", "arc_plan",
                   "beat_plan", "trace", "structured_audit", "calibration",
                   "manifest_verification">>

Steps == {REBUILD_ORDER[i] : i \in 1 .. Len(REBUILD_ORDER)}

\* Adapters that return [] at once without a chapter, and adapters whose failure ends
\* an active rebuild (required_in_active).
ChapterSteps == {"summary", "drift", "beat_plan", "trace", "structured_audit"}
RequiredSteps == {"summary", "manifest_verification"}

GlobalKinds == {"graph", "lifecycle", "arc_plan", "health_report"}
ChapterKinds == {"summary", "drift_report", "drift", "beat_plan", "trace", "audit"}
Path == (GlobalKinds \X {NoChapter}) \cup (ChapterKinds \X Chapters)

LifecycleIndex == <<"lifecycle", NoChapter>>    \* the only required artifact

\* A manifest: the paths that have an entry, and the content hash of the index's entry.
Manifest == [paths : SUBSET Path, hash : Nat]
EmptyManifest == [paths |-> {}, hash |-> 0]

WithEntries(m, S, hash) ==
    [paths |-> m.paths \cup S,
     hash  |-> IF LifecycleIndex \in S THEN hash ELSE m.hash]

\* verify_required_artifacts: each required entry exists and has the hash recorded.
Verified(m) ==
    LifecycleIndex \in m.paths =>
        LifecycleIndex \in written /\ (m.hash # 0 => m.hash = index)

-----------------------------------------------------------------------------
(* What each adapter does, as a list of operations.                        *)

Write(p) == [does |-> "write", paths |-> {p}]
HashIt == [does |-> "hash", paths |-> {}]
Register(S) == [does |-> "load", paths |-> S]
Save == [does |-> "save", paths |-> {}]
VerifyIt == [does |-> "verify", paths |-> {}]

Publish(p) == <<Write(p), Register({p}), Save>>
Announce(early, p) == <<Register({early}), Save, Write(p), Register({p}), Save>>

\* Mutant: the index is registered before its file is written, as the graph's is.
LifecycleScriptEarly ==
    <<HashIt, Register({LifecycleIndex}), Save, Write(LifecycleIndex)>>

LifecycleScript ==
    <<Write(LifecycleIndex), HashIt, Register({LifecycleIndex}), Save>>

\* The graph's builder registers the graph before its file is written, and the adapter
\* again.
GraphScript == Announce(<<"graph", NoChapter>>, <<"graph", NoChapter>>)

\* check_chapter registers a report that nobody writes.
CheckedReport(c) == <<"drift_report", c>>

DriftScript(c) ==
    IF HasBaselines THEN Announce(CheckedReport(c), <<"drift", c>>) ELSE <<>>

\* What plan_arc makes of the contract.  Another adapter writes the beat plan of the
\* chapter: resolve_planning_horizon sees to it that there is one.
ArcPlan == <<"arc_plan", NoChapter>>
HealthReport == <<"health_report", NoChapter>>
BeatPlan(c) == <<"beat_plan", c>>

ArcPlanScript ==
    <<Write(ArcPlan), Write(HealthReport), Register({ArcPlan, HealthReport}), Save>>

\* compress and audit_chapter write their files themselves.
Summary(c) == <<"summary", c>>
AuditReport(c) == <<"audit", c>>

SummaryScript(c) == Publish(Summary(c))
BeatPlanScript(c) == Publish(BeatPlan(c))
TraceScript(c) == <<Write(<<"trace", c>>)>>
StructuredAuditScript(c) == Publish(AuditReport(c))

AdapterScript(s, c) ==
    CASE s = "summary" -> SummaryScript(c)
      [] s = "graph" -> GraphScript
      [] s = "lifecycle" -> LifecycleScript
      [] s = "drift" -> DriftScript(c)
      [] s = "arc_plan" -> ArcPlanScript
      [] s = "beat_plan" -> BeatPlanScript(c)
      [] s = "trace" -> TraceScript(c)
      [] s = "structured_audit" -> StructuredAuditScript(c)
      [] s = "calibration" -> <<>>
      [] s = "manifest_verification" -> <<VerifyIt>>

Script(s, c) ==
    IF s \in ChapterSteps /\ c = NoChapter THEN <<>> ELSE AdapterScript(s, c)

\* The paths a rebuild for chapter c registers when nothing fails.
Registers(c) ==
    UNION {UNION {Script(s, c)[i].paths :
                  i \in {j \in 1 .. Len(Script(s, c)) : Script(s, c)[j].does = "load"}} :
           s \in Steps}

-----------------------------------------------------------------------------
NoCall == [id |-> 0, chapter |-> NoChapter, active |-> FALSE, fresh |-> TRUE]

Init ==
    /\ written = {} /\ index = 0 /\ disk = EmptyManifest
    /\ lock = "free"
    /\ pc = [r \in Callers |-> "idle"]
    /\ call = [r \in Callers |-> NoCall]
    /\ step = [r \in Callers |-> 0]
    /\ at = [r \in Callers |-> 0]
    /\ buf = [r \in Callers |-> EmptyManifest]
    /\ seen = [r \in Callers |-> 0]
    /\ failed = [r \in Callers |-> {}]
    /\ cache = [r \in Callers |-> NoManifest]
    /\ result = [r \in Callers |-> "none"]
    /\ calls = 0 /\ faults = 0 /\ unreadable = 0 /\ abandoned = 0
    /\ raced = FALSE

Acquiring(r) == pc[r] \in {"clearing", "locking"}
Inside(r) == pc[r] \in {"running", "leaving"}

Leave(r) == pc' = [pc EXCEPT ![r] = "idle"]
Return(r, value) == result' = [result EXCEPT ![r] = value]

\* The locals of an adapter, and those of the call, go out of scope.
AdapterDone(r) ==
    /\ buf' = [buf EXCEPT ![r] = EmptyManifest]
    /\ seen' = [seen EXCEPT ![r] = 0]
CallDone(r) ==
    /\ AdapterDone(r)
    /\ call' = [call EXCEPT ![r] = NoCall]
    /\ step' = [step EXCEPT ![r] = 0]
    /\ at' = [at EXCEPT ![r] = 0]
    /\ failed' = [failed EXCEPT ![r] = {}]

\* What can go wrong: an operation raises, a manifest cannot be read, a lock is left.
MoreFaults == faults + unreadable + abandoned < MaxFaults
Fault == MoreFaults /\ faults' = faults + 1 /\ UNCHANGED <<calls, unreadable, abandoned>>
Unreadable ==
    MoreFaults /\ unreadable' = unreadable + 1 /\ UNCHANGED <<calls, faults, abandoned>>
Abandon ==
    MoreFaults /\ abandoned' = abandoned + 1 /\ UNCHANGED <<calls, faults, unreadable>>

-----------------------------------------------------------------------------
(* The lock.                                                               *)

\* A caller builds a new RebuildOrchestrator instead of using its own again.
Construct(r) ==
    /\ pc[r] = "idle" /\ cache[r] # NoManifest
    /\ cache' = [cache EXCEPT ![r] = NoManifest]
    /\ UNCHANGED <<written, index, disk, lock, pc, locals, result, bounds, raced>>

\* is_locked: a lock that has not expired, or that cannot be parsed.
Refused(r) ==
    /\ pc[r] = "idle" /\ lock \in {"live", "torn"}
    /\ Return(r, "lock held")
    /\ UNCHANGED <<written, index, disk, lock, pc, locals, cache, bounds, raced>>

\* Mutant: the expiry of the lock is not looked at.
LookPastLock(r) ==
    /\ pc[r] = "idle" /\ lock \in {"free", "expired", "live"} /\ calls < MaxCalls
    /\ pc' = [pc EXCEPT ![r] = IF lock = "free" THEN "locking" ELSE "clearing"]
    /\ raced' = (raced \/ \E o \in Callers : Acquiring(o))
    /\ UNCHANGED <<written, index, disk, lock, locals, cache, result, bounds>>

\* is_locked: no lock file, or one that has expired.
LookAtLock(r) ==
    /\ pc[r] = "idle" /\ lock \in {"free", "expired"} /\ calls < MaxCalls
    /\ pc' = [pc EXCEPT ![r] = IF lock = "free" THEN "locking" ELSE "clearing"]
    /\ raced' = (raced \/ \E o \in Callers : Acquiring(o))
    /\ UNCHANGED <<written, index, disk, lock, locals, cache, result, bounds>>

\* is_locked: the expired lock is unlinked, whatever the file holds by now.
ClearLock(r) ==
    /\ pc[r] = "clearing"
    /\ lock' = "free"
    /\ pc' = [pc EXCEPT ![r] = "locking"]
    /\ UNCHANGED <<written, index, disk, locals, cache, result, bounds, raced>>

\* acquire: the lock file is written, and rebuild(chapter_id, modes) goes on.
TakeLock(r) ==
    /\ pc[r] = "locking" /\ calls < MaxCalls
    /\ lock' = "live"
    /\ pc' = [pc EXCEPT ![r] = "running"]
    /\ calls' = calls + 1
    /\ \E q \in Requests :
          call' = [call EXCEPT ![r] = [id |-> calls + 1,
                                       chapter |-> q.chapter, active |-> q.active,
                                       fresh |-> cache[r] = NoManifest]]
    /\ step' = [step EXCEPT ![r] = 1]
    /\ at' = [at EXCEPT ![r] = 1]
    /\ Return(r, "none")
    /\ UNCHANGED <<written, index, disk, buf, seen, failed, cache,
                   faults, unreadable, abandoned, raced>>

\* acquire: the write raises OSError; it may have truncated the file.
TakeLockFails(r) ==
    /\ pc[r] = "locking" /\ Fault
    /\ lock' \in {lock, "torn"}
    /\ Leave(r) /\ Return(r, "lock held")
    /\ UNCHANGED <<written, index, disk, locals, cache, raced>>

\* LOCK_EXPIRY_SECONDS have passed (once nobody can call any more it makes no difference).
Expire ==
    /\ lock = "live" /\ calls < MaxCalls
    /\ lock' = "expired"
    /\ raced' = (raced \/ \E r \in Callers : Inside(r))
    /\ UNCHANGED <<written, index, disk, pc, locals, cache, result, bounds>>

-----------------------------------------------------------------------------
(* The adapters.                                                           *)

StepScript(r) == Script(REBUILD_ORDER[step[r]], call[r].chapter)
Busy(r) ==
    pc[r] = "running" /\ step[r] <= Len(REBUILD_ORDER) /\ at[r] <= Len(StepScript(r))
Op(r) == StepScript(r)[at[r]]
Doing(r, what) == Busy(r) /\ Op(r).does = what
OpDone(r) ==
    IF at[r] < Len(StepScript(r))
    THEN at' = [at EXCEPT ![r] = @ + 1] /\ UNCHANGED step
    ELSE at' = [at EXCEPT ![r] = 1] /\ step' = [step EXCEPT ![r] = @ + 1]

GoTo(r, s) ==
    /\ step' = [step EXCEPT ![r] = s]
    /\ at' = [at EXCEPT ![r] = 1]
    /\ AdapterDone(r)

WriteArtifact(r) ==
    /\ Doing(r, "write") /\ OpDone(r)
    /\ written' = written \cup Op(r).paths
    /\ index' = IF LifecycleIndex \in Op(r).paths THEN call[r].id ELSE index
    /\ UNCHANGED <<disk, lock, pc, call, buf, seen, failed,
                   cache, result, bounds, raced>>

\* register_persisted_artifact: the file must exist; its hash is computed.
HashArtifact(r) ==
    /\ Doing(r, "hash") /\ OpDone(r)
    /\ seen' = [seen EXCEPT ![r] = index]
    /\ UNCHANGED <<written, index, disk, lock, pc, call, buf, failed,
                   cache, result, bounds, raced>>

\* Mutant: the entry is put into a new manifest, without a load.
LoadNothing(r) ==
    /\ Doing(r, "load") /\ OpDone(r)
    /\ buf' = [buf EXCEPT ![r] = WithEntries(EmptyManifest, Op(r).paths, seen[r])]
    /\ UNCHANGED <<written, index, disk, lock, pc, call, seen, failed,
                   cache, result, bounds, raced>>

LoadManifest(r) ==
    /\ Doing(r, "load") /\ OpDone(r)
    /\ buf' = [buf EXCEPT ![r] = WithEntries(disk, Op(r).paths, seen[r])]
    /\ UNCHANGED <<written, index, disk, lock, pc, call, seen, failed,
                   cache, result, bounds, raced>>

\* load: whatever goes wrong in reading it, an empty manifest takes its place.
LoadUnreadable(r) ==
    /\ Doing(r, "load") /\ OpDone(r)
    /\ Unreadable
    /\ buf' = [buf EXCEPT ![r] = WithEntries(EmptyManifest, Op(r).paths, seen[r])]
    /\ UNCHANGED <<written, index, disk, lock, pc, call, seen, failed,
                   cache, result, raced>>

SaveManifest(r) ==
    /\ Doing(r, "save") /\ OpDone(r)
    /\ disk' = buf[r]
    /\ AdapterDone(r)
    /\ UNCHANGED <<written, index, lock, pc, call, failed,
                   cache, result, bounds, raced>>

VerifyPasses(r) ==
    /\ Doing(r, "verify") /\ Verified(disk) /\ OpDone(r)
    /\ UNCHANGED <<written, index, disk, lock, pc, call, buf, seen, failed,
                   cache, result, bounds, raced>>

\* An adapter that returns [] at once.
SkipAdapter(r) ==
    /\ pc[r] = "running" /\ step[r] <= Len(REBUILD_ORDER) /\ StepScript(r) = <<>>
    /\ GoTo(r, step[r] + 1)
    /\ UNCHANGED <<written, index, disk, lock, pc, call, failed,
                   cache, result, bounds, raced>>

\* Mutant: an early return leaves the lock where it is.
FailUnlocked(r) ==
    LET s == REBUILD_ORDER[step[r]] IN
    IF s \in RequiredSteps /\ call[r].active
    THEN /\ Leave(r) /\ Return(r, "required adapter failed") /\ CallDone(r)
    ELSE /\ failed' = [failed EXCEPT ![r] = @ \cup {s}]
         /\ GoTo(r, step[r] + 1)
         /\ UNCHANGED <<pc, call, result>>

\* Mutant: a failed adapter is not reported.
FailSilently(r) ==
    /\ GoTo(r, step[r] + 1)
    /\ UNCHANGED <<pc, call, failed, result>>

\* Mutant: the loop counts a failed adapter twice.
FailTwice(r) ==
    /\ failed' = [failed EXCEPT ![r] = @ \cup {REBUILD_ORDER[step[r]]}]
    /\ GoTo(r, step[r] + 2)
    /\ UNCHANGED <<pc, call, result>>

\* A failed result: the loop goes on, unless the adapter is required and the mode active.
Fail(r) ==
    LET s == REBUILD_ORDER[step[r]] IN
    /\ failed' = [failed EXCEPT ![r] = @ \cup {s}]
    /\ UNCHANGED call
    /\ IF s \in RequiredSteps /\ call[r].active
       THEN /\ pc' = [pc EXCEPT ![r] = "leaving"]
            /\ Return(r, "required adapter failed")
            /\ AdapterDone(r)
            /\ UNCHANGED <<step, at>>
       ELSE GoTo(r, step[r] + 1) /\ UNCHANGED <<pc, result>>

VerifyFails(r) ==
    /\ Doing(r, "verify") /\ ~Verified(disk)
    /\ Fail(r)
    /\ UNCHANGED <<written, index, disk, lock, cache, bounds, raced>>

AdapterRaises(r) ==
    /\ Busy(r) /\ Fault
    /\ Fail(r)
    /\ UNCHANGED <<written, index, disk, lock, cache, raced>>

-----------------------------------------------------------------------------
(* The end of rebuild().                                                   *)

Finishing(r) == pc[r] = "running" /\ step[r] > Len(REBUILD_ORDER)

\* self._manifest.save() loads the manifest first, unless this orchestrator has it.
FinalLoad(r) ==
    /\ Finishing(r) /\ cache[r] = NoManifest
    /\ cache' = [cache EXCEPT ![r] = disk]
    /\ UNCHANGED <<written, index, disk, lock, pc, locals, result, bounds, raced>>

FinalLoadUnreadable(r) ==
    /\ Finishing(r) /\ cache[r] = NoManifest
    /\ Unreadable
    /\ cache' = [cache EXCEPT ![r] = EmptyManifest]
    /\ UNCHANGED <<written, index, disk, lock, pc, locals, result, raced>>

FinalSave(r) ==
    /\ Finishing(r) /\ cache[r] # NoManifest
    /\ disk' = cache[r]
    /\ pc' = [pc EXCEPT ![r] = "leaving"]
    /\ Return(r, IF failed[r] = {} THEN "success" ELSE "failures")
    /\ UNCHANGED <<written, index, lock, locals, cache, bounds, raced>>

\* save raises: the exception passes through the finally clause to the caller.
FinalSaveRaises(r) ==
    /\ Finishing(r) /\ cache[r] # NoManifest /\ Fault
    /\ pc' = [pc EXCEPT ![r] = "leaving"]
    /\ Return(r, "raised")
    /\ UNCHANGED <<written, index, disk, lock, locals, cache, raced>>

\* finally: the lock file is unlinked, whoever wrote it.
Release(r) ==
    /\ pc[r] = "leaving"
    /\ lock' = "free"
    /\ Leave(r) /\ CallDone(r)
    /\ UNCHANGED <<written, index, disk, cache, result, bounds, raced>>

\* finally: unlink raises OSError, which is passed over.
ReleaseFails(r) ==
    /\ pc[r] = "leaving" /\ Abandon
    /\ Leave(r) /\ CallDone(r)
    /\ UNCHANGED <<written, index, disk, lock, cache, result, raced>>

\* The process ends during a call; a lock it was writing may be torn.
Crash(r) ==
    /\ pc[r] # "idle" /\ Abandon
    /\ lock' \in (IF pc[r] = "locking" THEN {lock, "torn"} ELSE {lock})
    /\ Leave(r) /\ CallDone(r) /\ Return(r, "none")
    /\ cache' = [cache EXCEPT ![r] = NoManifest]
    /\ UNCHANGED <<written, index, disk, raced>>

-----------------------------------------------------------------------------
Acquire(r) ==
    Refused(r) \/ LookAtLock(r) \/ ClearLock(r) \/ TakeLock(r) \/ TakeLockFails(r)

Adapt(r) ==
    \/ WriteArtifact(r) \/ HashArtifact(r)
    \/ LoadManifest(r) \/ LoadUnreadable(r) \/ SaveManifest(r)
    \/ VerifyPasses(r) \/ VerifyFails(r) \/ AdapterRaises(r) \/ SkipAdapter(r)

Finish(r) ==
    \/ FinalLoad(r) \/ FinalLoadUnreadable(r)
    \/ FinalSave(r) \/ FinalSaveRaises(r)
    \/ Release(r) \/ ReleaseFails(r)

Next ==
    \/ Expire
    \/ \E r \in Callers : Construct(r) \/ Acquire(r) \/ Adapt(r) \/ Finish(r) \/ Crash(r)

Spec == Init /\ [][Next]_vars

-----------------------------------------------------------------------------
(* Properties.                                                             *)

\* Every variable has its type.
TypeOK ==
    /\ written \subseteq Path /\ index \in Nat
    /\ disk \in Manifest
    /\ lock \in {"free", "live", "expired", "torn"}
    /\ pc \in [Callers -> {"idle", "clearing", "locking", "running", "leaving"}]
    /\ call \in [Callers -> [id : Nat, chapter : Chapters \cup {NoChapter},
                             active : BOOLEAN, fresh : BOOLEAN]]
    /\ step \in [Callers -> 0 .. Len(REBUILD_ORDER) + 1]
    /\ at \in [Callers -> Nat]
    /\ buf \in [Callers -> Manifest]
    /\ seen \in [Callers -> Nat]
    /\ failed \in [Callers -> SUBSET Steps]
    /\ cache \in [Callers -> Manifest \cup {NoManifest}]
    /\ result \in [Callers -> {"none", "lock held", "required adapter failed",
                               "success", "failures", "raised"}]
    /\ calls \in Nat /\ faults \in Nat /\ unreadable \in Nat /\ abandoned \in Nat
    /\ raced \in BOOLEAN

\* The lock admits one rebuild at a time -- across expiry, takeover from dead owners and
\* refusals -- as long as no two callers acquire it at the same moment and no rebuild
\* outlives its lock (rebuild_lock.py:1).
OneRebuild ==
    raced \/ \A r, o \in Callers : Inside(r) /\ Inside(o) => r = o

\* Every way out of rebuild() -- done, stopped early, an exception -- takes the lock
\* away: no valid lock outlasts the calls unless one of them died or could not unlink.
NoLockLeftBehind ==
    (\A r \in Callers : pc[r] = "idle") /\ abandoned = 0 => lock \in {"free", "torn"}

\* The manifest on disk and everybody's copies of it.
Copies ==
    {disk} \cup {buf[r] : r \in Callers} \cup ({cache[r] : r \in Callers} \ {NoManifest})

\* The required entry, in the manifest or in anybody's copy of it, names a file that was
\* written: what manifest verification and active readers look for exists, however
\* rebuilds interleave, fail or die (manifest_manager.py:119).
IndexRegisteredAfterWritten ==
    \A m \in Copies : LifecycleIndex \in m.paths => LifecycleIndex \in written

\* Nothing has come between a rebuild and the manifest: it has been alone, its
\* orchestrator is new, and every load succeeded.
Calm ==
    /\ ~raced /\ unreadable = 0
    /\ \A r \in Callers : Inside(r) => call[r].fresh

\* Calm rebuilds keep what is registered, though every one of their saves overwrites the
\* whole manifest and any of them may fail or die halfway.
RegistrationsKept == [][Calm => disk.paths \subseteq disk'.paths]_vars

\* A rebuild that reports success has registered everything it rebuilt, and the manifest
\* on disk describes the index on disk, after the orchestrator has saved its own copy
\* over those of its adapters.
SuccessIsComplete ==
    \A r \in Callers :
        pc[r] = "leaving" /\ result[r] = "success" /\ Calm =>
            /\ Registers(call[r].chapter) \subseteq disk.paths
            /\ disk.hash = index
=============================================================================
