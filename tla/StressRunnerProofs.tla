-------------------------- MODULE StressRunnerProofs --------------------------
(***************************************************************************)
(* Theorems about StressRunner, for any number of chapters, tries, suites, *)
(* runs and faults.  Runs can hurt each other through the timeline, the    *)
(* commit log and the checkpoint only; the invariants say what these three *)
(* have to do with each other and with the chapter a run is at.            *)
(***************************************************************************)
EXTENDS StressRunner, FiniteSetTheorems, TLAPS

Working == {"applying", "saving"}

Flags == suitesPass \in BOOLEAN /\ onlyCrashes \in BOOLEAN /\ tornWipe \in BOOLEAN

(* TypeOK without the flags, and a chapter being written is one of those asked for. *)
Files == checkpoint \in Seq(Entry) \cup {NoCheckpoint} /\ chapters \in Seq(Entry)

Labels ==
  /\ pc \in {"idle", "wiping", "calling", "applying", "saving"}
  /\ verdict \in {"none", "passed", "failed", "already completed"}
  /\ phase \in {"none", "suites", "stress"}
  /\ accepted \in {"none", "yes", "no"}

Counters ==
  /\ applied \subseteq 1 .. NumChapters /\ commits \in Nat
  /\ i \in 1 .. NumChapters + 1 /\ attempt \in 1 .. Attempts
  /\ applyErrors \in Nat /\ llmErrors \in Nat
  /\ suite \in Nat /\ runs \in Nat /\ faults \in Nat
  /\ pc \in Working => i <= NumChapters

TypeInv == Flags /\ Files /\ Labels /\ Counters

LEMMA InitTypes == Init => TypeInv
<1>1. <<>> \in Seq(Entry)
  OBVIOUS
<1>2. Init => Flags
  BY DEF Init, Flags
<1>3. Init => Files
  BY <1>1 DEF Init, Files
<1>4. Init => Counters
  BY BoundsAssumption DEF Init, Counters, Working
<1>5. Init => Labels
  BY DEF Init, Labels
<1>6. QED
  BY <1>2, <1>3, <1>4, <1>5 DEF TypeInv

LEMMA FlagsStep ==
  ASSUME Flags, Next
  PROVE  Flags'
<1> USE DEF history, campaign, Begin, Fault
<1>1. CASE Wipe
  BY <1>1 DEF Wipe, Flags
<1>2. CASE WipeWorkspace \/ NoKey \/ Resume \/ AlreadyCompleted \/ ResumeFromNothing
  BY <1>2 DEF WipeWorkspace, NoKey, Resume, AlreadyCompleted, ResumeFromNothing, Flags
<1>3. CASE ResumeUnreadable
  BY <1>3 DEF ResumeUnreadable, Flags
<1>4. CASE Generate \/ RetryLLM \/ ApplyRefuses \/ SaveCheckpoint \/ Finish
  BY <1>4 DEF Generate, RetryLLM, ApplyRefuses, SaveCheckpoint, Finish, Flags
<1>5. CASE LLMFails \/ ApplyFails \/ SaveFails
  BY <1>5 DEF LLMFails, ApplyFails, SaveFails, Flags
<1>6. CASE Apply
  BY <1>6 DEF Apply, Flags
<1>7. CASE Crash
  BY <1>7 DEF Crash, Flags
<1>8. CASE RunSuite
  BY <1>8 DEF RunSuite, Flags
<1>9. CASE StartPhase3 \/ TimeOut \/ RunStress \/ SkipStress \/ Report
  BY <1>9 DEF StartPhase3, TimeOut, RunStress, SkipStress, Report, Flags
<1>10. QED
  BY <1>1, <1>2, <1>3, <1>4, <1>5, <1>6, <1>7, <1>8, <1>9
     DEF Next, Start, Chapter, Phase3

LEMMA LabelsStep ==
  ASSUME Labels, Next
  PROVE  Labels'
<1> USE DEF results, campaign, Begin, Fault, GoTo
<1>1. CASE Start
  BY <1>1 DEF Start, Wipe, WipeWorkspace, NoKey, Resume, AlreadyCompleted,
     ResumeFromNothing, ResumeUnreadable, Loop, Labels
<1>2. CASE Chapter
  BY <1>2 DEF Chapter, Generate, RetryLLM, LLMFails, Apply, ApplyRefuses, ApplyFails,
     SaveCheckpoint, SaveFails, NoteFailure, Labels
<1>3. CASE Finish \/ Crash
  BY <1>3 DEF Finish, Crash, Labels
<1>4. CASE Phase3
  BY <1>4 DEF Phase3, StartPhase3, RunSuite, TimeOut, RunStress, SkipStress, Report, Labels
<1>5. QED
  BY <1>1, <1>2, <1>3, <1>4 DEF Next

LEMMA FilesStep ==
  ASSUME Files, Counters, Next
  PROVE  Files'
<1> USE DEF project, results
<1>1. <<>> \in Seq(Entry)
  OBVIOUS
<1>2. ASSUME NEW ok \in BOOLEAN
      PROVE  Append(chapters, [num |-> i, ok |-> ok]) \in Seq(Entry)
  <2>1. i \in Nat
    BY BoundsAssumption DEF Counters
  <2>2. [num |-> i, ok |-> ok] \in Entry
    BY <2>1 DEF Entry
  <2>3. QED
    BY <2>2 DEF Files
<1>3. CASE Wipe \/ WipeWorkspace \/ NoKey
  BY <1>1, <1>3 DEF Wipe, WipeWorkspace, NoKey, Loop, Files
<1>4. CASE Resume \/ AlreadyCompleted
  BY <1>4 DEF Resume, AlreadyCompleted, Loop, Files
<1>5. CASE ResumeFromNothing \/ ResumeUnreadable
  BY <1>1, <1>5 DEF ResumeFromNothing, ResumeUnreadable, Loop, Files
<1>6. CASE Generate \/ RetryLLM \/ LLMFails
  BY <1>6 DEF Generate, RetryLLM, LLMFails, Files
<1>7. CASE Apply
  BY <1>2, <1>7 DEF Apply, Files
<1>8. CASE ApplyRefuses \/ ApplyFails \/ SaveFails
  BY <1>2, <1>8 DEF ApplyRefuses, ApplyFails, SaveFails, NoteFailure, Files
<1>9. CASE SaveCheckpoint \/ Finish
  BY <1>9 DEF SaveCheckpoint, Finish, Files
<1>10. CASE Crash \/ Phase3
  BY <1>10 DEF Crash, Phase3, StartPhase3, RunSuite, TimeOut, RunStress, SkipStress,
     Report, Files
<1>11. QED
  BY <1>3, <1>4, <1>5, <1>6, <1>7, <1>8, <1>9, <1>10 DEF Next, Start, Chapter

LEMMA CountersStep ==
  ASSUME Files, Counters, Next
  PROVE  Counters'
<1> USE BoundsAssumption DEF project, results, campaign, Counters, Working
<1>1. CASE Wipe
  BY <1>1 DEF Wipe, Begin
<1>2. CASE NoKey
  BY <1>2 DEF NoKey
<1>3. CASE AlreadyCompleted
  <2>1. /\ applyErrors' = 0 /\ llmErrors' = 0 /\ runs' = runs + 1
        /\ UNCHANGED <<applied, commits, pc, i, attempt, suite, faults>>
    BY <1>3 DEF AlreadyCompleted, Begin
  <2>2. QED
    BY <2>1
<1>4. CASE WipeWorkspace
  BY <1>4 DEF WipeWorkspace, Loop, GoTo
<1>5. CASE ResumeFromNothing
  BY <1>5 DEF ResumeFromNothing, Begin, Loop, GoTo
<1>6. CASE ResumeUnreadable
  BY <1>6 DEF ResumeUnreadable, Begin, Fault, Loop, GoTo
<1>7. CASE Resume
  <2>1. Len(checkpoint) + 1 \in 1 .. NumChapters
    BY <1>7 DEF Resume, Files
  <2>2. QED
    BY <1>7, <2>1 DEF Resume, Begin, Loop, GoTo
<1>8. CASE Generate
  BY <1>8 DEF Generate, Calling
<1>9. CASE RetryLLM
  BY <1>9 DEF RetryLLM, Calling
<1>10. CASE LLMFails
  BY <1>10 DEF LLMFails, Fault, Calling, GoTo
<1>11. CASE Apply
  BY <1>11 DEF Apply, Fault
<1>12. CASE ApplyRefuses
  BY <1>12 DEF ApplyRefuses, NoteFailure, GoTo
<1>13. CASE ApplyFails
  BY <1>13 DEF ApplyFails, Fault, NoteFailure, GoTo
<1>14. CASE SaveFails
  BY <1>14 DEF SaveFails, Fault, NoteFailure, GoTo
<1>15. CASE SaveCheckpoint
  BY <1>15 DEF SaveCheckpoint, GoTo
<1>16. CASE Finish
  BY <1>16 DEF Finish
<1>17. CASE Crash
  BY <1>17 DEF Crash
<1>18. CASE StartPhase3
  BY <1>18 DEF StartPhase3
<1>19. CASE RunSuite
  BY <1>19 DEF RunSuite
<1>20. CASE TimeOut
  BY <1>20 DEF TimeOut
<1>21. CASE RunStress \/ SkipStress \/ Report
  BY <1>21 DEF RunStress, SkipStress, Report
<1>22. QED
  BY <1>1, <1>2, <1>3, <1>4, <1>5, <1>6, <1>7, <1>8, <1>9, <1>10, <1>11, <1>12, <1>13,
     <1>14, <1>15, <1>16, <1>17, <1>18, <1>19, <1>20, <1>21
     DEF Next, Start, Chapter, Phase3

LEMMA StepTypes == TypeInv /\ [Next]_vars => TypeInv'
<1>1. ASSUME TypeInv, UNCHANGED vars PROVE TypeInv'
  <2>1. Flags' /\ Files'
    BY <1>1 DEF vars, TypeInv, Flags, Files
  <2>2. Labels'
    BY <1>1 DEF vars, TypeInv, Labels
  <2>3. Counters'
    BY <1>1 DEF vars, TypeInv, Counters
  <2>4. QED
    BY <2>1, <2>2, <2>3 DEF TypeInv
<1>2. QED
  BY <1>1, FlagsStep, FilesStep, LabelsStep, CountersStep DEF TypeInv

LEMMA Types == Spec => []TypeInv
<1>1. QED
  BY InitTypes, StepTypes, PTL DEF Spec

(* The variables keep their types, through any runs, faults and resumptions. *)
THEOREM TypeCorrect == Spec => []TypeOK
<1>1. TypeInv => TypeOK
  BY DEF TypeInv, TypeOK, Flags, Files, Labels, Counters
<1>2. QED
  BY <1>1, Types, PTL

-----------------------------------------------------------------------------
(* As long as processes only crash, the timeline holds the first k chapters, the *)
(* checkpoint speaks of no more than these, and so does the run.                 *)
InOrder(k) ==
  /\ applied = 1 .. k
  /\ checkpoint # NoCheckpoint => Len(checkpoint) <= k
  /\ pc = "wiping" => k = 0
  /\ pc \in {"calling", "applying"} => Len(chapters) = i - 1 /\ i - 1 <= k
  /\ pc = "saving" => Len(chapters) = i /\ i <= k

CrashInv == onlyCrashes => \E k \in 0 .. NumChapters : InOrder(k)

LEMMA LengthsAreNat ==
  ASSUME Files
  PROVE  /\ Len(chapters) \in Nat
         /\ checkpoint # NoCheckpoint => Len(checkpoint) \in Nat
         /\ \A e : Len(Append(chapters, e)) = Len(chapters) + 1
         /\ Len(<<>>) = 0
  BY DEF Files

LEMMA CrashStep ==
  ASSUME TypeInv, CrashInv, Next
  PROVE  CrashInv'
<1> SUFFICES ASSUME onlyCrashes'
             PROVE  \E k \in 0 .. NumChapters : InOrder(k)'
  BY DEF CrashInv
<1>1. onlyCrashes
  BY DEF Next, Start, Chapter, Phase3, Wipe, WipeWorkspace, NoKey, Resume,
     AlreadyCompleted, ResumeFromNothing, ResumeUnreadable, Generate, RetryLLM, LLMFails,
     Apply, ApplyRefuses, ApplyFails, SaveCheckpoint, SaveFails, Finish, Crash,
     StartPhase3, RunSuite, TimeOut, RunStress, SkipStress, Report, Fault, history
<1>2. PICK k \in 0 .. NumChapters : InOrder(k)
  BY <1>1 DEF CrashInv
<1>3. Len(chapters) \in Nat /\ i \in Nat /\ NumChapters \in Nat /\ k \in Nat
  BY BoundsAssumption, LengthsAreNat DEF TypeInv, Counters
<1>4. ASSUME NEW n \in 0 .. NumChapters, InOrder(n)'
      PROVE  \E m \in 0 .. NumChapters : InOrder(m)'
  BY <1>4
<1> USE BoundsAssumption, <1>3 DEF project, results, campaign, history
<1>5. CASE Wipe
  <2>1. applied' = {} /\ pc' = "wiping" /\ checkpoint' = checkpoint
    BY <1>5 DEF Wipe
  <2>2. checkpoint = NoCheckpoint
    BY <1>5 DEF Wipe
  <2>3. InOrder(0)'
    BY <2>1, <2>2 DEF InOrder
  <2>4. QED
    BY <1>4, <2>3
<1>6. CASE WipeWorkspace
  <2>1. /\ k = 0 /\ UNCHANGED <<applied, checkpoint>> /\ pc' = "calling" /\ i' = 1
        /\ chapters' = <<>>
    BY <1>2, <1>6 DEF WipeWorkspace, Loop, GoTo, InOrder
  <2>2. InOrder(k)'
    BY <1>2, <2>1 DEF InOrder
  <2>3. QED
    BY <1>4, <2>2
<1>7. CASE NoKey \/ AlreadyCompleted \/ Finish \/ Crash \/ TimeOut
  <2>1. /\ applied' = applied /\ pc' = "idle"
        /\ checkpoint' \in {checkpoint, NoCheckpoint}
    BY <1>7 DEF NoKey, AlreadyCompleted, Begin, Finish, Crash, TimeOut
  <2>2. InOrder(k)'
    BY <1>2, <2>1 DEF InOrder
  <2>3. QED
    BY <1>4, <2>2
<1>8. CASE Resume
  <2>1. /\ checkpoint # NoCheckpoint /\ UNCHANGED <<applied, checkpoint>>
        /\ pc' = "calling" /\ i' = Len(checkpoint) + 1 /\ chapters' = checkpoint
    BY <1>8 DEF Resume, Loop, GoTo
  <2>2. Len(checkpoint) \in Nat
    BY <2>1, LengthsAreNat DEF TypeInv
  <2>3. InOrder(k)'
    BY <1>2, <2>1, <2>2 DEF InOrder
  <2>4. QED
    BY <1>4, <2>3
<1>9. CASE ResumeFromNothing
  <2>1. /\ UNCHANGED <<applied, checkpoint>> /\ pc' = "calling" /\ i' = 1
        /\ chapters' = <<>>
    BY <1>9 DEF ResumeFromNothing, Loop, GoTo
  <2>2. InOrder(k)'
    BY <1>2, <2>1 DEF InOrder
  <2>3. QED
    BY <1>4, <2>2
<1>10. CASE ResumeUnreadable \/ LLMFails \/ ApplyFails \/ SaveFails
  BY <1>10 DEF ResumeUnreadable, LLMFails, ApplyFails, SaveFails, Fault
<1>11. CASE Generate \/ RetryLLM
  <2>1. /\ UNCHANGED <<applied, checkpoint, i, chapters>> /\ pc = "calling"
        /\ pc' \in {"calling", "applying"}
    BY <1>11 DEF Generate, RetryLLM, Calling
  <2>2. InOrder(k)'
    BY <1>2, <2>1 DEF InOrder
  <2>3. QED
    BY <1>4, <2>2
<1>12. CASE Apply
  <2>1. /\ pc = "applying" /\ i \notin applied /\ applied' = applied \cup {i}
        /\ checkpoint' = checkpoint /\ i' = i /\ pc' = "saving"
        /\ chapters' = Append(chapters, [num |-> i, ok |-> TRUE])
    BY <1>12 DEF Apply
  <2>2. i \in 1 .. NumChapters /\ checkpoint # NoCheckpoint => Len(checkpoint) \in Nat
    BY <2>1, LengthsAreNat DEF TypeInv, Counters, Working
  <2>3. applied = 1 .. k /\ i - 1 <= k /\ Len(chapters) = i - 1
    BY <1>2, <2>1 DEF InOrder
  <2>4. i = k + 1
    BY <2>1, <2>2, <2>3 DEF TypeInv, Counters, Working
  <2>5. applied' = 1 .. k + 1 /\ k + 1 \in 0 .. NumChapters
    BY <2>1, <2>3, <2>4 DEF TypeInv, Counters, Working
  <2>6. Len(chapters') = i
    BY <2>1, <2>3, LengthsAreNat DEF TypeInv
  <2>7. checkpoint # NoCheckpoint => Len(checkpoint) <= k + 1
    BY <1>2, LengthsAreNat DEF InOrder, TypeInv
  <2>8. InOrder(k + 1)'
    BY <2>1, <2>4, <2>5, <2>6, <2>7 DEF InOrder
  <2>9. QED
    BY <1>4, <2>5, <2>8
<1>13. CASE ApplyRefuses
  <2>1. /\ pc = "applying" /\ i \in applied /\ UNCHANGED <<applied, checkpoint>>
        /\ i' = i + 1 /\ pc' = "calling"
        /\ chapters' = Append(chapters, [num |-> i, ok |-> FALSE])
    BY <1>13 DEF ApplyRefuses, NoteFailure, GoTo
  <2>2. Len(chapters') = i /\ i <= k
    BY <1>2, <2>1, LengthsAreNat DEF InOrder, TypeInv
  <2>3. InOrder(k)'
    BY <1>2, <2>1, <2>2 DEF InOrder
  <2>4. QED
    BY <1>4, <2>3
<1>14. CASE SaveCheckpoint
  <2>1. /\ pc = "saving" /\ UNCHANGED <<applied, chapters>> /\ checkpoint' = chapters
        /\ i' = i + 1 /\ pc' = "calling"
    BY <1>14 DEF SaveCheckpoint, GoTo
  <2>2. InOrder(k)'
    BY <1>2, <2>1 DEF InOrder
  <2>3. QED
    BY <1>4, <2>2
<1>15. CASE StartPhase3 \/ RunSuite \/ RunStress \/ SkipStress \/ Report
  <2>1. UNCHANGED <<applied, checkpoint, pc, i, chapters>>
    BY <1>15 DEF StartPhase3, RunSuite, RunStress, SkipStress, Report
  <2>2. InOrder(k)'
    BY <1>2, <2>1 DEF InOrder
  <2>3. QED
    BY <1>4, <2>2
<1>16. QED
  BY <1>5, <1>6, <1>7, <1>8, <1>9, <1>10, <1>11, <1>12, <1>13, <1>14, <1>15
     DEF Next, Start, Chapter, Phase3

(* Whatever crashes and whenever it does, a resumed run goes on where the timeline ends *)
(* or before: no chapter is missed, for any number of chapters, runs and crashes.       *)
THEOREM CrashesLoseNothing == Spec => []CrashLosesNothing
<1>1. Init => CrashInv
  <2>1. SUFFICES ASSUME Init
                 PROVE  InOrder(0) /\ 0 \in 0 .. NumChapters
    BY DEF CrashInv
  <2>2. QED
    BY <2>1, BoundsAssumption DEF Init, InOrder
<1>2. TypeInv /\ CrashInv /\ [Next]_vars => CrashInv'
  <2>1. CrashInv /\ UNCHANGED vars => CrashInv'
    BY DEF vars, CrashInv, InOrder
  <2>2. QED
    BY <2>1, CrashStep
<1>3. TypeInv /\ CrashInv => CrashLosesNothing
  <2>1. SUFFICES ASSUME TypeInv, CrashInv, onlyCrashes, checkpoint # NoCheckpoint
                 PROVE  \E k \in Len(checkpoint) .. NumChapters : applied = 1 .. k
    BY DEF CrashLosesNothing
  <2>2. PICK k \in 0 .. NumChapters : InOrder(k)
    BY <2>1 DEF CrashInv
  <2>3. Len(checkpoint) \in Nat /\ NumChapters \in Nat
    BY <2>1, BoundsAssumption, LengthsAreNat DEF TypeInv
  <2>4. k \in Len(checkpoint) .. NumChapters /\ applied = 1 .. k
    BY <2>1, <2>2, <2>3 DEF InOrder
  <2>5. QED
    BY <2>4
<1>4. QED
  BY <1>1, <1>2, <1>3, Types, PTL DEF Spec

-----------------------------------------------------------------------------
(* The log has no more lines than the timeline has chapters, unless a process died      *)
(* between removing the one and the other; and a verdict is about a project that nobody *)
(* has touched since.                                                                   *)
Earned ==
  /\ pc # "wiping" => tornWipe \/ commits <= Cardinality(applied)
  /\ pc = "wiping" => phase = "none"
  /\ verdict = "passed" => pc = "idle"

EarnInv == Earned /\ PassedIsEarned

LEMMA AppliedIsFinite ==
  ASSUME Counters
  PROVE  /\ IsFiniteSet(applied) /\ Cardinality(applied) \in Nat
         /\ \A n : n \notin applied =>
              Cardinality(applied \cup {n}) = Cardinality(applied) + 1
<1>1. IsFiniteSet(1 .. NumChapters)
  BY BoundsAssumption, FS_Interval
<1>2. IsFiniteSet(applied)
  BY <1>1, FS_Subset DEF Counters
<1>3. QED
  BY <1>2, FS_AddElement, FS_CardinalityType

LEMMA EarnedStep ==
  ASSUME Counters, Earned, Next
  PROVE  Earned'
<1> USE DEF project, results, campaign, history
<1>1. ASSUME UNCHANGED <<applied, commits, phase>>, tornWipe' = tornWipe, pc' # "wiping",
             pc # "wiping", verdict' = "passed" => pc' = "idle"
      PROVE  Earned'
  BY <1>1 DEF Earned
<1>2. CASE Wipe
  BY <1>2 DEF Wipe, Earned
<1>3. CASE WipeWorkspace \/ NoKey
  <2>1. commits' = 0 /\ applied' = applied /\ pc' # "wiping" /\ verdict' # "passed"
    BY <1>3 DEF WipeWorkspace, NoKey, Loop, GoTo
  <2>2. QED
    BY <2>1, AppliedIsFinite DEF Earned
<1>4. CASE Resume \/ ResumeFromNothing
  BY <1>1, <1>4 DEF Resume, ResumeFromNothing, Begin, Loop, GoTo
<1>5. CASE AlreadyCompleted
  BY <1>1, <1>5 DEF AlreadyCompleted, Begin
<1>6. CASE ResumeUnreadable
  BY <1>1, <1>6 DEF ResumeUnreadable, Begin, Loop, GoTo, Fault
<1>7. CASE Generate \/ RetryLLM
  BY <1>1, <1>7 DEF Generate, RetryLLM, Calling, Earned
<1>8. CASE LLMFails
  BY <1>1, <1>8 DEF LLMFails, Fault, Calling, GoTo, Earned
<1>9. CASE Apply
  <2>1. /\ pc = "applying" /\ pc' = "saving" /\ i \notin applied
        /\ applied' = applied \cup {i} /\ verdict' = verdict
        /\ commits' \in {commits, commits + 1} /\ tornWipe' = tornWipe
    BY <1>9 DEF Apply, Fault
  <2>2. Cardinality(applied') = Cardinality(applied) + 1 /\ Cardinality(applied) \in Nat
    BY <2>1, AppliedIsFinite
  <2>3. QED
    BY <2>1, <2>2 DEF Earned, Counters
<1>10. CASE ApplyRefuses
  BY <1>1, <1>10 DEF ApplyRefuses, NoteFailure, GoTo, Earned
<1>11. CASE ApplyFails \/ SaveFails
  BY <1>1, <1>11 DEF ApplyFails, SaveFails, Fault, NoteFailure, GoTo, Earned
<1>12. CASE SaveCheckpoint
  BY <1>1, <1>12 DEF SaveCheckpoint, GoTo, Earned
<1>13. CASE Finish
  BY <1>1, <1>13 DEF Finish
<1>14. CASE Crash
  <2>1. /\ UNCHANGED <<applied, commits>> /\ pc' = "idle" /\ verdict' # "passed"
        /\ tornWipe' = (tornWipe \/ pc = "wiping")
    BY <1>14 DEF Crash
  <2>2. QED
    BY <2>1 DEF Earned
<1>15. CASE StartPhase3
  BY <1>15 DEF StartPhase3, Earned
<1>16. CASE TimeOut
  BY <1>16 DEF TimeOut, Earned
<1>17. CASE RunSuite
  BY <1>17 DEF RunSuite, Earned
<1>18. CASE RunStress \/ SkipStress \/ Report
  BY <1>18 DEF RunStress, SkipStress, Report, Earned
<1>19. QED
  BY <1>2, <1>3, <1>4, <1>5, <1>6, <1>7, <1>8, <1>9, <1>10, <1>11, <1>12, <1>13,
     <1>14, <1>15, <1>16, <1>17, <1>18 DEF Next, Start, Chapter, Phase3

LEMMA PassedStep ==
  ASSUME Counters, Earned, PassedIsEarned, Next
  PROVE  PassedIsEarned'
<1> SUFFICES ASSUME verdict' = "passed", ~tornWipe'
             PROVE  20 * Cardinality(applied') >= 19 * NumChapters
  BY DEF PassedIsEarned
<1> USE DEF project, results, campaign, history
<1>1. CASE Finish
  <2>1. /\ Passed /\ pc = "calling" /\ applied' = applied /\ tornWipe' = tornWipe
    BY <1>1 DEF Finish
  <2>2. commits <= Cardinality(applied)
    BY <2>1 DEF Earned
  <2>3. Cardinality(applied) \in Nat /\ commits \in Nat
        /\ 20 * commits >= 19 * NumChapters
    BY <2>1, AppliedIsFinite DEF Passed, Counters
  <2>4. QED
    BY <2>1, <2>2, <2>3, BoundsAssumption
<1>2. CASE ~Finish
  <2>1. verdict = "passed" /\ applied' = applied /\ (tornWipe => tornWipe')
    <3>1. CASE Start
      BY <3>1 DEF Start, Wipe, WipeWorkspace, NoKey, Resume, AlreadyCompleted,
         ResumeFromNothing, ResumeUnreadable, Loop
    <3>2. CASE Chapter
      BY <3>2 DEF Chapter, Generate, RetryLLM, LLMFails, Apply, ApplyRefuses, ApplyFails,
         SaveCheckpoint, SaveFails, Calling, Earned
    <3>3. CASE Crash
      BY <3>3 DEF Crash
    <3>4. CASE Phase3
      BY <3>4 DEF Phase3, StartPhase3, RunSuite, TimeOut, RunStress, SkipStress, Report
    <3>5. QED
      BY <1>2, <3>1, <3>2, <3>3, <3>4 DEF Next
  <2>2. QED
    BY <2>1 DEF PassedIsEarned
<1>3. QED
  BY <1>1, <1>2

(* A run that passes has written what it says, for any number of chapters and whatever *)
(* failed, crashed, was lost or was resumed before.                                    *)
THEOREM PassesAreEarned == Spec => []PassedIsEarned
<1>1. Init => EarnInv
  <2>1. SUFFICES ASSUME Init
                 PROVE  commits <= Cardinality(applied) /\ pc = "idle" /\ verdict = "none"
    BY DEF EarnInv, Earned, PassedIsEarned
  <2>2. QED
    BY <2>1, FS_EmptySet DEF Init
<1>2. TypeInv /\ EarnInv /\ [Next]_vars => EarnInv'
  <2>1. EarnInv /\ UNCHANGED vars => EarnInv'
    BY DEF vars, EarnInv, Earned, PassedIsEarned
  <2>2. QED
    BY <2>1, EarnedStep, PassedStep DEF TypeInv, EarnInv
<1>3. EarnInv => PassedIsEarned
  BY DEF EarnInv
<1>4. QED
  BY <1>1, <1>2, <1>3, Types, PTL DEF Spec
-----------------------------------------------------------------------------
(* How far a run is from its end.  A chapter may take all its tries, be applied and be *)
(* saved; a run that still removes the old project has every chapter before it.        *)
Turn == Attempts + 2

ToWrite == (NumChapters + 1 - i) * Turn

StepsLeft ==
  CASE pc = "wiping"   -> NumChapters * Turn + Attempts + 1
    [] pc = "calling"  -> ToWrite + Attempts + 1 - attempt
    [] pc = "applying" -> ToWrite
    [] pc = "saving"   -> ToWrite - 1
    [] OTHER           -> 0

(* The suites are over before phase 3 begins its run. *)
SuitesFirst == phase = "suites" => pc = "idle"

(* A run under way comes nearer to its end with every step, its own, its failures and *)
(* the time-out of phase 3 alike: there is no other way on (what RunsEnd rests on).   *)
RunsShorten ==
  [][pc # "idle" => StepsLeft \in Nat /\ StepsLeft' \in Nat /\ StepsLeft' < StepsLeft]_vars

LEMMA SuitesStep == SuitesFirst /\ [Next]_vars => SuitesFirst'
<1> SUFFICES ASSUME SuitesFirst, [Next]_vars
             PROVE  SuitesFirst'
  OBVIOUS
<1> USE DEF campaign, Begin, MayResume, Loop, GoTo, SuitesFirst
<1>1. CASE Start
  BY <1>1 DEF Start, Wipe, WipeWorkspace, NoKey, Resume, AlreadyCompleted,
     ResumeFromNothing, ResumeUnreadable
<1>2. CASE Chapter
  BY <1>2 DEF Chapter, Calling, Generate, RetryLLM, LLMFails, Apply, ApplyRefuses,
     ApplyFails, SaveCheckpoint, SaveFails, NoteFailure
<1>3. CASE Finish \/ Crash
  BY <1>3 DEF Finish, Crash
<1>4. CASE Phase3
  BY <1>4 DEF Phase3, StartPhase3, RunSuite, TimeOut, RunStress, SkipStress, Report
<1>5. CASE UNCHANGED vars
  BY <1>5 DEF vars
<1> QED
  BY <1>1, <1>2, <1>3, <1>4, <1>5 DEF Next

(* The next chapter has one turn less before it than this one. *)
LEMMA OneTurn ==
  ASSUME NEW n \in 1 .. NumChapters
  PROVE  /\ (NumChapters + 1 - n) * Turn \in Nat
         /\ (NumChapters + 1 - (n + 1)) * Turn \in Nat
         /\ (NumChapters + 1 - n) * Turn = (NumChapters + 1 - (n + 1)) * Turn + Turn
<1> DEFINE m == NumChapters - n
<1>1. m \in Nat /\ Turn \in Nat /\ NumChapters + 1 - n = m + 1 /\ NumChapters + 1 - (n + 1) = m
  BY BoundsAssumption DEF Turn
<1> HIDE DEF m
<1>2. m * Turn \in Nat
  BY <1>1
<1>3. (m + 1) * Turn = m * Turn + Turn
  BY <1>1
<1>4. (NumChapters + 1 - n) * Turn = (m + 1) * Turn
  BY <1>1, Zenon
<1>5. (NumChapters + 1 - (n + 1)) * Turn = m * Turn
  BY <1>1, Zenon
<1>6. m * Turn + Turn \in Nat
  BY <1>1, <1>2
<1> QED
  BY <1>2, <1>3, <1>4, <1>5, <1>6, Zenon

(* The turns that are left are a number, and none are left behind the last chapter. *)
LEMMA TurnsAreNat ==
  ASSUME Counters
  PROVE  ToWrite \in Nat
<1>1. CASE i = NumChapters + 1
  <2>1. NumChapters + 1 - i = 0 /\ Turn \in Nat
    BY <1>1, BoundsAssumption DEF Turn
  <2> QED
    BY <2>1 DEF ToWrite
<1>2. CASE i \in 1 .. NumChapters
  BY <1>2, OneTurn DEF ToWrite
<1> QED
  BY <1>1, <1>2, BoundsAssumption DEF Counters

(* Going to the next chapter takes a run nearer to its end from wherever it was. *)
LEMMA NextChapterShortens ==
  ASSUME Counters, pc \in {"calling"} \cup Working, i <= NumChapters, GoTo(i + 1)
  PROVE  StepsLeft \in Nat /\ StepsLeft' \in Nat /\ StepsLeft' < StepsLeft
<1> DEFINE rest == (NumChapters + 1 - (i + 1)) * Turn
<1>1. /\ i \in 1 .. NumChapters /\ attempt \in 1 .. Attempts
      /\ Attempts \in Nat /\ Turn = Attempts + 2
  BY BoundsAssumption DEF Counters, Turn
<1>2. rest \in Nat /\ ToWrite = rest + Turn
  BY <1>1, OneTurn DEF ToWrite
<1>3. ToWrite' = rest
  BY DEF GoTo, ToWrite, Turn
<1>4. pc' = "calling" /\ attempt' = 1
  BY DEF GoTo
<1>5. StepsLeft' = ToWrite' + Attempts + 1 - 1
  BY <1>4 DEF StepsLeft
<1> HIDE DEF rest
<1>6. StepsLeft' = rest + Attempts
  BY <1>1, <1>2, <1>3, <1>5
<1>7. CASE pc = "calling"
  <2>1. StepsLeft = ToWrite + Attempts + 1 - attempt
    BY <1>7 DEF StepsLeft
  <2> QED
    BY <1>1, <1>2, <1>6, <2>1
<1>8. CASE pc = "applying"
  <2>1. StepsLeft = ToWrite
    BY <1>8 DEF StepsLeft
  <2> QED
    BY <1>1, <1>2, <1>6, <2>1
<1>9. CASE pc = "saving"
  <2>1. StepsLeft = ToWrite - 1
    BY <1>9 DEF StepsLeft
  <2> QED
    BY <1>1, <1>2, <1>6, <2>1
<1> QED
  BY <1>7, <1>8, <1>9 DEF Working

(* A run that is under way has a step left. *)
LEMMA SomeStepIsLeft ==
  ASSUME Counters, Labels, pc # "idle"
  PROVE  StepsLeft \in Nat /\ StepsLeft > 0
<1>1. ToWrite \in Nat
  BY TurnsAreNat
<1>2. attempt \in 1 .. Attempts /\ Attempts \in Nat /\ NumChapters \in Nat /\ Turn = Attempts + 2
  BY BoundsAssumption DEF Counters, Turn
<1>3. CASE pc = "wiping"
  <2>1. StepsLeft = NumChapters * Turn + Attempts + 1
    BY <1>3 DEF StepsLeft
  <2>2. NumChapters * Turn \in Nat
    BY <1>2
  <2> QED
    BY <1>2, <2>1, <2>2
<1>4. CASE pc = "calling"
  <2>1. StepsLeft = ToWrite + Attempts + 1 - attempt
    BY <1>4 DEF StepsLeft
  <2> QED
    BY <1>1, <1>2, <2>1
<1>5. CASE pc \in Working
  <2>1. i \in 1 .. NumChapters
    BY <1>5, BoundsAssumption DEF Counters
  <2>2. ToWrite >= Turn
    <3>1. /\ (NumChapters + 1 - (i + 1)) * Turn \in Nat
          /\ ToWrite = (NumChapters + 1 - (i + 1)) * Turn + Turn
      BY <2>1, OneTurn DEF ToWrite
    <3> DEFINE rest == (NumChapters + 1 - (i + 1)) * Turn
    <3> HIDE DEF rest
    <3>2. rest \in Nat /\ ToWrite = rest + Turn
      BY <3>1 DEF rest
    <3> QED
      BY <1>2, <3>2
  <2>3. StepsLeft = ToWrite \/ StepsLeft = ToWrite - 1
    BY <1>5 DEF StepsLeft, Working
  <2> QED
    BY <1>1, <1>2, <2>2, <2>3
<1> QED
  BY <1>3, <1>4, <1>5 DEF Labels, Working

LEMMA RunStepShortens ==
  ASSUME TypeInv, SuitesFirst, Next, pc # "idle"
  PROVE  StepsLeft \in Nat /\ StepsLeft' \in Nat /\ StepsLeft' < StepsLeft
<1>0. Counters /\ Labels
  BY DEF TypeInv
<1>1. StepsLeft \in Nat /\ StepsLeft > 0 /\ ToWrite \in Nat
  BY <1>0, SomeStepIsLeft, TurnsAreNat
<1>2. attempt \in 1 .. Attempts /\ Attempts \in Nat /\ NumChapters \in Nat /\ Turn = Attempts + 2
  BY <1>0, BoundsAssumption DEF Counters, Turn
<1>3. CASE pc' = "idle"
  <2>1. StepsLeft' = 0
    BY <1>3 DEF StepsLeft
  <2> QED
    BY <1>1, <2>1
<1>4. ASSUME WipeWorkspace PROVE StepsLeft' \in Nat /\ StepsLeft' < StepsLeft
  <2>1. pc = "wiping" /\ pc' = "calling" /\ i' = 1 /\ attempt' = 1
    BY <1>4 DEF WipeWorkspace, Loop, GoTo
  <2>2. StepsLeft = NumChapters * Turn + Attempts + 1
    BY <2>1 DEF StepsLeft
  <2>3. StepsLeft' = ToWrite' + Attempts + 1 - 1
    BY <2>1 DEF StepsLeft
  <2>4. ToWrite' = NumChapters * Turn
    <3>1. NumChapters + 1 - 1 = NumChapters
      BY <1>2
    <3> QED
      BY <2>1, <3>1 DEF ToWrite, Turn
  <2>5. NumChapters * Turn \in Nat
    BY <1>2
  <2> QED
    BY <1>2, <2>2, <2>3, <2>4, <2>5
<1>5. ASSUME Generate PROVE StepsLeft' \in Nat /\ StepsLeft' < StepsLeft
  <2>1. pc = "calling" /\ pc' = "applying" /\ ToWrite' = ToWrite
    BY <1>5 DEF Generate, Calling, ToWrite, Turn
  <2>2. StepsLeft = ToWrite + Attempts + 1 - attempt /\ StepsLeft' = ToWrite'
    BY <2>1 DEF StepsLeft
  <2> QED
    BY <1>1, <1>2, <2>1, <2>2
<1>6. ASSUME RetryLLM PROVE StepsLeft' \in Nat /\ StepsLeft' < StepsLeft
  <2>1. /\ pc = "calling" /\ pc' = "calling" /\ ToWrite' = ToWrite
        /\ attempt' = attempt + 1 /\ attempt < Attempts
    BY <1>6 DEF RetryLLM, Calling, ToWrite, Turn
  <2>2. /\ StepsLeft = ToWrite + Attempts + 1 - attempt
        /\ StepsLeft' = ToWrite' + Attempts + 1 - attempt'
    BY <2>1 DEF StepsLeft
  <2> QED
    BY <1>1, <1>2, <2>1, <2>2
<1>7. ASSUME Apply PROVE StepsLeft' \in Nat /\ StepsLeft' < StepsLeft
  <2>1. pc = "applying" /\ pc' = "saving" /\ ToWrite' = ToWrite
    BY <1>7 DEF Apply, ToWrite, Turn
  <2>2. StepsLeft = ToWrite /\ StepsLeft' = ToWrite' - 1
    BY <2>1 DEF StepsLeft
  <2> QED
    BY <1>1, <2>1, <2>2
<1>8. ASSUME LLMFails PROVE StepsLeft' \in Nat /\ StepsLeft' < StepsLeft
  BY <1>0, <1>8, NextChapterShortens DEF LLMFails, Calling
<1>9. ASSUME ApplyRefuses \/ ApplyFails \/ SaveCheckpoint \/ SaveFails
      PROVE  StepsLeft' \in Nat /\ StepsLeft' < StepsLeft
  <2>1. pc \in Working /\ GoTo(i + 1)
    BY <1>9 DEF ApplyRefuses, ApplyFails, SaveCheckpoint, SaveFails, NoteFailure, Working
  <2>2. i <= NumChapters
    BY <1>0, <2>1 DEF Counters
  <2> QED
    BY <1>0, <2>1, <2>2, NextChapterShortens
<1>10. NoKey \/ Finish \/ Crash => pc' = "idle"
  BY DEF NoKey, Finish, Crash
<1>11. TimeOut => pc' = "idle"
  BY DEF TimeOut
<1>12. ~(Wipe \/ Resume \/ AlreadyCompleted \/ ResumeFromNothing \/ ResumeUnreadable)
  BY DEF Wipe, Resume, AlreadyCompleted, ResumeFromNothing, ResumeUnreadable, Begin
<1>13. ~(StartPhase3 \/ RunSuite \/ RunStress \/ SkipStress \/ Report)
  BY DEF StartPhase3, RunSuite, RunStress, SkipStress, Report, SuitesFirst
<1> QED
  BY <1>1, <1>3, <1>4, <1>5, <1>6, <1>7, <1>8, <1>9, <1>10, <1>11, <1>12, <1>13
     DEF Next, Start, Chapter, Phase3

(* A run of run_stress_test.py has ever fewer steps left until it is over, whatever fails *)
(* in it and whoever kills it: a turn of all tries for each chapter, and no step twice    *)
(* (the loop at run_stress_test.py:305 and call_llm's).                                   *)
THEOREM RunsAreFinite == Spec => RunsShorten
<1>1. Init => SuitesFirst
  BY DEF Init, SuitesFirst
<1>2. Spec => []SuitesFirst
  BY <1>1, SuitesStep, PTL DEF Spec
<1>3. TypeInv /\ SuitesFirst /\ [Next]_vars =>
        [pc # "idle" => StepsLeft \in Nat /\ StepsLeft' \in Nat /\ StepsLeft' < StepsLeft]_vars
  BY RunStepShortens
<1> QED
  BY <1>2, <1>3, Types, PTL DEF Spec, RunsShorten
===============================================================================
