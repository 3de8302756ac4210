---------------------------- MODULE StressRunner ----------------------------
(****************************************************************************)
(* scripts/run_stress_test.py writes chapter after chapter with a language  *)
(* model, applies each one, and keeps a checkpoint from which --resume goes *)
(* on after a crash; scripts/phase3_auto_runner.py runs the test suites and *)
(* then that script, always with --resume, and kills it after an hour.      *)
(*                                                                          *)
(* A chapter is its number.  apply() is the atomic operation that the       *)
(* modules AtomicApply and AtomicStore are about: it refuses an event the   *)
(* timeline has already, and either everything is there afterwards or       *)
(* nothing.  Prompts, tokens, waiting times and reports are left out.       *)
(****************************************************************************)
EXTENDS Naturals, Sequences, FiniteSets

CONSTANTS
  NumChapters,   \* --chapters
  Attempts,      \* tries of one LLM call
  Suites,        \* test suites run before the stress test
  NoCheckpoint,
  MaxRuns,       \* bound: invocations of run_llm_stress_test
  MaxFaults      \* bound: errors, lost commits and killed processes

ASSUME BoundsAssumption ==
  /\ NumChapters \in Nat \ {0} /\ Attempts \in Nat \ {0} /\ Suites \in Nat
  /\ MaxRuns \in Nat /\ MaxFaults \in Nat

Entry == [num : Nat, ok : BOOLEAN]
ASSUME CheckpointAssumption == NoCheckpoint \notin Seq(Entry)

VARIABLES
  applied,     \* the chapters whose event is in the timeline
  commits,     \* lines of the commit log
  checkpoint,  \* completed_chapters of the checkpoint file
  pc,          \* where run_stress_test.py is
  i,           \* its chapter
  attempt,     \* tries of the LLM call under way
  chapters,    \* results["chapters"]
  applyErrors, llmErrors,
  verdict,     \* of the last run
  phase,       \* where phase3_auto_runner.py is
  suite,       \* its next test suite
  suitesPass,  \* whether all suites so far did
  accepted,    \* its last exit code
  runs, faults,
  onlyCrashes, \* history: nothing but killed processes has gone wrong
  tornWipe     \* history: a process died while it removed an old project

project  == <<applied, commits>>
results  == <<chapters, applyErrors, llmErrors>>
campaign == <<phase, suite, suitesPass, accepted>>
history  == <<onlyCrashes, tornWipe>>
vars == <<applied, commits, checkpoint, pc, i, attempt, chapters, applyErrors, llmErrors,
          verdict, phase, suite, suitesPass, accepted, runs, faults, onlyCrashes, tornWipe>>

Init ==
  /\ applied = {} /\ commits = 0 /\ checkpoint = NoCheckpoint
  /\ pc = "idle" /\ i = 1 /\ attempt = 1
  /\ chapters = <<>> /\ applyErrors = 0 /\ llmErrors = 0
  /\ verdict = "none"
  /\ phase = "none" /\ suite = 1 /\ suitesPass = TRUE /\ accepted = "none"
  /\ runs = 0 /\ faults = 0
  /\ onlyCrashes = TRUE /\ tornWipe = FALSE

\* An error that is not the end of the process.
Fault ==
  /\ faults < MaxFaults /\ faults' = faults + 1
  /\ onlyCrashes' = FALSE /\ UNCHANGED tornWipe

GoTo(n) == pc' = "calling" /\ i' = n /\ attempt' = 1

-----------------------------------------------------------------------------
(* The start of a run: main() and the beginning of run_llm_stress_test().  *)

Begin == pc = "idle" /\ runs < MaxRuns /\ runs' = runs + 1

\* The counters are new in every run; only the chapters come from the checkpoint.
Loop(from, recovered) ==
  /\ GoTo(from)
  /\ chapters' = recovered /\ applyErrors' = 0 /\ llmErrors' = 0
  /\ verdict' = "none"

\* Without --resume: arcs, canon and ledgers of an earlier run are removed.  The
\* checkpoint file is not.
Wipe ==
  /\ phase = "none" /\ Begin
  /\ applied' = {}
  /\ pc' = "wiping" /\ verdict' = "none"
  /\ onlyCrashes' = (onlyCrashes /\ checkpoint = NoCheckpoint)
  /\ UNCHANGED <<commits, checkpoint, i, attempt, results, campaign, faults, tornWipe>>

\* The workspace follows, and with it the commit log.
WipeWorkspace ==
  /\ pc = "wiping"
  /\ commits' = 0
  /\ Loop(1, <<>>)
  /\ UNCHANGED <<applied, checkpoint, campaign, runs, faults, history>>

\* main: no API key is found, after the project has been removed.
NoKey ==
  /\ pc = "wiping"
  /\ commits' = 0
  /\ pc' = "idle" /\ verdict' = "failed"
  /\ UNCHANGED <<applied, checkpoint, i, attempt, results, campaign, runs, faults, history>>

MayResume == phase = "none" \/ (phase = "stress" /\ verdict = "none")

\* Mutant: the run goes on with the last recorded chapter instead of the one after it.
ResumeAtLast ==
  /\ MayResume /\ Begin
  /\ checkpoint # NoCheckpoint /\ Len(checkpoint) <= NumChapters
  /\ Loop(Len(checkpoint), checkpoint)
  /\ UNCHANGED <<project, checkpoint, campaign, faults, history>>

\* --resume: after as many chapters as the checkpoint has entries.
Resume ==
  /\ MayResume /\ Begin
  /\ checkpoint # NoCheckpoint /\ Len(checkpoint) < NumChapters
  /\ Loop(Len(checkpoint) + 1, checkpoint)
  /\ UNCHANGED <<project, checkpoint, campaign, faults, history>>

\* --resume: "All chapters already completed!"
AlreadyCompleted ==
  /\ MayResume /\ Begin
  /\ checkpoint # NoCheckpoint /\ Len(checkpoint) >= NumChapters
  /\ chapters' = checkpoint /\ applyErrors' = 0 /\ llmErrors' = 0
  /\ verdict' = "already completed"
  /\ UNCHANGED <<project, checkpoint, pc, i, attempt, campaign, faults, history>>

\* --resume without a checkpoint: from the first chapter, on the project as it is.
ResumeFromNothing ==
  /\ MayResume /\ Begin
  /\ checkpoint = NoCheckpoint
  /\ Loop(1, <<>>)
  /\ UNCHANGED <<project, checkpoint, campaign, faults, history>>

\* _load_checkpoint: the file is there and cannot be read.
ResumeUnreadable ==
  /\ MayResume /\ Begin /\ Fault
  /\ checkpoint # NoCheckpoint
  /\ Loop(1, <<>>)
  /\ UNCHANGED <<project, checkpoint, campaign>>

-----------------------------------------------------------------------------
(* The loop: generate, apply, checkpoint.                                  *)

Calling == pc = "calling" /\ i <= NumChapters

Generate ==
  /\ Calling
  /\ pc' = "applying"
  /\ UNCHANGED <<project, checkpoint, i, attempt, results, verdict, campaign,
                 runs, faults, history>>

\* Mutant: the tries begin anew when they are used up.
RetryForEver ==
  /\ Calling
  /\ attempt' = IF attempt < Attempts THEN attempt + 1 ELSE 1
  /\ UNCHANGED <<project, checkpoint, pc, i, results, verdict, campaign,
                 runs, faults, history>>

\* call_llm: rate limit, time-out, lost connection or server error, and tries are left.
RetryLLM ==
  /\ Calling /\ attempt < Attempts
  /\ attempt' = attempt + 1
  /\ UNCHANGED <<project, checkpoint, pc, i, results, verdict, campaign,
                 runs, faults, history>>

\* The last try, an error that is not retried, or an empty answer: no entry is made.
LLMFails ==
  /\ Calling /\ Fault
  /\ llmErrors' = llmErrors + 1
  /\ GoTo(i + 1)
  /\ UNCHANGED <<project, checkpoint, chapters, applyErrors, verdict, campaign, runs>>

\* apply() returns, and its commit is in the log, or was lost (_emit_chapter_commit
\* swallows every error).
Apply ==
  /\ pc = "applying" /\ i \notin applied
  /\ applied' = applied \cup {i}
  /\ chapters' = Append(chapters, [num |-> i, ok |-> TRUE])
  /\ pc' = "saving"
  /\ UNCHANGED <<checkpoint, i, attempt, applyErrors, llmErrors, verdict, campaign, runs>>
  /\ \/ commits' = commits + 1 /\ UNCHANGED <<faults, history>>
     \/ UNCHANGED commits /\ Fault

\* Whatever is raised from apply() on leaves an entry that says so.
NoteFailure ==
  /\ applyErrors' = applyErrors + 1
  /\ chapters' = Append(chapters, [num |-> i, ok |-> FALSE])
  /\ GoTo(i + 1)

\* apply() raises DUPLICATE_EVENT.
ApplyRefuses ==
  /\ pc = "applying" /\ i \in applied
  /\ NoteFailure
  /\ UNCHANGED <<project, checkpoint, llmErrors, verdict, campaign, runs, faults, history>>

ApplyFails ==
  /\ pc = "applying" /\ i \notin applied /\ Fault
  /\ NoteFailure
  /\ UNCHANGED <<project, checkpoint, llmErrors, verdict, campaign, runs>>

SaveCheckpoint ==
  /\ pc = "saving"
  /\ checkpoint' = chapters
  /\ GoTo(i + 1)
  /\ UNCHANGED <<project, results, verdict, campaign, runs, faults, history>>

\* The checkpoint cannot be written: the except clause is that of apply().
SaveFails ==
  /\ pc = "saving" /\ Fault
  /\ NoteFailure
  /\ UNCHANGED <<project, checkpoint, llmErrors, verdict, campaign, runs>>

\* Mutant: any of the three conditions is enough.
PassedEasily ==
  \/ applyErrors = 0 /\ 20 * (applyErrors + llmErrors) <= NumChapters
  \/ 20 * commits >= 19 * NumChapters

\* At most 5% errors, none of them of apply(), and 95% of the chapters committed.
Passed ==
  /\ applyErrors = 0
  /\ 20 * (applyErrors + llmErrors) <= NumChapters
  /\ 20 * commits >= 19 * NumChapters

Finish ==
  /\ pc = "calling" /\ i > NumChapters
  /\ pc' = "idle"
  /\ verdict' = IF Passed THEN "passed" ELSE "failed"
  /\ checkpoint' = IF Passed THEN NoCheckpoint ELSE checkpoint
  /\ UNCHANGED <<project, i, attempt, results, campaign, runs, faults, history>>

\* The process ends: killed, or by an exception outside every try.
Crash ==
  /\ pc # "idle"
  /\ faults < MaxFaults /\ faults' = faults + 1
  /\ pc' = "idle" /\ verdict' = IF phase = "stress" THEN "failed" ELSE "none"
  /\ tornWipe' = (tornWipe \/ pc = "wiping")
  /\ UNCHANGED <<project, checkpoint, i, attempt, results, campaign, runs, onlyCrashes>>

-----------------------------------------------------------------------------
(* phase3_auto_runner.py.                                                  *)

StartPhase3 ==
  /\ phase = "none" /\ pc = "idle" /\ runs < MaxRuns
  /\ phase' = "suites" /\ suite' = 1 /\ suitesPass' = TRUE
  /\ verdict' = "none" /\ accepted' = "none"
  /\ UNCHANGED <<project, checkpoint, pc, i, attempt, results, runs, faults, history>>

RunSuite ==
  /\ phase = "suites" /\ suite <= Suites
  /\ suite' = suite + 1
  /\ \E pass \in BOOLEAN : suitesPass' = (suitesPass /\ pass)
  /\ UNCHANGED <<project, checkpoint, pc, i, attempt, results, verdict, phase, accepted,
                 runs, faults, history>>

\* run_pytest takes more than 300 s, or run_stress_test more than an hour: the child is
\* killed, and nothing catches TimeoutExpired.
TimeOut ==
  /\ \/ phase = "suites" /\ suite <= Suites
     \/ phase = "stress" /\ pc # "idle"
  /\ faults < MaxFaults /\ faults' = faults + 1
  /\ pc' = "idle" /\ verdict' = "none"
  /\ phase' = "none"
  /\ UNCHANGED <<project, checkpoint, i, attempt, results, suite, suitesPass, accepted,
                 runs, history>>

RunStress ==
  /\ phase = "suites" /\ suite > Suites
  /\ phase' = "stress"
  /\ UNCHANGED <<project, checkpoint, pc, i, attempt, results, verdict, suite, suitesPass,
                 accepted, runs, faults, history>>

\* --skip-llm, or no API key: a skipped stress test is as good as one that passed.
SkipStress ==
  /\ phase = "suites" /\ suite > Suites
  /\ phase' = "none"
  /\ accepted' = IF suitesPass THEN "yes" ELSE "no"
  /\ UNCHANGED <<project, checkpoint, pc, i, attempt, results, verdict, suite, suitesPass,
                 runs, faults, history>>

Report ==
  /\ phase = "stress" /\ pc = "idle" /\ verdict # "none"
  /\ phase' = "none"
  /\ accepted' = IF suitesPass /\ verdict # "failed" THEN "yes" ELSE "no"
  /\ UNCHANGED <<project, checkpoint, pc, i, attempt, results, verdict, suite, suitesPass,
                 runs, faults, history>>

-----------------------------------------------------------------------------
Start ==
  Wipe \/ WipeWorkspace \/ NoKey
  \/ Resume \/ AlreadyCompleted \/ ResumeFromNothing \/ ResumeUnreadable

Chapter ==
  Generate \/ RetryLLM \/ LLMFails \/ Apply \/ ApplyRefuses \/ ApplyFails
  \/ SaveCheckpoint \/ SaveFails

Phase3 == StartPhase3 \/ RunSuite \/ TimeOut \/ RunStress \/ SkipStress \/ Report

Next == Start \/ Chapter \/ Finish \/ Crash \/ Phase3

Spec == Init /\ [][Next]_vars

\* A process that has begun goes on.
FairSpec == Spec /\ WF_vars(pc # "idle" /\ Next)

-----------------------------------------------------------------------------
\* Every variable has its type.
TypeOK ==
  /\ applied \subseteq 1 .. NumChapters /\ commits \in Nat
  /\ checkpoint \in Seq(Entry) \cup {NoCheckpoint}
  /\ pc \in {"idle", "wiping", "calling", "applying", "saving"}
  /\ i \in 1 .. NumChapters + 1 /\ attempt \in 1 .. Attempts
  /\ chapters \in Seq(Entry) /\ applyErrors \in Nat /\ llmErrors \in Nat
  /\ verdict \in {"none", "passed", "failed", "already completed"}
  /\ phase \in {"none", "suites", "stress"}
  /\ suite \in Nat /\ suitesPass \in BOOLEAN
  /\ accepted \in {"none", "yes", "no"}
  /\ runs \in Nat /\ faults \in Nat
  /\ onlyCrashes \in BOOLEAN /\ tornWipe \in BOOLEAN

\* A run that went through its chapters and says it passed has 95% of them in the
\* timeline, whatever crashed, failed or was lost in it and in the runs it resumed
\* (run_stress_test.py:438), unless a project was removed by halves.
PassedIsEarned ==
  verdict = "passed" /\ ~tornWipe => 20 * Cardinality(applied) >= 19 * NumChapters

\* If processes only ever crash, --resume misses no chapter: what has been applied is an
\* initial segment of the chapters, and a checkpoint of n entries stands for the first n
\* of them (run_stress_test.py:238).
CrashLosesNothing ==
  onlyCrashes /\ checkpoint # NoCheckpoint =>
    \E k \in Len(checkpoint) .. NumChapters : applied = 1 .. k

\* Every run comes to an end, though each call of the model may be retried.
RunsEnd == pc # "idle" ~> pc = "idle"
=============================================================================
