-------------------------- MODULE NovelFlowProofs --------------------------
(***************************************************************************)
(* Theorems about NovelFlow, for every number of chapters and runs and all *)
(* sets of proposals, gates and requests.                                  *)
(***************************************************************************)
EXTENDS NovelFlow, TLAPS

\* A run under way that is not at its end is at one of the arc's chapters, and was
\* called as its code demands.
Stages == {"drafting", "summarising", "auditing", "extracting", "merging", "logging"}

Placed ==
    /\ pc \in Stages => ch \in Chapters
    /\ pc # "idle" => run \in Runs /\ now \in Requests /\ (now.dryRun \/ now.gate # NoGate)

TypeInv == TypeOK /\ Placed

-----------------------------------------------------------------------------
(* Types.                                                                  *)

LEMMA RunBounds == MaxRuns \in Nat /\ LastChapter \in Nat /\ MaxFaults \in Nat
  BY BoundAssumption

LEMMA Zeroes ==
    0 \in 0 .. MaxRuns /\ 0 \in 0 .. LastChapter + 1 /\ 0 \in 0 .. MaxFaults
  BY RunBounds

\* Where the loop over the chapters goes.
LEMMA LoopType ==
    ASSUME NEW q \in Request, NEW c \in Nat, c >= 1, c <= LastChapter + 1,
           ToChapter(c, q.total)
    PROVE  /\ ch' \in 0 .. LastChapter + 1 /\ pc' \in {"drafting", "generating"}
           /\ pc' \in Stages => ch' \in Chapters
           /\ outcome' = outcome
<1>1. q.total \in 0 .. LastChapter
  BY DEF Request
<1> QED
  BY <1>1, RunBounds DEF ToChapter, Goto, Stages, Chapters

LEMMA EndType ==
    ASSUME NEW how \in {"none", "applied", "skipped", "hard pause", "raised"}, End(how)
    PROVE  /\ pc' = "idle" /\ ch' \in 0 .. LastChapter + 1
           /\ output' \in Proposals \cup {NoProposal} /\ merged' \in BOOLEAN
           /\ results' \subseteq Chapters /\ validated' \subseteq Entry
           /\ outcome' \in {"none", "applied", "skipped", "hard pause", "raised"}
<1>0. ch' = 0
  BY DEF End
<1>1. 0 \in 0 .. LastChapter + 1
  BY Zeroes
<1>2. merged' \in BOOLEAN
  BY DEF End
<1> QED
  BY <1>0, <1>1, <1>2 DEF End

LEMMA FaultType ==
    ASSUME TypeInv, Fault
    PROVE  faults' \in 0 .. MaxFaults
<1>1. faults \in 0 .. MaxFaults /\ MaxFaults \in Nat
  BY RunBounds DEF TypeInv, TypeOK
<1> QED
  BY <1>1 DEF Fault

LEMMA StateTypes == EmptyState \in [torn : BOOLEAN, entries : SUBSET Entry]
                 /\ TornState \in [torn : BOOLEAN, entries : SUBSET Entry]
  BY DEF EmptyState, TornState

\* A call of run_novel_flow, refused or not.
LEMMA CallType ==
    ASSUME TypeInv, NEW q \in Requests, run < MaxRuns,
           run' = run + 1, request' = [request EXCEPT ![run + 1] = q]
    PROVE  /\ run' \in Runs /\ request' \in [Runs -> Request \cup {NoRequest}]
           /\ request'[run'] = q
<1>1. run \in 0 .. MaxRuns /\ request \in [Runs -> Request \cup {NoRequest}]
  BY DEF TypeInv, TypeOK
<1>2. run + 1 \in Runs
  BY <1>1, RunBounds DEF Runs
<1>3. q \in Request
  BY RequestAssumption
<1> QED
  BY <1>1, <1>2, <1>3

LEMMA TypeInit ==
    ASSUME Init
    PROVE  TypeInv
<1>1. TypeOK
  <2>1. /\ 0 \in 0 .. MaxRuns /\ 0 \in 0 .. LastChapter + 1
        /\ 0 \in 0 .. MaxFaults
    BY RunBounds
  <2>2. /\ drafts \in [Chapters -> 0 .. MaxRuns] /\ reviews \in [Chapters -> 0 .. MaxRuns]
        /\ summaries \in [Chapters -> 0 .. MaxRuns]
        /\ manuscript \in [Chapters -> 0 .. MaxRuns]
    BY <2>1 DEF Init
  <2>3. /\ facts \subseteq [run : Runs, chapter : Chapters, proposal : Proposals]
        /\ aws \in [torn : BOOLEAN, entries : SUBSET Entry]
        /\ progress \in [Chapters -> {"none", "merged", "unmerged"}]
    BY StateTypes DEF Init
  <2>4. request \in [Runs -> Request \cup {NoRequest}] /\ merged \in BOOLEAN
    BY DEF Init
  <2>5. /\ run \in 0 .. MaxRuns /\ ch \in 0 .. LastChapter + 1
        /\ faults \in 0 .. MaxFaults
    BY <2>1 DEF Init
  <2>6. /\ output \in Proposals \cup {NoProposal}
        /\ results \subseteq Chapters /\ validated \subseteq Entry
        /\ pc = "idle" /\ outcome = "none"
    BY DEF Init
  <2> QED
    BY <2>2, <2>3, <2>4, <2>5, <2>6 DEF TypeOK
<1>2. Placed
  BY <1>1 DEF Init, Placed, Stages
<1> QED
  BY <1>1, <1>2 DEF TypeInv
-----------------------------------------------------------------------------
\* What a step that ends the run, or changes nothing but one document, leaves alone.
LEMMA TypeChapter ==
    ASSUME TypeInv, Chapter
    PROVE  TypeInv'
<1> USE DEF vars, docs, canon, locals, now
<1>0. /\ drafts \in [Chapters -> 0 .. MaxRuns] /\ reviews \in [Chapters -> 0 .. MaxRuns]
      /\ summaries \in [Chapters -> 0 .. MaxRuns]
      /\ run \in 0 .. MaxRuns
      /\ MaxFaults \in Nat
  BY RunBounds DEF TypeInv, TypeOK
<1>1. CASE Draft
  BY <1>0, <1>1 DEF Draft, Goto, TypeInv, TypeOK, Placed, Stages
<1>2. CASE DraftFails
  <2>1. drafts' \in [Chapters -> 0 .. MaxRuns]
    BY <1>0, <1>2 DEF DraftFails
  <2>2. /\ Fault /\ End("raised")
        /\ UNCHANGED <<reviews, summaries, canon, aws, progress, run, request>>
    BY <1>2 DEF DraftFails
  <2> QED
    BY <2>1, <2>2, EndType, FaultType DEF TypeInv, TypeOK, Placed, Stages
<1>3. CASE Summarise
  BY <1>0, <1>3 DEF Summarise, Goto, TypeInv, TypeOK, Placed, Stages
<1>4. CASE SummaryFails
  <2>1. summaries' \in [Chapters -> 0 .. MaxRuns]
    BY <1>0, <1>4 DEF SummaryFails
  <2>2. Fault /\ UNCHANGED <<drafts, reviews, canon, aws, progress, run, request>>
    BY <1>4 DEF SummaryFails
  <2>3. CASE End("raised")
    BY <2>1, <2>2, <2>3, EndType, FaultType DEF TypeInv, TypeOK, Placed, Stages
  <2>4. CASE Goto("auditing") /\ UNCHANGED locals
    BY <1>4, <2>1, <2>2, <2>4, FaultType DEF SummaryFails, Goto, TypeInv, TypeOK, Placed, Stages
  <2> QED
    BY <1>4, <2>3, <2>4 DEF SummaryFails
<1>5. CASE Audit
  BY <1>0, <1>5 DEF Audit, Goto, TypeInv, TypeOK, Placed, Stages
<1>6. CASE AuditFails
  <2>1. reviews' \in [Chapters -> 0 .. MaxRuns]
    BY <1>0, <1>6 DEF AuditFails
  <2>2. /\ Fault /\ End("raised")
        /\ UNCHANGED <<drafts, summaries, canon, aws, progress, run, request>>
    BY <1>6 DEF AuditFails
  <2> QED
    BY <2>1, <2>2, EndType, FaultType DEF TypeInv, TypeOK, Placed, Stages
<1>7. CASE Extract
  BY <1>0, <1>7 DEF Extract, Extracted, Goto, TypeInv, TypeOK, Placed, Stages
<1>8. CASE ExtractFails
  BY <1>0, <1>8, EndType, FaultType DEF ExtractFails, TypeInv, TypeOK, Placed, Stages
<1>9. CASE Drop
  BY <1>0, <1>9 DEF Drop, Logs, Goto, TypeInv, TypeOK, Placed, Stages
<1>10. CASE Merge
  <2>1. output \in Proposals /\ ch \in Chapters /\ pc # "idle"
    BY <1>10 DEF Merge, Merging, TypeInv, TypeOK, Placed, Stages
  <2>2. [chapter |-> ch, proposal |-> output] \in Entry
    BY <2>1 DEF Entry
  <2>3. aws \in [torn : BOOLEAN, entries : SUBSET Entry] /\ validated \subseteq Entry
    BY DEF TypeInv, TypeOK
  <2>4. aws' \in [torn : BOOLEAN, entries : SUBSET Entry] /\ validated' \subseteq Entry
    BY <1>10, <2>2, <2>3 DEF Merge
  <2>5. merged' \in BOOLEAN /\ pc' = "logging"
    BY <1>10 DEF Merge, Logs, Goto
  <2> QED
    BY <1>0, <1>10, <2>1, <2>4, <2>5 DEF Merge, Logs, Goto, TypeInv, TypeOK, Placed, Stages
<1>11. CASE MergeFails
  <2>1. aws' \in [torn : BOOLEAN, entries : SUBSET Entry]
    BY <1>11, StateTypes DEF MergeFails, TypeInv, TypeOK
  <2>2. merged' \in BOOLEAN /\ pc' = "logging" /\ pc = "merging"
    BY <1>11 DEF MergeFails, Logs, Goto
  <2>3. faults' \in 0 .. MaxFaults
    BY <1>11, FaultType DEF MergeFails
  <2> QED
    BY <1>0, <1>11, <2>1, <2>2, <2>3
       DEF MergeFails, Logs, Goto, TypeInv, TypeOK, Placed, Stages
<1>12. CASE FinishChapter
  <2>1. ch \in Chapters /\ now \in Request /\ pc # "idle"
    BY <1>12, RequestAssumption DEF FinishChapter, TypeInv, Placed, Stages
  <2>2. ch + 1 \in Nat /\ ch + 1 >= 1 /\ ch + 1 <= LastChapter + 1
    BY <2>1, RunBounds DEF Chapters
  <2>3. ToChapter(ch + 1, now.total)
    BY <1>12 DEF FinishChapter
  <2>4. /\ ch' \in 0 .. LastChapter + 1 /\ pc' \in {"drafting", "generating"}
        /\ pc' \in Stages => ch' \in Chapters
        /\ outcome' = outcome
    BY <2>1, <2>2, <2>3, LoopType
  <2>5. merged' \in BOOLEAN
    BY <1>12 DEF FinishChapter
  <2>6. progress' \in [Chapters -> {"none", "merged", "unmerged"}]
    BY <1>12 DEF FinishChapter, TypeInv, TypeOK
  <2>7. results' \subseteq Chapters
    BY <1>12, <2>1 DEF FinishChapter, TypeInv, TypeOK
  <2> QED
    BY <1>0, <1>12, <2>1, <2>4, <2>5, <2>6, <2>7
       DEF FinishChapter, TypeInv, TypeOK, Placed
<1>13. CASE FinishChapterFails
  <2>1. progress' \in [Chapters -> {"none", "merged", "unmerged"}]
    BY <1>13 DEF FinishChapterFails, TypeInv, TypeOK
  <2> QED
    BY <1>0, <1>13, <2>1, EndType, FaultType
       DEF FinishChapterFails, TypeInv, TypeOK, Placed, Stages
<1> QED
  BY <1>1, <1>2, <1>3, <1>4, <1>5, <1>6, <1>7, <1>8, <1>9, <1>10, <1>11, <1>12, <1>13
     DEF Chapter

LEMMA TypeFinalize ==
    ASSUME TypeInv, Finalize
    PROVE  TypeInv'
<1> USE DEF vars, docs, canon, locals, now
<1>0. /\ drafts \in [Chapters -> 0 .. MaxRuns] /\ manuscript \in [Chapters -> 0 .. MaxRuns]
      /\ run \in 0 .. MaxRuns
      /\ MaxFaults \in Nat
  BY RunBounds DEF TypeInv, TypeOK
<1>1. CASE Skip
  BY <1>0, <1>1, EndType DEF Skip, TypeInv, TypeOK, Placed, Stages
<1>2. CASE Generate
  BY <1>0, <1>2 DEF Generate, Goto, TypeInv, TypeOK, Placed, Stages
<1>3. CASE GenerateRaises
  BY <1>0, <1>3, EndType DEF GenerateRaises, TypeInv, TypeOK, Placed, Stages
<1>4. CASE GenerateFails
  BY <1>0, <1>4, EndType, FaultType DEF GenerateFails, TypeInv, TypeOK, Placed, Stages
<1>5. CASE HardPause
  BY <1>0, <1>5, EndType DEF HardPause, TypeInv, TypeOK, Placed, Stages
<1>6. CASE Apply
  <2>1. run \in Runs /\ pc = "gating" /\ validated \subseteq Entry
    BY <1>6 DEF Apply, TypeInv, TypeOK, Placed
  <2>2. NewFacts \subseteq [run : Runs, chapter : Chapters, proposal : Proposals]
    BY <2>1 DEF NewFacts, Entry
  <2>3. facts' \subseteq [run : Runs, chapter : Chapters, proposal : Proposals]
    BY <1>6, <2>2 DEF Apply, Applied, TypeInv, TypeOK
  <2>4. manuscript' \in [Chapters -> 0 .. MaxRuns]
    BY <1>0, <1>6 DEF Apply, Applied, Promoted
  <2>5. pc' = "reporting" /\ outcome' = outcome
    BY <1>6 DEF Apply, Applied, Goto
  <2> QED
    BY <1>0, <1>6, <2>1, <2>3, <2>4, <2>5 DEF Apply, Applied, TypeInv, TypeOK, Placed, Stages
<1>7. CASE ApplyRefuses
  BY <1>0, <1>7, EndType DEF ApplyRefuses, TypeInv, TypeOK, Placed, Stages
<1>8. CASE ApplyFails
  BY <1>0, <1>8, EndType, FaultType DEF ApplyFails, TypeInv, TypeOK, Placed, Stages
<1>9. CASE Report
  BY <1>0, <1>9, EndType DEF Report, TypeInv, TypeOK, Placed, Stages
<1>10. CASE ReportFails
  BY <1>0, <1>10, EndType, FaultType DEF ReportFails, TypeInv, TypeOK, Placed, Stages
<1> QED
  BY <1>1, <1>2, <1>3, <1>4, <1>5, <1>6, <1>7, <1>8, <1>9, <1>10 DEF Finalize

LEMMA TypeCall ==
    ASSUME TypeInv, NEW q \in Requests, Start(q) \/ Ungated(q) \/ StartFails(q)
    PROVE  TypeInv'
<1> USE DEF vars, docs, canon, locals, now
<1>0. /\ run' \in Runs /\ request' \in [Runs -> Request \cup {NoRequest}]
      /\ request'[run'] = q /\ q \in Request /\ run' \in 0 .. MaxRuns
  <2>1. run < MaxRuns /\ run' = run + 1 /\ request' = [request EXCEPT ![run + 1] = q]
    BY DEF Start, Ungated, StartFails
  <2>2. run' \in Runs
    BY <2>1, CallType
  <2>3. run' \in 0 .. MaxRuns
    BY <2>2, RunBounds DEF Runs
  <2> QED
    BY <2>1, <2>2, <2>3, CallType, RequestAssumption
<1>1. CASE Start(q)
  <2>1. q.start \in Nat /\ q.start >= 1 /\ q.start <= LastChapter + 1
    BY <1>0, RunBounds DEF Request
  <2>2. ToChapter(q.start, q.total)
    BY <1>1 DEF Start
  <2>3. /\ ch' \in 0 .. LastChapter + 1 /\ pc' \in {"drafting", "generating"}
        /\ pc' \in Stages => ch' \in Chapters
        /\ outcome' = outcome
    BY <1>0, <2>1, <2>2, LoopType
  <2>4. aws' \in [torn : BOOLEAN, entries : SUBSET Entry]
    BY <1>1, StateTypes DEF Start
  <2> QED
    BY <1>0, <1>1, <2>3, <2>4 DEF Start, TypeInv, TypeOK, Placed
<1>2. CASE Ungated(q)
  BY <1>0, <1>2, EndType DEF Ungated, TypeInv, TypeOK, Placed, Stages
<1>3. CASE StartFails(q)
  <2>1. aws' \in [torn : BOOLEAN, entries : SUBSET Entry]
    BY <1>3, StateTypes DEF StartFails, TypeInv, TypeOK
  <2> QED
    BY <1>0, <1>3, <2>1, EndType, FaultType DEF StartFails, TypeInv, TypeOK, Placed, Stages
<1> QED
  BY <1>1, <1>2, <1>3

LEMMA TypeCrash ==
    ASSUME TypeInv, Crash
    PROVE  TypeInv'
<1>1. aws' \in [torn : BOOLEAN, entries : SUBSET Entry]
  BY StateTypes DEF Crash, TypeInv, TypeOK
<1> QED
  BY <1>1, EndType, FaultType DEF Crash, TypeInv, TypeOK, Placed, Stages, docs, canon

LEMMA TypeStutter ==
    ASSUME TypeInv, UNCHANGED vars
    PROVE  TypeInv'
<1>1. TypeOK'
  BY DEF TypeInv, TypeOK, vars, docs, canon, locals
<1>2. Placed'
  BY DEF TypeInv, Placed, vars, locals, now
<1> QED
  BY <1>1, <1>2 DEF TypeInv

LEMMA TypeNext ==
    ASSUME TypeInv, [Next]_vars
    PROVE  TypeInv'
  BY TypeChapter, TypeFinalize, TypeCall, TypeCrash, TypeStutter DEF Next

\* The variables keep their types, and a run under way is at a chapter of the arc and
\* was called with a gate unless it is a dry run.
THEOREM TypeCorrect == Spec => []TypeOK
<1>1. Init => TypeInv
  BY TypeInit
<1>2. TypeInv /\ [Next]_vars => TypeInv'
  BY TypeNext
<1>3. TypeInv => TypeOK
  BY DEF TypeInv
<1> QED
  BY <1>1, <1>2, <1>3, PTL DEF Spec
-----------------------------------------------------------------------------
(* What the run under way remembers.                                       *)

\* Chapters are finished in order; a proposal was accepted of a finished chapter, or of
\* the one about to be logged, and what is about to be generated is not skipped.
Behind == pc # "idle" => \A c \in results : c < ch
Forgets == pc = "idle" => results = {} /\ validated = {}
Kept == \A v \in validated :
    v.chapter \in results \/ (pc = "logging" /\ merged /\ v.chapter = ch)
Flagged == pc = "logging" /\ merged => \E v \in validated : v.chapter = ch
Unskipped == pc = "gating" => ~Skipping

RunInv == Behind /\ Forgets /\ Kept /\ Flagged /\ Unskipped

\* What passed the validator, and then the generator, is well formed.
Vetted ==
    /\ \A v \in validated : v.proposal.operation \in LedgerOperations[v.proposal.target]
                            /\ v.proposal.source # "derived"
    /\ pc = "gating" => \A v \in validated : Generates(v.proposal)

LogInv == WorkingStateAgrees /\ ProgressIsTrue

\* No document is of a later run than the present one, and those of the chapters the run
\* has been through are its own.
Bounded ==
    /\ \A c \in Chapters : /\ drafts[c] <= run /\ reviews[c] <= run /\ summaries[c] <= run
                           /\ manuscript[c] <= run
    /\ \A f \in facts : f.run <= run

Fresh ==
    /\ \A c \in results : /\ drafts[c] = run /\ reviews[c] = run
                          /\ now.mode \in ACTIVE_MODES => summaries[c] = run
    /\ pc \in {"summarising", "auditing", "extracting", "merging", "logging"} =>
          drafts[ch] = run
    /\ pc \in {"auditing", "extracting", "merging", "logging"} /\ now.mode \in ACTIVE_MODES =>
          summaries[ch] = run
    /\ pc \in {"extracting", "merging", "logging"} => reviews[ch] = run

CanonInv == PromotedIsReviewed /\ ActiveIsSummarised /\ FactsFitManuscript
            /\ NoProposalsNoApply /\ FactsAreGated

-----------------------------------------------------------------------------
\* The run returns, raises or dies.
Ends == \E how \in {"none", "applied", "skipped", "hard pause", "raised"} : End(how)

\* Every step of the system, for case distinctions.
LEMMA StepCases ==
    ASSUME Next
    PROVE  \/ Draft \/ Summarise \/ SummaryFails \/ Audit \/ Extract \/ Drop \/ Merge
           \/ MergeFails \/ FinishChapter \/ Generate \/ Apply
           \/ \E q \in Requests : Start(q)
           \/ Ends /\ UNCHANGED canon /\ UNCHANGED <<run, request>>
           \/ Ends /\ UNCHANGED canon /\ UNCHANGED docs
              /\ \E q \in Requests : /\ run < MaxRuns /\ run' = run + 1
                                     /\ request' = [request EXCEPT ![run + 1] = q]
<1>1. CASE Chapter
  BY <1>1 DEF Chapter, Ends, DraftFails, AuditFails, ExtractFails, FinishChapterFails
<1>2. CASE Finalize
  BY <1>2 DEF Finalize, Ends, Skip, GenerateRaises, GenerateFails, HardPause, ApplyRefuses,
              ApplyFails, Report, ReportFails
<1>3. CASE Crash
  BY <1>3 DEF Crash, Ends
<1>4. CASE \E q \in Requests : Start(q) \/ Ungated(q) \/ StartFails(q)
  <2> PICK q \in Requests : Start(q) \/ Ungated(q) \/ StartFails(q)
    BY <1>4
  <2>1. CASE Start(q)
    BY <2>1
  <2>2. CASE Ungated(q)
    BY <2>2 DEF Ungated, Ends
  <2>3. CASE StartFails(q)
    BY <2>3 DEF StartFails, Ends
  <2> QED
    BY <2>1, <2>2, <2>3
<1> QED
  BY <1>1, <1>2, <1>3, <1>4 DEF Next

LEMMA RunNext ==
    ASSUME TypeInv, RunInv, [Next]_vars
    PROVE  RunInv'
<1> USE DEF RunInv, Behind, Forgets, Kept, Flagged, Unskipped, Skipping, locals
<1>1. CASE Ends
  BY <1>1 DEF Ends, End
<1>2. CASE Draft \/ Summarise \/ Audit \/ Extract
  <2>1. /\ ch' = ch /\ results' = results /\ validated' = validated
        /\ pc # "idle" /\ pc # "logging"
        /\ pc' \in {"summarising", "auditing", "extracting", "merging"}
    BY <1>2 DEF Draft, Summarise, Audit, Extract, Goto
  <2> QED
    BY <2>1
<1>3. CASE SummaryFails /\ ~Ends
  <2>1. /\ ch' = ch /\ results' = results /\ validated' = validated
        /\ pc = "summarising" /\ pc' = "auditing"
    BY <1>3 DEF SummaryFails, Goto, Ends
  <2> QED
    BY <2>1
<1>4. CASE Drop \/ MergeFails
  <2>1. /\ ch' = ch /\ results' = results /\ validated' = validated
        /\ pc = "merging" /\ pc' = "logging" /\ merged' = FALSE
    BY <1>4 DEF Drop, MergeFails, Logs, Goto
  <2> QED
    BY <2>1
<1>5. CASE Merge
  <2>1. /\ ch' = ch /\ results' = results
        /\ pc = "merging" /\ pc' = "logging" /\ merged' = TRUE
        /\ validated' = validated \cup {[chapter |-> ch, proposal |-> output]}
    BY <1>5 DEF Merge, Logs, Goto
  <2>2. \A v \in validated' : v \in validated \/ v.chapter = ch
    BY <2>1
  <2>3. \E v \in validated' : v.chapter = ch
    <3> DEFINE entry == [chapter |-> ch, proposal |-> output]
    <3>1. entry \in validated' /\ entry.chapter = ch
      BY <2>1
    <3> QED
      BY <3>1
  <2> QED
    BY <2>1, <2>2, <2>3
<1>6. CASE FinishChapter
  <2>1. /\ ch' = ch + 1 /\ results' = results \cup {ch} /\ validated' = validated
        /\ pc = "logging" /\ pc' \in {"drafting", "generating"}
    BY <1>6 DEF FinishChapter, ToChapter, Goto
  <2>2. ch \in Int /\ results \subseteq Int
    <3>1. ch \in 0 .. LastChapter + 1 /\ results \subseteq Chapters
      BY DEF TypeInv, TypeOK
    <3> QED
      BY <3>1, RunBounds DEF Chapters
  <2> QED
    BY <2>1, <2>2
<1>7. CASE Generate
  BY <1>7 DEF Generate, Goto
<1>8. CASE Apply
  BY <1>8 DEF Apply, Applied, Goto
<1>9. CASE \E q \in Requests : Start(q)
  <2>1. /\ results' = results /\ validated' = validated
        /\ pc = "idle" /\ pc' \in {"drafting", "generating"}
    BY <1>9 DEF Start, ToChapter, Goto
  <2> QED
    BY <2>1
<1>10. CASE UNCHANGED vars
  BY <1>10 DEF vars
<1> QED
  BY <1>1, <1>2, <1>3, <1>4, <1>5, <1>6, <1>7, <1>8, <1>9, <1>10, StepCases

LEMMA VettedNext ==
    ASSUME Vetted, [Next]_vars
    PROVE  Vetted'
<1> USE DEF Vetted, locals
<1>1. CASE Ends
  BY <1>1 DEF Ends, End
<1>2. CASE Draft \/ Summarise \/ Audit \/ Extract \/ Drop \/ MergeFails \/ FinishChapter
  <2>1. validated' = validated /\ pc' # "gating"
    BY <1>2 DEF Draft, Summarise, Audit, Extract, Drop, MergeFails, FinishChapter,
                Logs, ToChapter, Goto
  <2> QED
    BY <2>1
<1>3. CASE SummaryFails /\ ~Ends
  BY <1>3 DEF SummaryFails, Goto, Ends
<1>4. CASE Merge
  <2>1. /\ pc' = "logging" /\ Accepts(output)
        /\ validated' = validated \cup {[chapter |-> ch, proposal |-> output]}
    BY <1>4 DEF Merge, Merging, Logs, Goto
  <2>2. /\ output.operation \in LedgerOperations[output.target]
        /\ output.source # "derived"
    BY <2>1 DEF Accepts, SourceAllowed
  <2>3. \A v \in validated' : v \in validated \/ v.proposal = output
    BY <2>1
  <2> QED
    BY <2>1, <2>2, <2>3
<1>5. CASE Generate
  <2>1. validated' = validated /\ \A v \in validated : Generates(v.proposal)
    BY <1>5 DEF Generate
  <2> QED
    BY <2>1 DEF Generates
<1>6. CASE Apply
  BY <1>6 DEF Apply, Applied, Goto
<1>7. CASE \E q \in Requests : Start(q)
  BY <1>7 DEF Start, ToChapter, Goto
<1>8. CASE UNCHANGED vars
  BY <1>8 DEF vars, Generates
<1> QED
  BY <1>1, <1>2, <1>3, <1>4, <1>5, <1>6, <1>7, <1>8, StepCases

\* Validator and generator together ask for what apply() asks for.
LEMMA VettedIsWellFormed ==
    ASSUME TypeInv, Vetted
    PROVE  DiffIsWellFormed
<1> SUFFICES ASSUME pc = "gating", NEW v \in validated
             PROVE  WellFormed(Operation(v.proposal))
  BY DEF DiffIsWellFormed
<1> DEFINE p == v.proposal
<1>1. v \in Entry
  BY DEF TypeInv, TypeOK
<1>2. p \in Proposal
  BY <1>1, ProposalAssumption DEF Entry
<1>3. /\ p.operation \in LedgerOperations[p.target] /\ p.source # "derived"
      /\ Generates(p)
  BY DEF Vetted
<1>4. p.target \in Ledger /\ p.from \in ForeshadowStatus \cup {"none"}
  BY <1>2 DEF Proposal
<1> HIDE DEF p
<1>5. HasProvenance(Operation(p))
  BY <1>3 DEF HasProvenance, Operation
<1>6. p.target = "foreshadowing" => TransitionAllowed(p.from, p.to)
  BY <1>3, <1>4 DEF Generates, TransitionAllowed
<1>7. /\ Operation(p).target = p.target /\ Operation(p).operation = p.operation
      /\ Operation(p).from = p.from /\ Operation(p).to = p.to
  BY DEF Operation
<1> QED
  BY <1>3, <1>4, <1>5, <1>6, <1>7 DEF WellFormed, p

LEMMA LogNext ==
    ASSUME TypeInv, RunInv, LogInv, [Next]_vars
    PROVE  LogInv'
<1> USE DEF LogInv, WorkingStateAgrees, ProgressIsTrue, locals
<1>0. Behind /\ Forgets /\ Kept /\ Flagged
  BY DEF RunInv
<1>1. CASE Ends
  BY <1>1 DEF Ends, End
<1>2. CASE Draft \/ Summarise \/ Audit \/ Extract \/ Drop \/ Generate
  <2>1. /\ aws' = aws /\ progress' = progress /\ results' = results
        /\ validated' = validated /\ pc # "idle"
    BY <1>2 DEF Draft, Summarise, Audit, Extract, Drop, Generate, Logs
  <2> QED
    BY <2>1
<1>3. CASE SummaryFails /\ ~Ends
  BY <1>3 DEF SummaryFails, Ends
<1>4. CASE Merge
  <2> DEFINE entry == [chapter |-> ch, proposal |-> output]
  <2>1. /\ validated' = validated \cup {entry} /\ ~aws.torn /\ pc # "idle"
        /\ progress' = progress /\ results' = results
    BY <1>4 DEF Merge, Merging, Logs
  <2>2. aws'.entries = aws.entries \cup {entry}
    <3>1. aws \in [torn : BOOLEAN, entries : SUBSET Entry]
      BY DEF TypeInv, TypeOK
    <3> QED
      BY <1>4, <3>1 DEF Merge
  <2>3. WorkingStateAgrees'
    BY <2>1, <2>2
  <2>4. entry.chapter = ch /\ ch \notin results
    <3>1. results \subseteq Int /\ ch \in Int
      <4>1. ch \in 0 .. LastChapter + 1 /\ results \subseteq Chapters
        BY DEF TypeInv, TypeOK
      <4> QED
        BY <4>1, RunBounds DEF Chapters
    <3> QED
      BY <1>0, <2>1, <3>1 DEF Behind
  <2>5. \A c \in results :
           (\E v \in validated' : v.chapter = c) <=> (\E v \in validated : v.chapter = c)
    <3> HIDE DEF entry
    <3> QED
      BY <2>1, <2>4
  <2> QED
    BY <2>1, <2>3, <2>5
<1>5. CASE MergeFails
  <2>1. /\ aws' = aws \/ aws'.torn = TRUE
        /\ progress' = progress /\ results' = results
        /\ validated' = validated /\ pc # "idle"
    BY <1>5 DEF MergeFails, Logs, TornState
  <2> QED
    BY <2>1
<1>6. CASE FinishChapter
  <2>1. /\ aws' = aws /\ validated' = validated /\ results' = results \cup {ch}
        /\ progress' = [progress EXCEPT ![ch] = IF merged THEN "merged" ELSE "unmerged"]
        /\ pc = "logging"
    BY <1>6 DEF FinishChapter
  <2>2. /\ ch \in Chapters /\ merged \in BOOLEAN /\ results \subseteq Chapters
        /\ progress \in [Chapters -> {"none", "merged", "unmerged"}]
    BY <2>1 DEF TypeInv, TypeOK, Placed, Stages
  <2>3. ch \notin results
    <3>1. results \subseteq Int /\ ch \in Int
      BY <2>2, RunBounds DEF Chapters
    <3> QED
      BY <1>0, <2>1, <3>1 DEF Behind
  <2>4. merged <=> \E v \in validated : v.chapter = ch
    BY <1>0, <2>1, <2>3 DEF Kept, Flagged
  <2>5. /\ progress'[ch] = IF merged THEN "merged" ELSE "unmerged"
        /\ \A c \in results : progress'[c] = progress[c]
    BY <2>1, <2>2, <2>3
  <2> QED
    BY <2>1, <2>4, <2>5
<1>7. CASE Apply
  <2>1. /\ aws' = aws /\ progress' = progress /\ results' = results
        /\ validated' = validated /\ pc # "idle"
    BY <1>7 DEF Apply, Applied
  <2> QED
    BY <2>1
<1>8. CASE \E q \in Requests : Start(q)
  <2>1. /\ aws' = EmptyState /\ results' = results /\ validated' = validated /\ pc = "idle"
    BY <1>8 DEF Start
  <2> QED
    BY <1>0, <2>1 DEF Forgets, EmptyState
<1>9. CASE UNCHANGED vars
  BY <1>9 DEF vars
<1> QED
  BY <1>1, <1>2, <1>3, <1>4, <1>5, <1>6, <1>7, <1>8, <1>9, StepCases

-----------------------------------------------------------------------------
(* The documents.                                                          *)

LEMMA Numbers ==
    ASSUME TypeInv
    PROVE  /\ run \in Nat /\ \A f \in facts : f.run \in Nat /\ f.chapter \in Chapters
           /\ \A c \in Chapters : /\ drafts[c] \in Nat /\ reviews[c] \in Nat
                                  /\ summaries[c] \in Nat /\ manuscript[c] \in 0 .. MaxRuns
<1>1. /\ drafts \in [Chapters -> 0 .. MaxRuns] /\ reviews \in [Chapters -> 0 .. MaxRuns]
      /\ summaries \in [Chapters -> 0 .. MaxRuns]
      /\ manuscript \in [Chapters -> 0 .. MaxRuns] /\ run \in 0 .. MaxRuns
      /\ facts \subseteq [run : Runs, chapter : Chapters, proposal : Proposals]
  BY DEF TypeInv, TypeOK
<1> QED
  BY <1>1, RunBounds DEF Runs

\* A step that is not an apply rewrites a document of the present chapter at most.
Rewrites ==
    /\ drafts' = drafts \/ (ch \in Chapters /\ drafts' = [drafts EXCEPT ![ch] = run])
    /\ reviews' = reviews \/ (ch \in Chapters /\ reviews' = [reviews EXCEPT ![ch] = run])
    /\ summaries' = summaries \/ (ch \in Chapters /\ summaries' = [summaries EXCEPT ![ch] = run])

LEMMA DocSteps ==
    ASSUME TypeInv, [Next]_vars
    PROVE  Rewrites
<1>1. pc \in Stages => ch \in Chapters
  BY DEF TypeInv, Placed
<1> USE DEF Rewrites
<1>2. CASE UNCHANGED docs
  BY <1>2 DEF docs
<1>3. CASE Draft \/ DraftFails
  <2>1. pc = "drafting" /\ reviews' = reviews /\ summaries' = summaries
    BY <1>3 DEF Draft, DraftFails
  <2>2. drafts' = drafts \/ drafts' = [drafts EXCEPT ![ch] = run]
    BY <1>3 DEF Draft, DraftFails
  <2> QED
    BY <1>1, <2>1, <2>2 DEF Stages
<1>4. CASE Summarise \/ SummaryFails
  <2>1. pc = "summarising" /\ reviews' = reviews /\ drafts' = drafts
    BY <1>4 DEF Summarise, SummaryFails
  <2>2. summaries' = summaries \/ summaries' = [summaries EXCEPT ![ch] = run]
    BY <1>4 DEF Summarise, SummaryFails
  <2> QED
    BY <1>1, <2>1, <2>2 DEF Stages
<1>5. CASE Audit \/ AuditFails
  <2>1. pc = "auditing" /\ drafts' = drafts /\ summaries' = summaries
    BY <1>5 DEF Audit, AuditFails
  <2>2. reviews' = reviews \/ reviews' = [reviews EXCEPT ![ch] = run]
    BY <1>5 DEF Audit, AuditFails
  <2> QED
    BY <1>1, <2>1, <2>2 DEF Stages
<1>6. Chapter => \/ UNCHANGED docs \/ Draft \/ DraftFails \/ Summarise \/ SummaryFails
               \/ Audit \/ AuditFails
  BY DEF Chapter, Extract, ExtractFails, Drop, Merge, MergeFails,
     FinishChapter, FinishChapterFails, Logs
<1>7. Finalize => UNCHANGED docs
  BY DEF Finalize, Skip, Generate, GenerateRaises, GenerateFails, HardPause, Apply,
     Applied, ApplyRefuses, ApplyFails, Report, ReportFails
<1>8. Crash => UNCHANGED docs
  BY DEF Crash
<1>9. (\E q \in Requests : Start(q) \/ Ungated(q) \/ StartFails(q)) => UNCHANGED docs
  BY DEF Start, Ungated, StartFails
<1>10. UNCHANGED vars => UNCHANGED docs
  BY DEF vars
<1> QED
  BY <1>2, <1>3, <1>4, <1>5, <1>6, <1>7, <1>8, <1>9, <1>10 DEF Next

LEMMA RunSteps ==
    ASSUME TypeInv, [Next]_vars
    PROVE  \/ run' = run /\ request' = request
           \/ /\ run' = run + 1 /\ UNCHANGED canon /\ UNCHANGED docs
              /\ pc = "idle" /\ \E q \in Requests : request' = [request EXCEPT ![run + 1] = q]
<1>1. CASE Chapter
  BY <1>1 DEF Chapter, Draft, DraftFails, Summarise, SummaryFails, Audit, AuditFails,
     Extract, ExtractFails, Drop, Merge, MergeFails, FinishChapter, FinishChapterFails, Logs
<1>2. CASE Finalize
  BY <1>2 DEF Finalize, Skip, Generate, GenerateRaises, GenerateFails, HardPause, Apply,
     Applied, ApplyRefuses, ApplyFails, Report, ReportFails
<1>3. CASE Crash
  BY <1>3 DEF Crash
<1>4. CASE \E q \in Requests : Start(q) \/ Ungated(q) \/ StartFails(q)
  BY <1>4 DEF Start, Ungated, StartFails
<1>5. CASE UNCHANGED vars
  BY <1>5 DEF vars
<1> QED
  BY <1>1, <1>2, <1>3, <1>4, <1>5 DEF Next

LEMMA CanonSteps ==
    ASSUME [Next]_vars
    PROVE  UNCHANGED canon \/ Apply
<1> USE DEF canon
<1>1. CASE Chapter
  BY <1>1 DEF Chapter, Draft, DraftFails, Summarise, SummaryFails, Audit, AuditFails,
     Extract, ExtractFails, Drop, Merge, MergeFails, FinishChapter, FinishChapterFails, Logs
<1>2. CASE Finalize
  BY <1>2 DEF Finalize, Skip, Generate, GenerateRaises, GenerateFails, HardPause,
     ApplyRefuses, ApplyFails, Report, ReportFails
<1>3. CASE Crash
  BY <1>3 DEF Crash
<1>4. CASE \E q \in Requests : Start(q) \/ Ungated(q) \/ StartFails(q)
  BY <1>4 DEF Start, Ungated, StartFails
<1>5. CASE UNCHANGED vars
  BY <1>5 DEF vars
<1> QED
  BY <1>1, <1>2, <1>3, <1>4, <1>5 DEF Next

LEMMA BoundedNext ==
    ASSUME TypeInv, TypeInv', Bounded, [Next]_vars
    PROVE  Bounded'
<1>1. /\ run \in Nat
      /\ \A c \in Chapters : /\ drafts[c] \in Nat /\ reviews[c] \in Nat
                             /\ summaries[c] \in Nat /\ manuscript[c] \in Nat
      /\ \A f \in facts : f.run \in Nat
  BY Numbers, RunBounds
<1>2. run' \in {run, run + 1}
  BY RunSteps
<1>3. /\ drafts \in [Chapters -> 0 .. MaxRuns] /\ reviews \in [Chapters -> 0 .. MaxRuns]
      /\ summaries \in [Chapters -> 0 .. MaxRuns]
  BY DEF TypeInv, TypeOK
<1>4. \A c \in Chapters : /\ drafts'[c] \in {drafts[c], run}
                         /\ reviews'[c] \in {reviews[c], run}
                         /\ summaries'[c] \in {summaries[c], run}
  BY <1>3, DocSteps DEF Rewrites
<1>5. \A c \in Chapters : manuscript'[c] \in {manuscript[c], drafts[c]}
  <2>1. CASE UNCHANGED canon
    BY <2>1 DEF canon
  <2>2. CASE Apply
    BY <2>2 DEF Apply, Applied, Promoted
  <2> QED
    BY <2>1, <2>2, CanonSteps
<1>6. \A f \in facts' : f \in facts \/ f.run = run
  <2>1. CASE UNCHANGED canon
    BY <2>1 DEF canon
  <2>2. CASE Apply
    BY <2>2 DEF Apply, Applied, NewFacts
  <2> QED
    BY <2>1, <2>2, CanonSteps
<1>7. \A c \in Chapters : /\ drafts[c] <= run' /\ reviews[c] <= run' /\ summaries[c] <= run'
                         /\ manuscript[c] <= run' /\ run <= run'
  BY <1>1, <1>2 DEF Bounded
<1>8. \A f \in facts' : f.run <= run'
  BY <1>1, <1>2, <1>6 DEF Bounded
<1> QED
  BY <1>4, <1>5, <1>7, <1>8 DEF Bounded

LEMMA FreshNext ==
    ASSUME TypeInv, TypeInv', RunInv, Fresh, [Next]_vars
    PROVE  Fresh'
<1>0. /\ drafts \in [Chapters -> 0 .. MaxRuns] /\ reviews \in [Chapters -> 0 .. MaxRuns]
      /\ summaries \in [Chapters -> 0 .. MaxRuns] /\ results \subseteq Chapters
      /\ pc \in Stages => ch \in Chapters
      /\ pc = "idle" => results = {}
  BY DEF TypeInv, TypeOK, Placed, RunInv, Forgets
<1> USE DEF Fresh, locals, docs, now, Stages
<1>1. CASE Ends
  BY <1>1 DEF Ends, End
<1>2. CASE Draft
  BY <1>0, <1>2 DEF Draft, Goto, ACTIVE_MODES
<1>3. CASE Summarise
  BY <1>0, <1>3 DEF Summarise, Goto
<1>4. CASE SummaryFails /\ ~Ends
  BY <1>0, <1>4 DEF SummaryFails, Goto, Ends
<1>5. CASE Audit
  BY <1>0, <1>5 DEF Audit, Goto
<1>6. CASE Extract
  BY <1>6 DEF Extract, Goto
<1>7. CASE Drop \/ Merge \/ MergeFails
  BY <1>7 DEF Drop, Merge, MergeFails, Logs, Goto
<1>8. CASE FinishChapter
  BY <1>8 DEF FinishChapter, ToChapter, Goto
<1>9. CASE Generate
  BY <1>9 DEF Generate, Goto
<1>10. CASE Apply
  BY <1>10 DEF Apply, Applied, Goto
<1>11. CASE \E q \in Requests : Start(q)
  BY <1>0, <1>11 DEF Start, ToChapter, Goto
<1>12. CASE UNCHANGED vars
  BY <1>12 DEF vars
<1> QED
  BY <1>1, <1>2, <1>3, <1>4, <1>5, <1>6, <1>7, <1>8, <1>9, <1>10, <1>11, <1>12, StepCases

-----------------------------------------------------------------------------
(* The manuscript and the ledgers.                                         *)

\* Away from an apply, documents only become newer, and the requests of earlier runs stay.
LEMMA CanonQuiet ==
    ASSUME TypeInv, Bounded, CanonInv, [Next]_vars, UNCHANGED canon
    PROVE  CanonInv'
<1>1. /\ run \in Nat /\ \A f \in facts : f.run \in Nat
      /\ \A c \in Chapters : /\ reviews[c] \in Nat /\ summaries[c] \in Nat
                             /\ manuscript[c] \in Nat
      /\ \A f \in facts : f.chapter \in Chapters
  BY Numbers, RunBounds
<1>2. /\ reviews \in [Chapters -> 0 .. MaxRuns] /\ summaries \in [Chapters -> 0 .. MaxRuns]
      /\ request \in [Runs -> Request \cup {NoRequest}]
  BY DEF TypeInv, TypeOK
<1>3. \A c \in Chapters : reviews'[c] \in {reviews[c], run} /\ summaries'[c] \in {summaries[c], run}
  BY <1>2, DocSteps DEF Rewrites
<1>4. manuscript' = manuscript /\ facts' = facts
  BY DEF canon
<1>5. \A n \in Nat : n <= run => request'[n] = request[n]
  <2>1. \A n \in Nat : n <= run => n # run + 1
    BY <1>1
  <2>2. CASE request' = request
    BY <2>2
  <2>3. CASE \E q \in Requests : request' = [request EXCEPT ![run + 1] = q]
    BY <1>2, <2>1, <2>3
  <2> QED
    BY <2>2, <2>3, RunSteps
<1>6. PromotedIsReviewed'
  BY <1>1, <1>3, <1>4 DEF CanonInv, PromotedIsReviewed, Bounded
<1>7. ActiveIsSummarised'
  BY <1>1, <1>3, <1>4, <1>5 DEF CanonInv, ActiveIsSummarised, Bounded
<1>8. FactsFitManuscript' /\ NoProposalsNoApply'
  BY <1>4 DEF CanonInv, FactsFitManuscript, NoProposalsNoApply
<1>9. FactsAreGated'
  BY <1>1, <1>4, <1>5 DEF CanonInv, FactsAreGated, Bounded
<1> QED
  BY <1>6, <1>7, <1>8, <1>9 DEF CanonInv

LEMMA CanonApply ==
    ASSUME TypeInv, RunInv, Bounded, Fresh, CanonInv, Apply
    PROVE  CanonInv'
<1>1. /\ run \in Nat /\ \A f \in facts : f.run \in Nat
      /\ \A c \in Chapters : /\ reviews[c] \in Nat /\ summaries[c] \in Nat
                             /\ manuscript[c] \in Nat /\ drafts[c] \in Nat
      /\ \A f \in facts : f.chapter \in Chapters
  BY Numbers, RunBounds
<1>2. /\ pc = "gating" /\ run \in Runs /\ results \subseteq Chapters /\ run # 0
  <2>1. pc = "gating" /\ run \in Runs /\ results \subseteq Chapters
    BY DEF Apply, TypeInv, TypeOK, Placed
  <2> QED
    BY <2>1, RunBounds DEF Runs
<1>3. /\ reviews' = reviews /\ summaries' = summaries /\ request' = request /\ run' = run
      /\ manuscript' = Promoted(results) /\ facts' = facts \cup NewFacts
  BY DEF Apply, Applied, docs
<1>4. \A c \in Chapters : manuscript'[c] = IF c \in results THEN run ELSE manuscript[c]
  BY <1>1, <1>2, <1>3 DEF Promoted, Fresh
<1>5. \A v \in validated : v.chapter \in results
  BY <1>2 DEF RunInv, Kept
<1>6. results # {} => validated # {}
  BY <1>2 DEF RunInv, Unskipped, Skipping
<1>7. \A f \in NewFacts : f.run = run /\ f.chapter \in results
  BY <1>5 DEF NewFacts
<1>8. results # {} => \E f \in NewFacts : f.run = run
  <2> SUFFICES ASSUME results # {}
               PROVE  \E f \in NewFacts : f.run = run
    OBVIOUS
  <2>1. PICK v \in validated : TRUE
    BY <1>6
  <2> DEFINE fact == [run |-> run, chapter |-> v.chapter, proposal |-> v.proposal]
  <2>2. fact \in NewFacts
    BY <2>1 DEF NewFacts
  <2>3. fact.run = run
    OBVIOUS
  <2> HIDE DEF fact
  <2> QED
    BY <2>2, <2>3
<1>9. PromotedIsReviewed'
  BY <1>1, <1>3, <1>4 DEF CanonInv, PromotedIsReviewed, Fresh
<1>10. ActiveIsSummarised'
  BY <1>1, <1>3, <1>4 DEF CanonInv, ActiveIsSummarised, Fresh, now
<1>11. FactsFitManuscript'
  BY <1>1, <1>2, <1>3, <1>4, <1>7 DEF CanonInv, FactsFitManuscript, Bounded
<1>12. NoProposalsNoApply'
  BY <1>3, <1>4, <1>8 DEF CanonInv, NoProposalsNoApply
<1>13. FactsAreGated'
  <2>1. GateAccepts(Gate(now), now.dryRun) /\ Gate(now).decision # "rejected"
    BY DEF Apply
  <2>2. Gate(now).decision \in {"approved", "rejected"}
    <3>1. now \in Request /\ (now.dryRun \/ now.gate # NoGate)
      BY <1>2, RequestAssumption DEF TypeInv, Placed
    <3>2. now.dryRun \/ now.gate \in GateRecord
      BY <3>1, GateAssumption DEF Request
    <3> QED
      BY <3>2 DEF Gate, DryRunGate, GateRecord
  <2>3. /\ Gate(now).decision = "approved" /\ Gate(now).evidence \notin {"blank", "auto"}
        /\ Gate(now).synthetic => now.dryRun
    BY <2>1, <2>2 DEF GateAccepts
  <2>4. \A f \in NewFacts : /\ Gate(request[f.run]).decision = "approved"
                            /\ Gate(request[f.run]).evidence \notin {"blank", "auto"}
                            /\ Gate(request[f.run]).synthetic => request[f.run].dryRun
    BY <1>7, <2>3 DEF now
  <2> QED
    BY <1>3, <2>4 DEF CanonInv, FactsAreGated
<1> QED
  BY <1>9, <1>10, <1>11, <1>12, <1>13 DEF CanonInv
LEMMA CanonNext ==
    ASSUME TypeInv, RunInv, Bounded, Fresh, CanonInv, [Next]_vars
    PROVE  CanonInv'
  BY CanonSteps, CanonQuiet, CanonApply

-----------------------------------------------------------------------------
(* The invariants together, and what follows for every behaviour.          *)

FlowInv == /\ TypeInv /\ RunInv /\ Vetted /\ LogInv
           /\ Bounded /\ Fresh /\ CanonInv

LEMMA FlowInit ==
    ASSUME Init
    PROVE  FlowInv
<1>1. TypeInv
  BY TypeInit
<1>2. RunInv
  BY DEF Init, RunInv, Behind, Forgets, Kept, Flagged, Unskipped
<1>3. Vetted
  BY DEF Init, Vetted
<1>4. LogInv
  BY DEF Init, LogInv, WorkingStateAgrees, ProgressIsTrue
<1>5. Bounded
  BY DEF Init, Bounded
<1>6. Fresh
  BY DEF Init, Fresh
<1>7. CanonInv
  <2>1. facts = {} /\ \A c \in Chapters : manuscript[c] = 0 /\ reviews[c] = 0
    BY DEF Init
  <2> QED
    BY <2>1 DEF CanonInv, PromotedIsReviewed, ActiveIsSummarised, FactsFitManuscript,
       NoProposalsNoApply, FactsAreGated
<1> QED
  BY <1>1, <1>2, <1>3, <1>4, <1>5, <1>6, <1>7 DEF FlowInv

LEMMA FlowNext ==
    ASSUME FlowInv, [Next]_vars
    PROVE  FlowInv'
<1>1. TypeInv'
  BY TypeNext DEF FlowInv
<1> QED
  BY <1>1, RunNext, VettedNext, LogNext, BoundedNext, FreshNext, CanonNext DEF FlowInv

LEMMA FlowCorrect == Spec => []FlowInv
  BY FlowInit, FlowNext, PTL DEF Spec

\* The working state that later agents read is what the flow will apply (flow.py keeps
\* validated_proposals, arc_state_manager.py the file), whatever runs came before.
THEOREM WorkingStateIsRight == Spec => []WorkingStateAgrees
<1>1. FlowInv => WorkingStateAgrees
  BY DEF FlowInv, LogInv
<1> QED
  BY <1>1, FlowCorrect, PTL

\* progress.jsonl tells the truth about every chapter the run has finished.
THEOREM LogIsTrue == Spec => []ProgressIsTrue
<1>1. FlowInv => ProgressIsTrue
  BY DEF FlowInv, LogInv
<1> QED
  BY <1>1, FlowCorrect, PTL

\* No draft is promoted that has not been reviewed.
THEOREM ReviewedFirst == Spec => []PromotedIsReviewed
<1>1. FlowInv => PromotedIsReviewed
  BY DEF FlowInv, CanonInv
<1> QED
  BY <1>1, FlowCorrect, PTL

\* A run in an active context mode promotes only chapters it has summarised.
THEOREM ActiveRunsSummarise == Spec => []ActiveIsSummarised
<1>1. FlowInv => ActiveIsSummarised
  BY DEF FlowInv, CanonInv
<1> QED
  BY <1>1, FlowCorrect, PTL

\* Every fact in the ledgers has the chapter it is from in the manuscript.
THEOREM FactsHaveChapters == Spec => []FactsFitManuscript
<1>1. FlowInv => FactsFitManuscript
  BY DEF FlowInv, CanonInv
<1> QED
  BY <1>1, FlowCorrect, PTL

\* Every fact in the ledgers was approved, and by an author unless the run was dry.
THEOREM GatesDecide == Spec => []FactsAreGated
<1>1. FlowInv => FactsAreGated
  BY DEF FlowInv, CanonInv
<1> QED
  BY <1>1, FlowCorrect, PTL

\* Every promoted chapter is of a run that brought at least one fact with it.
THEOREM HardRuleHolds == Spec => []NoProposalsNoApply
<1>1. FlowInv => NoProposalsNoApply
  BY DEF FlowInv, CanonInv
<1> QED
  BY <1>1, FlowCorrect, PTL

\* apply() is never handed an operation that its prevalidation refuses as malformed:
\* validator and generator together ask for at least as much.
THEOREM DiffsAreWellFormed == Spec => []DiffIsWellFormed
<1>1. FlowInv => DiffIsWellFormed
  BY VettedIsWellFormed DEF FlowInv
<1> QED
  BY <1>1, FlowCorrect, PTL
-----------------------------------------------------------------------------
(* How far a run is from its end.                                          *)

\* Each chapter that may follow has six steps.
ToCome == 6 * (LastChapter - ch)

StepsLeft ==
    CASE pc = "drafting"    -> ToCome + 9
      [] pc = "summarising" -> ToCome + 8
      [] pc = "auditing"    -> ToCome + 7
      [] pc = "extracting"  -> ToCome + 6
      [] pc = "merging"     -> ToCome + 5
      [] pc = "logging"     -> ToCome + 4
      [] pc = "generating"  -> 3
      [] pc = "gating"      -> 2
      [] pc = "reporting"   -> 1
      [] OTHER              -> 0

Shortens == StepsLeft \in Nat /\ StepsLeft' \in Nat /\ StepsLeft' < StepsLeft

\* A run under way comes nearer to its end with every step, and no other run begins
\* before: chapters, agents that raise, the gate and the death of the process all lead
\* the same way (what RunsEnd rests on).
RunsShorten == [][pc # "idle" => Shortens]_vars

LEMMA ChaptersToCome ==
    ASSUME TypeInv, pc \in Stages
    PROVE  ToCome \in Nat
<1>1. LastChapter \in Nat /\ ch \in 1 .. LastChapter
  BY RunBounds DEF TypeInv, Placed, Chapters
<1> QED
  BY <1>1 DEF ToCome

\* A run under way has a step left.
LEMMA SomeStepIsLeft ==
    ASSUME TypeInv, pc # "idle"
    PROVE  StepsLeft \in Nat /\ StepsLeft > 0
<1>1. CASE pc \in Stages
  <2>1. ToCome \in Nat
    BY <1>1, ChaptersToCome
  <2> HIDE DEF ToCome
  <2>2. \E k \in 4 .. 9 : StepsLeft = ToCome + k
    BY <1>1 DEF StepsLeft, Stages
  <2> QED
    BY <2>1, <2>2
<1>2. CASE pc \in {"generating", "gating", "reporting"}
  BY <1>2 DEF StepsLeft
<1> QED
  BY <1>1, <1>2 DEF TypeInv, TypeOK, Stages

\* From one step of a chapter to a later one.
LEMMA WithinChapter ==
    ASSUME TypeInv, pc \in Stages, UNCHANGED ch,
           \/ pc = "drafting" /\ pc' \in {"summarising", "auditing"}
           \/ pc = "summarising" /\ pc' = "auditing"
           \/ pc = "auditing" /\ pc' = "extracting"
           \/ pc = "extracting" /\ pc' = "merging"
           \/ pc = "merging" /\ pc' = "logging"
    PROVE  Shortens
<1>1. ToCome \in Nat /\ ToCome' = ToCome
  BY ChaptersToCome DEF ToCome
<1>2. \E k, m \in 4 .. 9 : m < k /\ StepsLeft = ToCome + k /\ StepsLeft' = ToCome' + m
  BY DEF StepsLeft
<1> QED
  BY <1>1, <1>2 DEF Shortens

LEMMA ToTheNextChapter ==
    ASSUME TypeInv, TypeInv', FinishChapter
    PROVE  Shortens
<1>1. pc = "logging" /\ ch' = ch + 1 /\ pc' \in {"drafting", "generating"}
  BY DEF FinishChapter, ToChapter, Goto
<1>2. LastChapter \in Nat /\ ch \in 1 .. LastChapter /\ ToCome \in Nat
  BY <1>1, RunBounds, ChaptersToCome DEF TypeInv, Placed, Chapters, Stages
<1>3. StepsLeft = ToCome + 4
  BY <1>1 DEF StepsLeft
<1>4. CASE pc' = "generating"
  <2>1. StepsLeft' = 3
    BY <1>4 DEF StepsLeft
  <2> QED
    BY <1>2, <1>3, <2>1 DEF Shortens
<1>5. CASE pc' = "drafting"
  <2>1. ch' \in 1 .. LastChapter
    BY <1>5 DEF TypeInv, Placed, Chapters, Stages
  <2>2. StepsLeft' = ToCome' + 9
    BY <1>5 DEF StepsLeft
  <2>3. ToCome' = ToCome - 6 /\ ToCome' \in Nat
    BY <1>1, <1>2, <2>1 DEF ToCome
  <2> QED
    BY <1>2, <1>3, <2>2, <2>3 DEF Shortens
<1> QED
  BY <1>1, <1>4, <1>5

LEMMA RunStepShortens ==
    ASSUME TypeInv, TypeInv', Next, pc # "idle"
    PROVE  Shortens
<1>1. StepsLeft \in Nat /\ StepsLeft > 0
  BY SomeStepIsLeft
<1>2. CASE pc' = "idle"
  <2>1. StepsLeft' = 0
    BY <1>2 DEF StepsLeft
  <2> QED
    BY <1>1, <2>1 DEF Shortens
<1>3. CASE Draft \/ Summarise \/ (SummaryFails /\ pc' # "idle") \/ Audit \/ Extract
  <2>1. /\ UNCHANGED ch
        /\ \/ pc = "drafting" /\ pc' \in {"summarising", "auditing"}
           \/ pc = "summarising" /\ pc' = "auditing"
           \/ pc = "auditing" /\ pc' = "extracting"
           \/ pc = "extracting" /\ pc' = "merging"
    BY <1>3 DEF Draft, Summarise, SummaryFails, Audit, Extract, Goto, End, locals
  <2> QED
    BY <2>1, WithinChapter DEF Stages
<1>4. CASE Drop \/ Merge \/ MergeFails
  <2>1. UNCHANGED ch /\ pc = "merging" /\ pc' = "logging"
    BY <1>4 DEF Drop, Merge, MergeFails, Logs, Goto
  <2> QED
    BY <2>1, WithinChapter DEF Stages
<1>5. CASE Generate
  <2>1. pc = "generating" /\ pc' = "gating"
    BY <1>5 DEF Generate, Goto
  <2> QED
    BY <2>1 DEF StepsLeft, Shortens
<1>6. CASE Apply
  <2>1. pc = "gating" /\ pc' = "reporting"
    BY <1>6 DEF Apply, Applied, Goto
  <2> QED
    BY <2>1 DEF StepsLeft, Shortens
<1>7. Ends => pc' = "idle"
  BY DEF Ends, End
<1>8. ~\E q \in Requests : Start(q)
  BY DEF Start
<1> QED
  BY <1>2, <1>3, <1>4, <1>5, <1>6, <1>7, <1>8, StepCases, ToTheNextChapter

\* A run of the flow has at most six steps for each chapter and three more, whatever the
\* agents answer, whatever raises and whatever the author decides (the loop at
\* flow.py:390 and what follows it): nothing sends it back.
THEOREM RunsAreFinite == Spec => RunsShorten
<1>1. Init => TypeInv
  BY TypeInit
<1>2. TypeInv /\ [Next]_vars => TypeInv'
  BY TypeNext
<1>3. TypeInv /\ TypeInv' /\ [Next]_vars => [pc # "idle" => Shortens]_vars
  BY RunStepShortens
<1> QED
  BY <1>1, <1>2, <1>3, PTL DEF Spec, RunsShorten
=============================================================================
