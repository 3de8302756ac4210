------------------------------ MODULE NovelFlow ------------------------------
(***************************************************************************)
(* run_novel_flow of crewai/flow.py, one run after another on one arc: for *)
(* each chapter an agent drafts, one reviews, one proposes a fact; valid   *)
(* proposals go into the arc's working state; in the end they become one   *)
(* ledger diff, and the author's gate decides whether it is applied.       *)
(*                                                                         *)
(* What an agent writes is nondeterministic, and any call of an agent and  *)
(* any write may raise.  A document is identified with the run that wrote  *)
(* it.  AtomicApplyManager.apply is one step that happens or raises, which *)
(* is what AtomicApplyProofs proves of its use here.                       *)
(***************************************************************************)
EXTENDS LedgerRules, Integers

CONSTANTS
    LastChapter,      \* chapters are numbered 1 .. LastChapter
    Proposals,        \* what an extractor may propose
    NoProposal,       \* nothing to be found in the extractor's answer
    NoEvent,          \* proposed_change without an event_id
    Gates,            \* the gate records an author may hand over
    NoGate,           \* arc_end_gate=None
    NoRequest,        \* a run that has not been started
    Requests,         \* the arguments and context modes of a run
    EventsList,       \* whether timeline.json keeps its entries in "events"
    MaxRuns,          \* bound: runs of the flow
    MaxFaults         \* bound: agents and writes that raise, deaths

Chapters == 1 .. LastChapter
Modes == {"legacy", "retrieval_shadow", "retrieval_active", "arc_active"}
ACTIVE_MODES == {"retrieval_active", "arc_active"}

Request == [start : 1 .. LastChapter + 1, total : 0 .. LastChapter, mode : Modes,
            dryRun : BOOLEAN, gate : Gates \cup {NoGate}]

GateRecord == [synthetic : BOOLEAN, decision : {"approved", "rejected"},
               evidence : {"blank", "auto", "short", "long"},
               level : {"lightweight", "strict"}]

(***************************************************************************)
(* A proposal cites the draft or the canonical copy of a chapter, the      *)
(* arc's working state, or something the source policy denies; "from" and  *)
(* "to" are the ends of a foreshadow transition.  "ok" is whether it has   *)
(* the schema of a proposal.                                               *)
(***************************************************************************)
Proposal == [ok : BOOLEAN, target : Ledger, operation : STRING,
             source : {"draft", "canon", "working", "derived"}, of : Chapters, event : Nat,
             from : ForeshadowStatus \cup {"none"}, to : ForeshadowStatus \cup {"none"}]

ASSUME BoundAssumption ==
    LastChapter \in Nat /\ MaxRuns \in Nat /\ MaxFaults \in Nat /\ NoEvent \in Nat
ASSUME GateAssumption == Gates \subseteq GateRecord /\ NoGate \notin GateRecord
ASSUME RequestAssumption == Requests \subseteq Request /\ NoRequest \notin Request
ASSUME ProposalAssumption == Proposals \subseteq Proposal /\ NoProposal \notin Proposal

VARIABLES
    drafts, reviews, summaries,  \* the run that wrote them last, per chapter, 0 for none
    manuscript,                  \* canon/manuscript: the run whose draft was promoted
    facts,                       \* the ledgers: run, chapter and proposal of each entry
    aws,                         \* arc_working_state.json
    progress,                    \* the last line of progress.jsonl about a chapter
    run, request,                \* the number of runs; the arguments of each
    pc, ch, output, merged,      \* the run under way
    results, validated,          \* chapter_results, validated_proposals
    outcome,                     \* what the last run came to
    faults

docs == <<drafts, reviews, summaries>>
canon == <<manuscript, facts>>
locals == <<ch, output, merged, results, validated>>
vars == <<docs, canon, aws, progress, run, request, pc, locals, outcome, faults>>

Runs == 1 .. MaxRuns
now == request[run]

-----------------------------------------------------------------------------
(* The checks of a proposal on its way to the ledgers.                     *)

\* validate_source_artifact, which the validator and the generator both call.
SourceAllowed(p) == p.source # "derived"

\* ProposalValidator.validate: the cited file exists, the working state always does.
Accepts(p) ==
    /\ p.operation \in LedgerOperations[p.target]
    /\ SourceAllowed(p)
    /\ p.source = "draft" => drafts[p.of] # 0
    /\ p.source = "canon" => manuscript[p.of] # 0

\* LedgerDiffGenerator.generate: any other source or transition raises.
Generates(p) ==
    /\ SourceAllowed(p)
    /\ p.target = "foreshadowing" /\ p.from # "none" =>
          p.to \in ForeshadowTransitions[p.from]

\* The operation generated for a proposal, as AtomicApplyManager sees it.
Operation(p) ==
    [target |-> p.target, operation |-> p.operation, derived |-> FALSE,
     source |-> IF p.source = "derived" THEN "derived" ELSE "draft",
     from |-> p.from, to |-> p.to]

NamesEvent(p) == p.target = "timeline" /\ p.event # NoEvent

\* _prevalidate_ledger_diff finds no event twice, as far as it looks.
FreshEvents ==
    \A v \in validated : NamesEvent(v.proposal) =>
        /\ \A w \in validated :
              NamesEvent(w.proposal) /\ w.proposal.event = v.proposal.event => w = v
        /\ EventsList => \A f \in facts :
              ~(NamesEvent(f.proposal) /\ f.proposal.event = v.proposal.event)

Prevalidated == FreshEvents /\ \A v \in validated : WellFormed(Operation(v.proposal))

-----------------------------------------------------------------------------
EmptyState == [torn |-> FALSE, entries |-> {}]
TornState == [torn |-> TRUE, entries |-> {}]

Init ==
    /\ drafts = [c \in Chapters |-> 0]
    /\ reviews = [c \in Chapters |-> 0]
    /\ summaries = [c \in Chapters |-> 0]
    /\ manuscript = [c \in Chapters |-> 0]
    /\ facts = {}
    /\ aws = EmptyState
    /\ progress = [c \in Chapters |-> "none"]
    /\ run = 0 /\ request = [r \in Runs |-> NoRequest]
    /\ pc = "idle" /\ ch = 0 /\ output = NoProposal /\ merged = FALSE
    /\ results = {} /\ validated = {}
    /\ outcome = "none" /\ faults = 0

Fault == faults < MaxFaults /\ faults' = faults + 1

\* The run returns or raises; its local variables go out of scope.
End(how) ==
    /\ pc' = "idle" /\ outcome' = how
    /\ ch' = 0 /\ output' = NoProposal /\ merged' = FALSE
    /\ results' = {} /\ validated' = {}

Goto(where) == pc' = where /\ UNCHANGED outcome

\* Mutant: the loop does not look at the last chapter.
ToAnyChapter(c, total) == ch' = c /\ Goto("drafting")

\* Head of the loop over the chapters.
ToChapter(c, total) == ch' = c /\ Goto(IF c <= total THEN "drafting" ELSE "generating")

-----------------------------------------------------------------------------
\* Mutant: the working state of an earlier run is kept.
StartOver(q) ==
    /\ pc = "idle" /\ run < MaxRuns /\ (q.dryRun \/ q.gate # NoGate)
    /\ run' = run + 1 /\ request' = [request EXCEPT ![run + 1] = q]
    /\ ToChapter(q.start, q.total)
    /\ UNCHANGED <<docs, canon, aws, progress, output, merged, results, validated, faults>>

\* run_novel_flow: the arc's working state is initialised, whatever it holds.
Start(q) ==
    /\ pc = "idle" /\ run < MaxRuns /\ (q.dryRun \/ q.gate # NoGate)
    /\ run' = run + 1 /\ request' = [request EXCEPT ![run + 1] = q]
    /\ aws' = EmptyState
    /\ ToChapter(q.start, q.total)
    /\ UNCHANGED <<docs, canon, progress, output, merged, results, validated, faults>>

\* No gate for a run that is not a dry run: ValueError before anything is touched.
Ungated(q) ==
    /\ pc = "idle" /\ run < MaxRuns /\ ~q.dryRun /\ q.gate = NoGate
    /\ run' = run + 1 /\ request' = [request EXCEPT ![run + 1] = q]
    /\ End("raised")
    /\ UNCHANGED <<docs, canon, aws, progress, faults>>

\* Directories, the working state or the arc contract cannot be written or parsed.
StartFails(q) ==
    /\ pc = "idle" /\ run < MaxRuns /\ (q.dryRun \/ q.gate # NoGate) /\ Fault
    /\ run' = run + 1 /\ request' = [request EXCEPT ![run + 1] = q]
    /\ aws' \in {aws, EmptyState, TornState}
    /\ End("raised")
    /\ UNCHANGED <<docs, canon, progress>>

-----------------------------------------------------------------------------
(* A chapter.                                                              *)

\* The contexts are built and the writer's answer is saved.
Draft ==
    /\ pc = "drafting"
    /\ drafts' = [drafts EXCEPT ![ch] = run]
    /\ Goto(IF now.mode = "legacy" THEN "auditing" ELSE "summarising")
    /\ UNCHANGED <<reviews, summaries, canon, aws, progress, run, request, locals, faults>>

\* Something raises; the draft may have been begun.
DraftFails ==
    /\ pc = "drafting" /\ Fault
    /\ drafts' \in {drafts, [drafts EXCEPT ![ch] = run]}
    /\ End("raised")
    /\ UNCHANGED <<reviews, summaries, canon, aws, progress, run, request>>

Summarise ==
    /\ pc = "summarising"
    /\ summaries' = [summaries EXCEPT ![ch] = run]
    /\ Goto("auditing")
    /\ UNCHANGED <<drafts, reviews, canon, aws, progress, run, request, locals, faults>>

\* Mutant: no mode insists on the summary.
SummaryIsMissed ==
    /\ pc = "summarising" /\ Fault
    /\ Goto("auditing") /\ UNCHANGED locals
    /\ UNCHANGED <<docs, canon, aws, progress, run, request>>

\* compress raises: that ends the run in an active mode, and is a warning in another.
SummaryFails ==
    /\ pc = "summarising" /\ Fault
    /\ summaries' \in {summaries, [summaries EXCEPT ![ch] = run]}
    /\ IF now.mode \in ACTIVE_MODES THEN End("raised")
                                    ELSE Goto("auditing") /\ UNCHANGED locals
    /\ UNCHANGED <<drafts, reviews, canon, aws, progress, run, request>>

\* Mutant: a review that is there already is good enough.
AuditOnce ==
    /\ pc = "auditing"
    /\ reviews' = IF reviews[ch] = 0 THEN [reviews EXCEPT ![ch] = run] ELSE reviews
    /\ Goto("extracting")
    /\ UNCHANGED <<drafts, summaries, canon, aws, progress, run, request, locals, faults>>

Audit ==
    /\ pc = "auditing"
    /\ reviews' = [reviews EXCEPT ![ch] = run]
    /\ Goto("extracting")
    /\ UNCHANGED <<drafts, summaries, canon, aws, progress, run, request, locals, faults>>

AuditFails ==
    /\ pc = "auditing" /\ Fault
    /\ reviews' \in {reviews, [reviews EXCEPT ![ch] = run]}
    /\ End("raised")
    /\ UNCHANGED <<drafts, summaries, canon, aws, progress, run, request>>

\* What _extract_proposal finds in an answer.
Extracted == Proposals \cup {NoProposal}

\* The extractor answers.
Extract ==
    /\ pc = "extracting"
    /\ output' \in Extracted
    /\ Goto("merging")
    /\ UNCHANGED <<docs, canon, aws, progress, run, request, ch, merged, results,
                   validated, faults>>

ExtractFails ==
    /\ pc = "extracting" /\ Fault
    /\ End("raised")
    /\ UNCHANGED <<docs, canon, aws, progress, run, request>>

Logs(flag) ==
    /\ merged' = flag /\ Goto("logging")
    /\ UNCHANGED <<docs, canon, progress, run, request, ch, output, results>>

\* The working state can be read and takes the proposal.
Merging == output # NoProposal /\ output.ok /\ Accepts(output) /\ ~aws.torn

\* Mutant: the flag is raised before the validator has been asked.
DropQuietly ==
    /\ pc = "merging" /\ ~Merging
    /\ Logs(output # NoProposal)
    /\ UNCHANGED <<aws, validated, faults>>

\* Nothing extracted, refused by schema or validator, or the working state unreadable.
Drop ==
    /\ pc = "merging" /\ ~Merging
    /\ Logs(FALSE)
    /\ UNCHANGED <<aws, validated, faults>>

\* merge_proposal loads the working state and saves it with one entry more.
Merge ==
    /\ pc = "merging" /\ Merging
    /\ LET entry == [chapter |-> ch, proposal |-> output] IN
          /\ aws' = [aws EXCEPT !.entries = @ \cup {entry}]
          /\ validated' = validated \cup {entry}
    /\ Logs(TRUE)
    /\ UNCHANGED faults

\* A write raises, which is caught; the working state may be half written.
MergeFails ==
    /\ pc = "merging" /\ Merging /\ Fault
    /\ aws' \in {aws, TornState}
    /\ Logs(FALSE)
    /\ UNCHANGED validated

\* Mutant: the loop does not come to the next chapter.
FinishChapterAgain ==
    /\ pc = "logging"
    /\ results' = results \cup {ch}
    /\ progress' = [progress EXCEPT ![ch] = IF merged THEN "merged" ELSE "unmerged"]
    /\ output' = NoProposal /\ merged' = FALSE
    /\ ToChapter(ch, now.total)
    /\ UNCHANGED <<docs, canon, aws, run, request, validated, faults>>

\* chapter_results, the line of progress.jsonl, the metrics; on to the next chapter.
FinishChapter ==
    /\ pc = "logging"
    /\ results' = results \cup {ch}
    /\ progress' = [progress EXCEPT ![ch] = IF merged THEN "merged" ELSE "unmerged"]
    /\ output' = NoProposal /\ merged' = FALSE
    /\ ToChapter(ch + 1, now.total)
    /\ UNCHANGED <<docs, canon, aws, run, request, validated, faults>>

FinishChapterFails ==
    /\ pc = "logging" /\ Fault
    /\ progress' \in {progress, [progress EXCEPT ![ch] = IF merged THEN "merged"
                                                                   ELSE "unmerged"]}
    /\ End("raised")
    /\ UNCHANGED <<docs, canon, aws, run, request>>

-----------------------------------------------------------------------------
(* The end of the arc.                                                     *)

Skipping == results # {} /\ validated = {}

\* "no proposals = no apply"
Skip ==
    /\ pc = "generating" /\ Skipping
    /\ End("skipped")
    /\ UNCHANGED <<docs, canon, aws, progress, run, request, faults>>

\* The ledger diff, and the gates of a dry run, are written.
Generate ==
    /\ pc = "generating" /\ ~Skipping /\ \A v \in validated : Generates(v.proposal)
    /\ Goto("gating")
    /\ UNCHANGED <<docs, canon, aws, progress, run, request, locals, faults>>

\* A transition that is not allowed: ValueError, out of run_novel_flow.
GenerateRaises ==
    /\ pc = "generating" /\ ~Skipping /\ \E v \in validated : ~Generates(v.proposal)
    /\ End("raised")
    /\ UNCHANGED <<docs, canon, aws, progress, run, request, faults>>

GenerateFails ==
    /\ pc = "generating" /\ ~Skipping /\ Fault
    /\ End("raised")
    /\ UNCHANGED <<docs, canon, aws, progress, run, request>>

DryRunGate == [synthetic |-> TRUE, decision |-> "approved", evidence |-> "long",
               level |-> "lightweight"]

Gate(q) == IF q.dryRun THEN DryRunGate ELSE q.gate

HardPause ==
    /\ pc = "gating" /\ Gate(now).decision = "rejected"
    /\ End("hard pause")
    /\ UNCHANGED <<docs, canon, aws, progress, run, request, faults>>

\* canonicalize copies the drafts that exist; every operation becomes an entry.
Promoted(S) ==
    [c \in Chapters |-> IF c \in S /\ drafts[c] # 0 THEN drafts[c] ELSE manuscript[c]]
NewFacts ==
    {[run |-> run, chapter |-> v.chapter, proposal |-> v.proposal] : v \in validated}

Applied(S) ==
    /\ manuscript' = Promoted(S) /\ facts' = facts \cup NewFacts
    /\ Goto("reporting")
    /\ UNCHANGED <<docs, aws, progress, run, request, locals, faults>>

\* Mutant: the decision is left to the gate validator, which lets a rejection pass.
ApplyWhatever ==
    /\ pc = "gating"
    /\ GateAccepts(Gate(now), now.dryRun) /\ Prevalidated
    /\ Applied(results)

\* Mutant: only the last chapter's draft is handed over.
ApplyLastDraft ==
    /\ pc = "gating" /\ Gate(now).decision # "rejected"
    /\ GateAccepts(Gate(now), now.dryRun) /\ Prevalidated
    /\ Applied({now.total})

\* AtomicApplyManager.apply: the drafts are promoted and the ledgers appended to.
Apply ==
    /\ pc = "gating" /\ Gate(now).decision # "rejected"
    /\ GateAccepts(Gate(now), now.dryRun) /\ Prevalidated
    /\ Applied(results)

\* apply refuses the gate or the diff.
ApplyRefuses ==
    /\ pc = "gating" /\ Gate(now).decision # "rejected"
    /\ ~(GateAccepts(Gate(now), now.dryRun) /\ Prevalidated)
    /\ End("raised")
    /\ UNCHANGED <<docs, canon, aws, progress, run, request, faults>>

\* apply fails and rolls back.
ApplyFails ==
    /\ pc = "gating" /\ Gate(now).decision # "rejected" /\ Fault
    /\ End("raised")
    /\ UNCHANGED <<docs, canon, aws, progress, run, request>>

\* The dashboard report; run_novel_flow returns.
Report ==
    /\ pc = "reporting"
    /\ End("applied")
    /\ UNCHANGED <<docs, canon, aws, progress, run, request, faults>>

\* The dashboard cannot be written: the run raises, although everything was applied.
ReportFails ==
    /\ pc = "reporting" /\ Fault
    /\ End("raised")
    /\ UNCHANGED <<docs, canon, aws, progress, run, request>>

\* The process ends; a working state it was writing may be torn.
Crash ==
    /\ pc # "idle" /\ Fault
    /\ aws' \in (IF pc = "merging" /\ Merging THEN {aws, TornState} ELSE {aws})
    /\ End("none")
    /\ UNCHANGED <<docs, canon, progress, run, request>>

-----------------------------------------------------------------------------
Chapter ==
    \/ Draft \/ DraftFails \/ Summarise \/ SummaryFails \/ Audit \/ AuditFails
    \/ Extract \/ ExtractFails \/ Drop \/ Merge \/ MergeFails
    \/ FinishChapter \/ FinishChapterFails

Finalize ==
    \/ Skip \/ Generate \/ GenerateRaises \/ GenerateFails
    \/ HardPause \/ Apply \/ ApplyRefuses \/ ApplyFails \/ Report \/ ReportFails

Next ==
    \/ \E q \in Requests : Start(q) \/ Ungated(q) \/ StartFails(q)
    \/ Chapter \/ Finalize \/ Crash

Spec == Init /\ [][Next]_vars

\* A run under way goes on: agents have a timeout and writes end.
FairSpec == Spec /\ WF_vars(Chapter \/ Finalize)
-----------------------------------------------------------------------------
(* Properties.                                                             *)

Entry == [chapter : Chapters, proposal : Proposals]

\* Every variable has its type.
TypeOK ==
    /\ drafts \in [Chapters -> 0 .. MaxRuns] /\ reviews \in [Chapters -> 0 .. MaxRuns]
    /\ summaries \in [Chapters -> 0 .. MaxRuns]
    /\ manuscript \in [Chapters -> 0 .. MaxRuns]
    /\ facts \subseteq [run : Runs, chapter : Chapters, proposal : Proposals]
    /\ aws \in [torn : BOOLEAN, entries : SUBSET Entry]
    /\ progress \in [Chapters -> {"none", "merged", "unmerged"}]
    /\ run \in 0 .. MaxRuns /\ request \in [Runs -> Request \cup {NoRequest}]
    /\ pc \in {"idle", "drafting", "summarising", "auditing", "extracting", "merging",
               "logging", "generating", "gating", "reporting"}
    /\ ch \in 0 .. LastChapter + 1
    /\ output \in Proposals \cup {NoProposal} /\ merged \in BOOLEAN
    /\ results \subseteq Chapters /\ validated \subseteq Entry
    /\ outcome \in {"none", "applied", "skipped", "hard pause", "raised"}
    /\ faults \in 0 .. MaxFaults

\* The two copies of an arc's accepted proposals agree: what the flow remembers, and will
\* apply, is what the agents of later chapters read in arc_working_state.json -- through
\* resumed runs and failing saves, unless a save has left the file unreadable.
WorkingStateAgrees == pc # "idle" /\ ~aws.torn => aws.entries = validated

\* The log says of every finished chapter of the run whether its proposal will be applied.
ProgressIsTrue ==
    \A c \in results :
        progress[c] = IF \E v \in validated : v.chapter = c THEN "merged" ELSE "unmerged"

\* Nothing enters the manuscript unread: the draft that was promoted, or a later one of
\* the chapter, has been reviewed since, whatever was drafted again or interrupted.
PromotedIsReviewed == \A c \in Chapters : manuscript[c] <= reviews[c]

\* An active run promotes no chapter without a summary of that very draft or a later one.
ActiveIsSummarised ==
    \A c \in Chapters :
        manuscript[c] # 0 /\ request[manuscript[c]].mode \in ACTIVE_MODES =>
            manuscript[c] <= summaries[c]

\* The ledgers never run ahead of the manuscript: the draft a fact was extracted from, or
\* a later one of its chapter, has been promoted.
FactsFitManuscript == \A f \in facts : f.run <= manuscript[f.chapter]

\* What is in the ledgers was let in by an author: the gate of the run was approved on
\* evidence, and not made by the system unless the run was a dry run (flow.py:320).
FactsAreGated ==
    \A f \in facts : LET gate == Gate(request[f.run]) IN
        /\ gate.decision = "approved" /\ gate.evidence \notin {"blank", "auto"}
        /\ gate.synthetic => request[f.run].dryRun

\* The hard rule of flow.py:532: no chapter is promoted by a run without an accepted proposal.
NoProposalsNoApply ==
    \A c \in Chapters : manuscript[c] # 0 => \E f \in facts : f.run = manuscript[c]

\* Three places check a proposal: the validator, the generator, and apply() itself.  What
\* passes the first two is never refused by the third, duplicates apart, so that an arc is
\* not lost at its very end.
DiffIsWellFormed == pc = "gating" => \A v \in validated : WellFormed(Operation(v.proposal))

\* Every run of the flow comes to an end.
RunsEnd == pc # "idle" ~> pc = "idle"
=============================================================================
