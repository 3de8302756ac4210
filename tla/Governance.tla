----------------------------- MODULE Governance -----------------------------
(***************************************************************************)
(* What happens after an apply: AtomicApplyManager._emit_chapter_commit    *)
(* appends a commit to workspace/chapter_commits.jsonl and hands it to the *)
(* ProjectionRegistry, one of whose projections is GovernanceProjection.   *)
(*                                                                         *)
(* The log is kept line by line, because a write that ends early leaves a  *)
(* line without its end, and the next append goes on in it.  A commit is   *)
(* numbered by its apply.  Drafts, reports and pauses are files; of their  *)
(* contents only what decides whether a chapter is blocked is kept.        *)
(*                                                                         *)
(* An audit finds a blocking issue in one case only: the arc has character *)
(* baselines, the draft is missing in the arc, and another arc has one of  *)
(* that name.  With a draft in the arc check_chapter() raises, since it is *)
(* called with the draft's text for the character and all baselines for    *)
(* one of them, and the error is swallowed.                                *)
(*                                                                         *)
(* A report or a pause is rewritten in place: a rewrite that fails or dies *)
(* half-way leaves a file that is no JSON where the earlier one was.       *)
(***************************************************************************)
EXTENDS Naturals, Sequences, FiniteSets, SequencesExt

CONSTANTS
  Arcs,
  MaxChapter,      \* bound: chapters of the manuscript
  Names,           \* projections a process may register
  GovernanceName,  \* the one that is a GovernanceProjection
  HasBaselines,    \* arcs with a character_baselines.json
  NoCommit,
  MaxApplies,      \* bound
  MaxChanges,      \* bound: changes of the registry or the mode
  MaxFaults        \* bound: failed and torn writes, handlers that raise, deaths

Chapters == 1 .. MaxChapter

ASSUME NamesAssumption == GovernanceName \in Names /\ HasBaselines \subseteq Arcs
ASSUME BoundsAssumption ==
  MaxChapter \in Nat \ {0} /\ MaxApplies \in Nat /\ MaxChanges \in Nat
  /\ MaxFaults \in Nat

Commit == [n : Nat, arc : Arcs, chapter : Chapters]
ASSUME NoCommitAssumption == NoCommit \notin Commit

Line == [commit : Commit \cup {NoCommit}, ended : BOOLEAN]
Record == [name : Names, n : Nat, chapter : Chapters,
           status : {"success", "failed", "skipped"}]

VARIABLES
  drafts,      \* arcs/<arc>/drafts
  manuscript,  \* canon/manuscript
  lines,       \* of the commit log; commit is NoCommit where JSON cannot be read
  registry,    \* _projections, in the order of registration
  mode,        \* of the GovernanceProjection
  reports,     \* workspace/reports/governance_<chapter>.json: the commit it is about,
               \* NoCommit where there is none or it is no JSON
  pauses,      \* arcs/<arc>/reports/hard_pause_<chapter>.json
  tornPauses,  \* those that are no JSON
  overridden,  \* the same with .overridden
  pc,          \* where apply() is after its changes to canon and ledgers
  event,       \* the commit being dispatched
  at,          \* the next projection
  records,     \* what the dispatch has so far
  history,     \* _history
  applies, changes, faults,
  tears, lost, \* history: torn appends; commits never written
  blocked      \* history: arcs and chapters an audit has blocked with success

files == <<drafts, manuscript, reports, pauses, tornPauses, overridden>>
process == <<registry, mode, history, changes>>
ghosts == <<tears, lost, blocked>>
vars == <<drafts, manuscript, lines, registry, mode, reports, pauses, tornPauses, overridden,
          pc, event, at, records, history, applies, changes, faults, tears, lost, blocked>>

Init ==
  /\ drafts = [a \in Arcs |-> {}] /\ manuscript = {}
  /\ lines = <<>>
  /\ registry = <<>> /\ mode = "shadow"
  /\ reports = [c \in Chapters |-> NoCommit]
  /\ pauses = {} /\ tornPauses = {} /\ overridden = {}
  /\ pc = "idle" /\ event = NoCommit /\ at = 1 /\ records = <<>> /\ history = <<>>
  /\ applies = 0 /\ changes = 0 /\ faults = 0 /\ tears = 0 /\ lost = 0 /\ blocked = {}

Fault == faults < MaxFaults /\ faults' = faults + 1

-----------------------------------------------------------------------------
(* ChapterCommitStore.                                                     *)

TailOpen == lines # <<>> /\ ~lines[Len(lines)].ended

\* What one append leaves of a commit: it goes on in a line that has no end, and two
\* events in one line are no JSON.
Written(c, ended) ==
  IF TailOpen
  THEN [lines EXCEPT ![Len(lines)] = [commit |-> NoCommit, ended |-> ended]]
  ELSE Append(lines, [commit |-> c, ended |-> ended])

\* Mutant: reading ends at the first line that is no JSON.
LoadToFirstError ==
  {j \in 1 .. Len(lines) : \A k \in 1 .. j : lines[k].commit # NoCommit}

\* load_all returns the commits of these lines in their order: what is no JSON is skipped.
load_all == {j \in 1 .. Len(lines) : lines[j].commit # NoCommit}

-----------------------------------------------------------------------------
(* Drafts and applies.                                                     *)

Draft(a, c) ==
  /\ c \notin drafts[a]
  /\ drafts' = [drafts EXCEPT ![a] = @ \cup {c}]
  /\ UNCHANGED <<manuscript, lines, process, reports, pauses, tornPauses, overridden, pc,
                 event, at, records, applies, faults, ghosts>>

\* _resolve_chapter_id: the last chapter of the manuscript, whichever was applied.
IsLastChapter(c, m) == IF m = {} THEN c = 1 ELSE c \in m /\ \A d \in m : d <= c

\* apply() with a commit store: draft files of the arc, or none, come into canon.
Apply(a, S) ==
  /\ pc = "idle" /\ applies < MaxApplies
  /\ S \subseteq drafts[a]
  /\ manuscript' = manuscript \cup S
  /\ applies' = applies + 1
  /\ pc' = "emitting"
  /\ \E c \in Chapters : /\ IsLastChapter(c, manuscript')
                         /\ event' = [n |-> applies + 1, arc |-> a, chapter |-> c]
  /\ UNCHANGED <<drafts, lines, process, reports, pauses, tornPauses, overridden, at, records,
                 faults, ghosts>>

\* The Workbench's manager has neither store nor registry: no commit.
WorkbenchApply(a, c) ==
  /\ pc = "idle" /\ c \in drafts[a] /\ c \notin manuscript
  /\ manuscript' = manuscript \cup {c}
  /\ UNCHANGED <<drafts, lines, process, reports, pauses, tornPauses, overridden, pc, event,
                 at, records, applies, faults, ghosts>>

AppendCommit ==
  /\ pc = "emitting"
  /\ lines' = Written(event, TRUE)
  /\ pc' = "dispatching" /\ at' = 1 /\ records' = <<>>
  /\ UNCHANGED <<files, process, event, applies, faults, ghosts>>

\* The write ends early: only the line end is missing, or more.  The error is swallowed
\* and nothing is dispatched.
AppendTorn ==
  /\ pc = "emitting" /\ Fault
  /\ \E c \in {event, NoCommit} : lines' = Written(c, FALSE)
  /\ tears' = tears + 1
  /\ pc' = "idle" /\ event' = NoCommit
  /\ UNCHANGED <<files, process, at, records, applies, lost, blocked>>

AppendFails ==
  /\ pc = "emitting" /\ Fault
  /\ lost' = lost + 1
  /\ pc' = "idle" /\ event' = NoCommit
  /\ UNCHANGED <<files, lines, process, at, records, applies, tears, blocked>>

-----------------------------------------------------------------------------
(* ProjectionRegistry.                                                     *)

Registered == {registry[j].name : j \in 1 .. Len(registry)}

Change == pc = "idle" /\ changes < MaxChanges /\ changes' = changes + 1

register(p) ==
  /\ Change /\ p \notin Registered
  /\ registry' = Append(registry, [name |-> p, enabled |-> TRUE])
  /\ UNCHANGED <<files, lines, mode, pc, event, at, records, history, applies, faults,
                 ghosts>>

unregister(p) ==
  /\ Change
  /\ \E j \in 1 .. Len(registry) :
       registry[j].name = p /\ registry' = RemoveAt(registry, j)
  /\ UNCHANGED <<files, lines, mode, pc, event, at, records, history, applies, faults,
                 ghosts>>

\* enable and disable.
SetEnabled(p, on) ==
  /\ Change
  /\ \E j \in 1 .. Len(registry) :
       /\ registry[j] = [name |-> p, enabled |-> ~on]
       /\ registry' = [registry EXCEPT ![j].enabled = on]
  /\ UNCHANGED <<files, lines, mode, pc, event, at, records, history, applies, faults,
                 ghosts>>

Current == registry[at].name
Note(status) ==
  /\ records' = Append(records, [name |-> Current, n |-> event.n, chapter |-> event.chapter,
                                 status |-> status])
  /\ at' = at + 1

Dispatching == pc = "dispatching" /\ at <= Len(registry)
Running == Dispatching /\ registry[at].enabled

Skip ==
  /\ Dispatching /\ ~registry[at].enabled
  /\ Note("skipped")
  /\ UNCHANGED <<files, lines, process, pc, event, applies, faults, ghosts>>

\* The built-in projections are stubs that say they succeeded.
ProjectOther ==
  /\ Running /\ Current # GovernanceName
  /\ Note("success")
  /\ UNCHANGED <<files, lines, process, pc, event, applies, faults, ghosts>>

Auditing == Running /\ Current = GovernanceName

\* write_text empties the chapter's report and ends before the new one is whole.
TearReport == reports' = [reports EXCEPT ![event.chapter] = NoCommit]

\* A handler raises, or the audit does, before its report is on disk or while it is
\* written over the one of an earlier commit.
ProjectionFails ==
  /\ Running /\ Fault
  /\ Note("failed")
  /\ (Auditing /\ TearReport) \/ UNCHANGED reports
  /\ UNCHANGED <<drafts, manuscript, pauses, tornPauses, overridden, lines, process, pc,
                 event, applies, ghosts>>

EndDispatch ==
  /\ pc = "dispatching" /\ at > Len(registry)
  /\ history' = history \o records
  /\ pc' = "idle" /\ event' = NoCommit /\ at' = 1 /\ records' = <<>>
  /\ UNCHANGED <<files, lines, registry, mode, changes, applies, faults, ghosts>>

-----------------------------------------------------------------------------
(* GovernanceProjection.                                                   *)

\* The text of the chapter, from whichever arc has a draft of that name.
read_draft(c) == \E a \in Arcs : c \in drafts[a]

load_all_for_arc(a) == a \in HasBaselines

\* The finding "missing_draft" is a hard pause; with a draft the call raises.
check_chapter(a, c) == c \notin drafts[a]

\* _generate_report: recommended_action is "block".
Blocks(e) ==
  load_all_for_arc(e.arc) /\ read_draft(e.chapter) /\ check_chapter(e.arc, e.chapter)

\* _write_report: one report per chapter, whatever the arc.
write_report(e) == reports' = [reports EXCEPT ![e.chapter] = e]

audit ==
  /\ Auditing
  /\ write_report(event)
  /\ IF mode = "active" /\ Blocks(event)
     THEN pc' = "pausing" /\ UNCHANGED <<at, records>>
     ELSE Note("success") /\ UNCHANGED pc
  /\ UNCHANGED <<drafts, manuscript, lines, process, pauses, tornPauses, overridden, event,
                 applies, faults, ghosts>>

Paused == <<event.arc, event.chapter>>

WritePause ==
  /\ pc = "pausing"
  /\ pauses' = pauses \cup {Paused} /\ tornPauses' = tornPauses \ {Paused}
  /\ blocked' = blocked \cup {Paused}
  /\ Note("success")
  /\ pc' = "dispatching"
  /\ UNCHANGED <<drafts, manuscript, lines, process, reports, overridden, event, applies,
                 faults, tears, lost>>

\* write_text empties the pause, a new one or that of an earlier audit, and ends before
\* the new one is whole.
TearPause == pauses' = pauses \ {Paused} /\ tornPauses' = tornPauses \cup {Paused}

\* Mutant: the audit counts as done once its report is written.
PauseFailsQuietly ==
  /\ pc = "pausing" /\ Fault
  /\ blocked' = blocked \cup {Paused}
  /\ Note("success")
  /\ pc' = "dispatching"
  /\ UNCHANGED <<files, lines, process, event, applies, tears, lost>>

\* The report stays and says "block", the pause is missing or as it was or torn, the
\* record says "failed".
PauseFails ==
  /\ pc = "pausing" /\ Fault
  /\ Note("failed")
  /\ pc' = "dispatching"
  /\ TearPause \/ UNCHANGED <<pauses, tornPauses>>
  /\ UNCHANGED <<drafts, manuscript, reports, overridden, lines, process, event, applies,
                 ghosts>>

\* set_active and set_shadow.
SetMode(m) ==
  /\ Change /\ mode # m
  /\ mode' = m
  /\ UNCHANGED <<files, lines, registry, pc, event, at, records, history, applies, faults,
                 ghosts>>

\* A pause of the arc that can be read and nobody has overridden, whatever its chapter.
check_hard_pause(a) == \E c \in Chapters : <<a, c>> \in pauses

\* The author overrides a pause, any time: the file is renamed, whatever is in it.
clear_hard_pause(a, c) ==
  /\ <<a, c>> \in pauses \cup tornPauses
  /\ pauses' = pauses \ {<<a, c>>} /\ tornPauses' = tornPauses \ {<<a, c>>}
  /\ overridden' = overridden \cup {<<a, c>>}
  /\ UNCHANGED <<drafts, manuscript, reports, lines, process, pc, event, at, records,
                 applies, faults, ghosts>>

-----------------------------------------------------------------------------
\* The process dies and another one is started, whose governance is in shadow mode.  It
\* may die inside the write of a report or a pause; inside an append, that is AppendTorn
\* and then this.
Crash ==
  /\ Fault
  /\ pc' = "idle" /\ event' = NoCommit /\ at' = 1 /\ records' = <<>>
  /\ registry' = <<>> /\ mode' = "shadow" /\ history' = <<>>
  /\ lost' = IF pc = "emitting" THEN lost + 1 ELSE lost
  /\ \/ UNCHANGED <<reports, pauses, tornPauses>>
     \/ Auditing /\ TearReport /\ UNCHANGED <<pauses, tornPauses>>
     \/ pc = "pausing" /\ TearPause /\ UNCHANGED reports
  /\ UNCHANGED <<drafts, manuscript, overridden, lines, applies, changes, tears, blocked>>

Author ==
  \/ \E a \in Arcs, c \in Chapters :
       Draft(a, c) \/ WorkbenchApply(a, c) \/ clear_hard_pause(a, c)
  \/ \E a \in Arcs : \E S \in SUBSET drafts[a] : Apply(a, S)

Emit == AppendCommit \/ AppendTorn \/ AppendFails

Configure ==
  \/ \E p \in Names : register(p) \/ unregister(p)
  \/ \E p \in Names, on \in BOOLEAN : SetEnabled(p, on)
  \/ \E m \in {"shadow", "active"} : SetMode(m)

Dispatch == Skip \/ ProjectOther \/ ProjectionFails \/ EndDispatch

Audit == audit \/ WritePause \/ PauseFails

Next == Author \/ Emit \/ Configure \/ Dispatch \/ Audit \/ Crash

Spec == Init /\ [][Next]_vars

-----------------------------------------------------------------------------
\* Every variable has its type.
TypeOK ==
  /\ drafts \in [Arcs -> SUBSET Chapters] /\ manuscript \subseteq Chapters
  /\ lines \in Seq(Line)
  /\ registry \in Seq([name : Names, enabled : BOOLEAN])
  /\ mode \in {"shadow", "active"}
  /\ reports \in [Chapters -> Commit \cup {NoCommit}]
  /\ pauses \subseteq Arcs \X Chapters /\ tornPauses \subseteq Arcs \X Chapters
  /\ overridden \subseteq Arcs \X Chapters
  /\ pc \in {"idle", "emitting", "dispatching", "pausing"}
  /\ event \in Commit \cup {NoCommit}
  /\ at \in Nat /\ records \in Seq(Record) /\ history \in Seq(Record)
  /\ applies \in Nat /\ changes \in Nat /\ faults \in Nat /\ tears \in Nat /\ lost \in Nat
  /\ blocked \subseteq Arcs \X Chapters

\* The log keeps its commits in the order of the applies, and a torn append costs at most
\* its own commit and the next one, however appends, tears and deaths follow each other;
\* every other commit that is missing was never written (chapter_commit.py:119-150).
TearsLoseAtMostTwo ==
  /\ \A j, k \in load_all : j < k => lines[j].commit.n < lines[k].commit.n
  /\ applies - (IF pc = "emitting" THEN 1 ELSE 0) <= Cardinality(load_all) + 2 * tears + lost

Noted == ToSet(history) \cup ToSet(records)

Succeeded(r) == r.name = GovernanceName /\ r.status = "success"

\* Governance says of the chapter, for this commit or a later one, that it failed.
Disowned(r) ==
  \E q \in Noted : /\ q.name = GovernanceName /\ q.status = "failed"
                   /\ q.chapter = r.chapter /\ q.n >= r.n

\* What governance says it did is borne out by files.  Of a record that says success, and
\* that no record of a failure for this chapter follows, there is a report, of that commit
\* or a later one: a rewrite that destroys the report of an earlier success never goes
\* unsaid.  What was blocked with success is paused, where check_hard_pause() finds it,
\* or overridden, and the override is kept, or a rewrite of its pause was cut short
\* (governance_projection.py:83-109, 188-210, 236-239, 250-277).
SuccessIsOnDisk ==
  /\ \A r \in Noted : Succeeded(r) /\ ~Disowned(r) =>
       reports[r.chapter] # NoCommit /\ reports[r.chapter].n >= r.n
  /\ \A b \in blocked \ (overridden \cup tornPauses) :
       b \in pauses /\ check_hard_pause(b[1])
=============================================================================
