# A verification project for `novel_workflow`

`novel_workflow` (under `src/src/novel_workflow/`) is a workflow kernel for writing
serial fiction with agents.  Agents only ever write drafts, reviews and *proposals*; an
author approves a gate record; and one system script, `AtomicApplyManager`, turns an
approved proposal into facts: chapters in `canon/manuscript`, character cards in
`canon/characters` and entries in the three ledgers (timeline, character knowledge,
foreshadowing).  Everything else -- summaries, character states, retrieval indexes,
governance reports, the dashboard -- is derived from those facts and may be rebuilt.

This directory holds TLA+ models of the parts of that kernel whose correctness depends on
order, interleaving or failure, the TLC configurations that check them on small
instances, and theorems about them checked by TLAPS.  Paths below are relative to
`src/src/novel_workflow/` unless they say otherwise.

## 1. Inventory of the system

| Component | State | Operations | Interacts with |
|---|---|---|---|
| `AtomicApplyManager` (`system_scripts/atomic_apply_manager.py`, `canonicalizer.py`) | ledgers, canon, one snapshot per diff, apply record per arc, consumed hashes (memory and file) | `apply`: prevalidate, snapshot, promote drafts, append, write cards, record, mark consumed, roll back | holds a `LockManager` lock; emits to `ChapterCommitStore` |
| Rule tables and gates (`config.py`, `validators/gate_validator.py`, `schema_validator.py`, `derived_artifact_policy.py`) | none | validation | called by `apply`, by the flow and by the proposals |
| `LockManager` (`guards/lock_manager.py`) | one `threading.Lock` per name | `hold` with a 30 s timeout | one instance inside each `AtomicApplyManager` |
| `OutboxStore`, `OutboxWorker` (`system_scripts/outbox_store.py`) | a SQLite table of jobs with leases | enqueue, claim, heartbeat, complete, fail, requeue | `api.py` and `mcp_server.py` report on it; workers run handlers |
| Rebuild (`rebuild_orchestrator.py`, `rebuild_lock.py`, `rebuild_dag.py`) | a lock file, the derived artifacts | `rebuild` for a chapter or an arc: ten adapters in a fixed order | lock, manifest, the builders |
| Manifest and generations (`manifest_manager.py`, `stable_generation_pointer.py`, `artifact_writer.py`, `generation_cache.py`) | `workspace/phase2/manifest.json`, a cached copy of it in each instance | register, mark stale, stage, promote, roll back, resolve | written by rebuilds, read by the context provider |
| Chapter commits and projections (`schemas/chapter_commit.py`, `projection_registry.py`, `governance_projection.py`) | the commit log, the registered projections and their history (memory), governance reports and pauses | append, load, register, dispatch, replay, audit, check and clear a pause | fed by `apply`; the audit reads drafts and character baselines |
| Novel flow (`crewai/flow.py`, `arc_state_manager.py`) | the arc working state, drafts, reviews, summaries, proposals, the progress log | draft, summarise, review, propose, merge, gate, apply | calls agents, validators and `AtomicApplyManager` |
| Pauses, streaks and batches (`pause/`, `drift_streak_tracker.py`, `batch_stop.py`, `review_convergent.py`) | a streak counter | decide when to stop, pause or ask for another review | meant for the flow, which does not call them |
| Proposals (`ledger_diff_generator.py`, `validators/proposal_validator.py`, `source_artifact_policy.py`) | the working state | turn facts of an arc into a ledger diff | between the flow and `apply` |
| Foreshadow lifecycle (`schemas/foreshadow_lifecycle.py`, `foreshadow_lifecycle_manager.py`, `replay_contract.py`) | lifecycle records | transition, overdue, replay | reads the foreshadowing ledger |
| Search index (`bm25_retriever.py`, `hybrid_retriever.py`, `vector_adapter.py`, `graph_expander.py`) | the SQLite full-text index | build (with or without force), search, fuse, trim to a budget | reads canon, ledgers and summaries; asked through MCP and scripts |
| Context building (`context_provider.py`, `retrieval_context_builder.py`, `validators/retrieval_validator.py`) | a manifest read once per run, traces | build a context per role and chapter, write its trace | called by the flow; reads derived artifacts through the stable pointer |
| Stress test and phase 3 scripts (`src/scripts/run_stress_test.py`, `src/scripts/phase3_auto_runner.py`) | a project, a checkpoint file, a verdict | write and apply chapters with retries, resume, run test suites, accept or reject | call `apply` with a commit store; the runner starts the stress test and kills it after an hour |
| Path safety (`guards/path_safety.py`) | none | allow or refuse a path | called by every writer |
| Workbench and MCP (`api.py`, `mcp_server.py`) | request state only | HTTP and tool endpoints | call the above |
| Analysis (`arc_planning_engine.py`, `character_consistency_engine.py`, `narrative_*`, `auditor_comparator.py`, `structured_auditor.py`, `character_baseline_loader.py`, `chapter_effect_checker.py`) | derived documents | pure functions of text and ledgers | called by the flow and by rebuilds |

What is hard, by component, and what makes it correct:

* **Apply.** A dozen file operations of which any may raise; a rollback that restores
  whole directories; a commit point (the consumed file) that is itself a fallible write;
  state kept twice (memory and disk); locks per arc over data shared by all arcs.  Correct
  means: facts change by whole diffs, each at most once for as long as it can be recognised; a
  failed call leaves no trace; the record and the consumed set agree with the store; nothing
  prevalidation rejects gets in.
* **Outbox.** Several processes, no common memory, time-based ownership, reads and writes
  in separate statements.  Correct means: one job per dedup key, one holder per job,
  bounded attempts, nothing stuck in `running`, completed means completed, every job ends.
* **Rebuild and manifest.** A lock made of "look, then write a file"; each participant
  keeps its own copy of the manifest and writes the whole of it.  Correct means: one rebuild at
  a time, no registration lost, readers see a promoted generation.
* **Commits, projections, governance.** Failures are swallowed by design, an append may be
  torn, and what is registered lives in memory.  Correct means: the log loses no more than
  the write that failed and its neighbour, it keeps the order of the applies, and a record that
  says success is borne out by the files it speaks of, until a later one says that a rewrite
  of them failed.
* **Generations and contexts.** Tools register, stage, promote and roll back artifacts while
  a run reads them through a manifest it loaded once, and writes traces that may fail.
  Correct means: a run reads one generation of each index, and no active writer is called
  whose contexts have left no trace.
* **Search index.** Builders share a file that one of them may unlink under the other, and a
  locked database is taken for an unreadable document.  Correct means: a build nobody came
  between leaves the sources as they are, whatever was left before it, and a query returns
  the best of what was found that fits its budget.
* **Stress test.** Three kinds of state (timeline, commit log, checkpoint) written one after
  another, by processes that are killed and resumed.  Correct means: crashes lose and repeat
  nothing, a verdict of passed is earned, each run ends.
* **Flow.** Long sequences of legal steps across several runs: chapters drafted again, runs
  resumed at a later chapter, agents and writes that raise, some of it caught and some not.
  Correct means: nothing is applied without review and gate, facts and chapters go together,
  and what the flow remembers, saves, logs and applies is the same.

`PROJECT.json` lists every component with its status, and every hazard at its line.

## 2. Modules

| Module | What it is |
|---|---|
| `LedgerRules` | the rule tables and the data-independent validations of `apply()` |
| `AtomicStore` | abstract: a fact store that changes by whole diffs, each at most once |
| `AtomicApply` | `AtomicApplyManager.apply`, one action per file operation |
| `AtomicApplyInv` | the inductive invariant of its orderly use, conjunct by conjunct, and how far a call is from its end |
| `AtomicApplyProofs` | theorems about it |
| `MCAtomicApply` | small instances |
| `TaskQueue` | abstract: a queue whose jobs have at most one holder and a budget of tries |
| `Outbox` | `OutboxStore` and `OutboxWorker`, one SQL statement or transaction a step |
| `OutboxProofs` | theorems about it |
| `MCOutbox` | small instances |
| `Rebuild` | `RebuildOrchestrator.rebuild` with its lock and its copies of the manifest |
| `RebuildProofs` | theorems about it |
| `MCRebuild` | small instances |
| `NovelFlow` | `run_novel_flow`, run after run on one arc, with its working state and the checks of a proposal |
| `NovelFlowProofs` | theorems about it |
| `MCNovelFlow` | small instances |
| `StressRunner` | the loop of `run_stress_test.py` with checkpoint and resume, and `phase3_auto_runner.py` around it |
| `StressRunnerProofs` | theorems about it |
| `MCStressRunner` | small instances |
| `Governance` | the commit log line by line, the registry, the governance audit and its pauses |
| `GovernanceProofs` | theorems about it |
| `MCGovernance` | small instances |
| `SearchIndex` | concurrent builds of the full-text index, and one query through fusion and trimming |
| `SearchIndexProofs` | theorems about its builds and its queries |
| `MCSearchIndex` | small instances |
| `Generations` | the stable pointer and its tools, against runs that build contexts |
| `GenerationsProofs` | theorems about it |
| `MCGenerations` | small instances |

Definitions whose comment begins with "Mutant" are wrong on purpose: each is a variant of
the definition after it with a plausible slip, and shows that one of the properties is
able to fail (`PROJECT.json`, "mutants").  Nothing else uses them.

### AtomicApply

A caller goes through the stages of `apply()`; `pc` names the stage, `Critical` is the part
inside `with self._lock_manager.hold(...)`, `Changing` the part in which the store may
differ from the one the call found.

| Code | Action |
|---|---|
| gate and schema validation, entering `hold` | `Begin`, `Acquire`, `LockTimeout` |
| consumed test and `_prevalidate_ledger_diff` | `Refuse`, `Admit` |
| snapshot of ledgers, then of canon | `SnapshotLedgers`, `SnapshotCanon`, `SnapshotFails` |
| `canonicalize` | `CopyDraft`, one draft a step |
| `_apply_ledger_diff` | `ReadLedger`, `AppendEntry`: another caller may write the file in between |
| `_apply_canon_diff` | `WriteCard` |
| apply record; `_consumed.add` | `WriteRecord` |
| `_save_consumed` | `SaveConsumed` (the commit point), `SaveConsumedFails` |
| `_emit_chapter_commit` | `EmitCommit` |
| the `except` clause | `WriteFails` (anything raised), `RestoreLedgers`, `RestoreCanon`, `RestoreFails` |
| the process ends; a manager is constructed | `Crash`, `Construct` |

State: a ledger is the shape of its file (absent, with an `events` list, with a
`<ledger>_entries` list) and, for every operation, how often its entry occurs in it; a
chapter or card is the diff that wrote it; a diff is identified with its hash.  The stale copies
a failed attempt leaves in its snapshot directory are kept, because the code does not empty
`snapshot_<hash>/ledgers`.

Assumed or abstracted: the directories of the project exist (`project_init.py:5-18`); the
drafts of a diff are those that exist (`canonicalize` skips the others); the `arc_id`
argument is the one of the diff; the first eight digits of a hash tell diffs apart; the order
of the entries of a file and of the operations of a diff is left out (prevalidation looks at
all of them before any is written, and every interleaving of single writes is explored
anyway); a copied directory is one step, except that a failing rollback may leave it empty.
Torn writes: a ledger, chapter or card torn by the write that fails is what the rollback copies
over, so it makes no difference after `WriteFails`.  The arc's record is torn when its own write
fails, and no rollback restores it (`NoDiff`).  The consumed file may be torn by a failing save
and by a death during it, and loads as empty from then on.  A death is otherwise taken to leave a
file as before its write or after it, so a ledger torn by a death is not modelled.

*Orderly use* (`OrderlySpec`) is how the shipped callers behave: the workbench endpoint
(`api.py:146-189`) and the flow (`crewai/flow.py:596-612`) build a manager for each apply
and run it to its end in a process that handles one call at a time.  `Orderly` says just
that: one call at a time, on a manager that knows every hash on disk.  All file operations
may still fail, those of the rollback excepted (`RollbackSurvives`), and the process survives
the call.  A save of the consumed hashes may fail with the file intact or with the file lost.
In the second case a manager built later does not know what has been applied: `forgotten` holds
the diffs whose hash was lost.  What then refuses a repeat is the look for event ids in the
timeline.  It sees a diff that brings an event id into a timeline with an `events` list
(`HasOwnEvent`); any other diff can be applied a second time, and that is what the code
does.  The properties say so instead of excluding it: an applied diff that can be recognised
(`Recognised`) is in the store once, any other one a whole number of times (`Whole`),
and what is remembered is all that was applied except `forgotten` (`AppliedIsConsumed`).
`AtomicStore` has a step `Forget` for the loss and lets a forgotten diff that is not
`Distinctive` be committed again, as a whole.

### Outbox

A row is `status`, `request` (job type, dedup key, `max_attempts`), `attempts`, `owner`,
`leaseUntil`, `availableAt`.  A worker's local variables -- the time it noted before the
query, the job it holds, the attempts it read -- are state of their own, because the code
uses them in a later statement.

| Code | Action |
|---|---|
| `enqueue` | `EnqueueKnown`; `EnqueueNew` then `Insert` or `InsertCollides` (the unique index) |
| `claim_next` | `StartClaim` (notes the time), `Recover`, then `Claim` or `ClaimNothing` |
| `heartbeat` | `Heartbeat` |
| `mark_complete` | `MarkComplete` |
| a handler that raises, or none | `HandlerRaises`, or `Claim` into `"failing"` |
| `mark_failed` | `ReadAttempts`, then `GiveUp` or `Retry` |
| `requeue_dead` | `RequeueDead` |
| `time.time()` | `clock`, `Tick` |
| a worker that dies | `Crash` |

`OutboxWorker.run_loop` is `Work`.  Rows are never deleted by the code, so a key that
exists goes on existing.  `Tick` is enabled only while something waits for time to pass (a
due time, a lease), which keeps the states finite without a bound on the clock; what is
lost are behaviours in which a claim is late while nothing waits.  `RequeueDead`,
`Heartbeat`, `Crash` and the claims of one job have bounds (`MaxRequeues`, `MaxBeats`,
`MaxCrashes`, `MaxClaims`), zero where a run does not need them.

`TimelySpec` adds the assumption every lease protocol needs: nobody holds a job past its lease
(`Timely`).  The code does not enforce it -- `run_once` never renews a lease by itself.
Under plain `Spec` a worker whose lease has run out while its handler was still busy can
find the job completed by another one, and its `mark_failed` makes the completed job
pending or dead again.  A recovered lease is also claimed whatever its attempts, so a job
whose workers die is tried more often than `max_attempts`, which counts failures -- at most once
more for each death, as `RetriesAreBounded` proves.

### Rebuild

A caller is a process with a `RebuildOrchestrator` of its own, that may call `rebuild()`
again or build a new one.  A call goes through the ten steps of `REBUILD_ORDER` (`step`);
what an adapter does is a list of operations (`Script`: write an artifact, hash it, load
the manifest and put entries into the copy, save the copy, verify), of which `at` is the
next one; there is one operator per adapter.  So another process, an exception or a death can come between any two file
accesses.

| Code | Action |
|---|---|
| `acquire` and `is_locked` | `Refused`; `LookAtLock`, `ClearLock` (an expired lock is unlinked), then `TakeLock` or `TakeLockFails` |
| the lock's 300 s have passed | `Expire` |
| a builder writes its document | `WriteArtifact` |
| `register_persisted_artifact` | `HashArtifact`, then a load |
| `ManifestManager.load` and `register_artifact` | `LoadManifest`, `LoadUnreadable` |
| `ManifestManager.save` | `SaveManifest` (a temporary file and a rename: one step) |
| `verify_required_artifacts` | `VerifyPasses`, `VerifyFails` |
| an adapter returns nothing, or raises | `SkipAdapter`, `AdapterRaises` |
| a failed result; the early return of an active rebuild | `Fail` |
| `self._manifest.save()` | `FinalLoad` or `FinalLoadUnreadable`, then `FinalSave` or `FinalSaveRaises` |
| the `finally` clause | `Release`, `ReleaseFails` |
| the process ends; an orchestrator is constructed | `Crash`, `Construct` |

State: of an artifact its existence; of a manifest the paths that have an entry and the
recorded hash of the lifecycle index, the one required entry and the one that is registered
with a hash.  Its content is identified with the call that wrote it.  `raced` is a history
variable: it becomes true when two callers acquire the lock at once, or when a lock expires
whose rebuild is still at work.  `rebuild_lock.py` lets both happen.

Abstracted: what the artifacts say (a builder is its writes and registrations); entries are never marked stale by a rebuild; one arc
(the artifacts of an arc have paths of their own, the lock and the manifest are common);
the drift check registers one report whatever the number of characters, and the chapters
rebuilt have drafts (without one it registers nothing); an operation that
raises has had no effect (saves are atomic, and a half-written artifact exists either way).
An orchestrator keeps its copy of the manifest from its first final save on: used for a
second rebuild, it would save that copy over what its adapters have just registered, and
report success.  Nobody in the repository does so, and the properties are about calls made by
an orchestrator of their own.

### NovelFlow

One arc of a project, and one call of `run_novel_flow` at a time; a call ends by returning,
by raising or with its process, and the next may have other arguments and another context
mode.  A document is identified with the number of the run that wrote it, also when the
write was only begun.

| Code | Action |
|---|---|
| arguments; directories, working state, contract | `Start`, `Ungated` (no gate), `StartFails` |
| contexts, the writer, `safe_write_draft` | `Draft`, `DraftFails` |
| `NarrativeCompressor.compress` | `Summarise`, `SummaryFails` (the end of the run in an active mode) |
| the auditor, `safe_write_review` | `Audit`, `AuditFails` |
| the extractor, `_extract_proposal` | `Extract`, `ExtractFails` |
| schema, `ProposalValidator`, `merge_proposal` and the `except` around them | `Drop`, `Merge`, `MergeFails` |
| `chapter_results`, progress, metrics; the loop | `FinishChapter`, `FinishChapterFails` |
| "no proposals = no apply" | `Skip` |
| `LedgerDiffGenerator.generate`, the diff and the gates of a dry run | `Generate`, `GenerateRaises`, `GenerateFails` |
| a rejected gate | `HardPause` |
| `AtomicApplyManager.apply` | `Apply`, `ApplyRefuses` (gate or prevalidation), `ApplyFails` |
| the dashboard; the return | `Report`, `ReportFails` |
| the process ends | `Crash` |

State: `aws` is `arc_working_state.json`, `validated` and `results` the lists the run keeps
in memory, `progress` the last line about a chapter in `progress.jsonl`.  A proposal is what
its checks look at: schema, ledger and operation, the kind of artifact it cites and the
chapter of it, event id, and the two ends of a foreshadow transition.  A gate is as in
`LedgerRules`, whose `WellFormed` and `GateAccepts` this module shares with `AtomicApply`.

`apply()` is one step here, which happens or leaves everything as it was: that is what
`AtomicApplyProofs` proves of calls made one at a time by a manager of their own, as the
flow makes them.  A process that dies inside `apply()` is the business of `AtomicApply`, and
not repeated.  `apply()` cannot refuse a diff of the flow as consumed: a `LedgerDiff`
carries the time of its making, and so has a hash of its own.

Abstracted: what is written; a summary, a review or a retrieval trace is read by agents
only; a checkpoint chapter prints a line (flow.py:524) and nothing else.  The revision loop
(flow.py:635) is unreachable.  Nothing is assumed of an agent: it may propose anything.

### StressRunner

| Code | Action |
|---|---|
| `main` without `--resume`: the old project is removed, workspace last | `Wipe`, `WipeWorkspace`, `NoKey` |
| `_load_checkpoint` and `--resume` | `Resume`, `AlreadyCompleted`, `ResumeFromNothing`, `ResumeUnreadable` |
| `call_llm` | `Generate`, `RetryLLM`, `LLMFails` |
| `manager.apply` | `Apply` (its commit logged or lost), `ApplyRefuses` (the event is there already), `ApplyFails` |
| `_save_checkpoint`; the `except` clause it shares with `apply` | `SaveCheckpoint`, `SaveFails` |
| the verdict, and the checkpoint removed | `Finish` |
| `phase3_auto_runner.py`: suites, the stress test as a child, the report | `StartPhase3`, `RunSuite`, `RunStress`, `SkipStress`, `TimeOut`, `Report` |
| a process that ends | `Crash` |

State: a chapter is its number; `applied` is the timeline, `commits` the number of lines of
the log, `checkpoint` and `chapters` the entries of the two lists.  `apply()` is one step, by
`AtomicStore`.  Two history variables hold the conditions of the properties:
`onlyCrashes` (nothing but ended processes has gone wrong, and no project was removed that
had a checkpoint) and `tornWipe` (a process died while it removed a project: log and
timeline are of different projects).

The model also has what no property promises.  A save that fails leaves a second entry for
its chapter, and a failing model leaves none, so that a resume, which counts entries, may
skip a chapter or do one twice.  A checkpoint outlives the removal of the project it is about.
A run that passed removes its checkpoint, and the next `--resume` starts with the first chapter
and has every apply refused.  "All chapters already completed!" counts failed entries too.

### Governance

| Code | Action |
|---|---|
| a draft is written; `apply()` with and without a commit store | `Draft`, `Apply`, `WorkbenchApply` |
| `ChapterCommitStore.append` | `AppendCommit`, `AppendTorn`, `AppendFails` |
| `load_all` | the operator `load_all` |
| `register`, `unregister`, `enable`, `disable`; `set_active`, `set_shadow` | `register`, `unregister`, `SetEnabled`, `SetMode` |
| `dispatch` | `Skip`, `ProjectOther`, `ProjectionFails`, `EndDispatch` |
| `GovernanceProjection`: audit, report, hard pause; each rewritten in place, perhaps not to the end | `audit`, `WritePause`, `PauseFails`; `TearReport`, `TearPause` |
| `clear_hard_pause`; `check_hard_pause` | `clear_hard_pause`, at any time; the operator `check_hard_pause` |
| a process that ends | `Crash` |

State: the log is a sequence of lines; a torn append leaves one without an end, in which the
next append goes on, and two events in one line are no JSON.  A commit is its number, arc
and chapter; the chapter is the last of the manuscript, whichever was applied.  `blocked` is a
history variable.

`write_text` empties a file before it fills it, so that a rewrite that fails or dies destroys
what an earlier commit of the chapter left there: its report (`TearReport`, in
`ProjectionFails` and `Crash`) or a pause nobody has overridden (`TearPause`, in `PauseFails` and
`Crash`).  `tornPauses` are those files; `check_hard_pause` passes over what it cannot parse, so
a chapter that was blocked may be found unblocked, and `clear_hard_pause` renames such a file like
any other.  A failing rewrite is at least said: the record of the dispatch is `failed`.  A death
says nothing, but takes the earlier records with it, as they are kept in memory.  So
`SuccessIsOnDisk` holds of a record of success until a record of failure for its chapter follows
it, and of a blocked chapter unless it was overridden or its pause torn.  A death inside an append
is `AppendTorn` and then `Crash`.

What an audit can find is less than it seems, and the model says so: `check_chapter` is
called with the draft in the place of the character, raises, and is swallowed, so that an
issue is only found where the arc has baselines, its draft is missing and another
arc has one of that name (`Blocks`).  `ProjectOther` always succeeds, because the built-in projections are
stubs.  There is one report per chapter, whatever the arc.

### SearchIndex

| Code | Action |
|---|---|
| `build(force)`: the file is unlinked; `connect`, `CREATE` | `Begin`, `Open` |
| a document is indexed | `Insert`, `PassOver`, `InsertFails` (unreadable, or the database is locked) |
| the commit; a builder that dies | `Commit`, `Die` |
| canon, ledgers and summaries change | `ChangeSource` |
| `HybridRetriever.retrieve` | `retrieve`, with `Merged`, `RRF`, `Rankings` and `Trim` |

State: files are numbered, since a builder goes on with a file that another has unlinked;
`rows` holds them.  A document is an item in a version.  Inserts are plain (the `Upsert` of the
comment does not happen), so a build without force leaves a document twice.  SQLite is external:
its write lock and its roll back are modelled from how the retriever uses them.  Which
rows match is any choice; what the retriever does with them is exact: its loops are recursive
functions of the number of steps (`FromText`, `Merged`, `Trim`), and `list.sort` is known by what
it returns (`Rankings`: the arrangement that sorts and is stable).  `_compute_rrf` ranks by full
text only the results with `bm25_score > 0`, and the scores of FTS5 are never positive: what only
the full-text search found keeps the order of that search and comes after what the vectors
found.  A forced builder that dies leaves an empty index, which is why
the property is about builds that ended.

### Generations

| Code | Action |
|---|---|
| `write_json_artifact` and its registration | `WriteArtifact`, `WriteUnregistered` |
| `stage_write`, `mark_stale`, `promote_to_stable`, `rollback_to_previous` | actions of these names |
| a manifest that cannot be read is taken for an empty one | the second disjunct of `Use` and the third of `LoadOnce` |
| `resolve_snapshot` | the operators `Resolved`, `Blocked` |
| `RetrievalContextBuilder.build` | `Items`, `Select` |
| `ContextProvider.build_context` in each mode | `BuildLegacy`, `BuildActive`, `write_trace`, `TraceFails` |
| the loop of `start_novel_production` | `StartRun`, `CallWriter`, `Compress`, `CompressFails`, `NextChapter`, `EndOfRun` |

State: an artifact is its path; a manifest is a sequence of entries, because the first
entry that is not stale is rolled back and the last one is resolved.  `copy` is the manifest
as the run read it first: a run reads it once, so a roll back during a run reaches the
next run.  `stage_write` registers an entry that is not stale and writes no file, so a staged
index hides the one that exists and the contexts do without.  `arc_active` builds the
context of `legacy` and a trace.  Each use of the manifest by a tool is one step: writers
that interleave are the business of `Rebuild`.

## 3. Runs

Passing:

| Run | Instance | Shows |
|---|---|---|
| `AtomicApplyOrderly` | orderly use, 3 diffs of 2 arcs sharing a ledger and a chapter, two with the same event id and one with none; 2 managers, 3 calls, one torn save of the consumed hashes | `TypeOK`, `AppliedPersists`, `FailedLeavesNoTrace`, `NoDuplicateEvents`, `AppliedIsConsumed` and `Implements` (refinement of `AtomicStore`) |
| `AtomicApplyWild` | 2 callers at once, 2 arcs, an invalid diff, one fault | `LockMatchesCritical`, `OnlyWellFormedEntries`, and `CallsReturn` under fairness |
| `OutboxTimely` | 2 jobs, 2 workers with the default `worker_id`, a crash | `OneHolder`, `Implements` (refinement of `TaskQueue`) |
| `OutboxLeases` | 1 job, 2 workers, a crash, a heartbeat and a requeue | `TypeOK`, `DeadIsExhausted`, `CompletedIsFinal`, and `JobsSettle` under fairness |
| `OutboxEnqueue` | 2 producers with two requests of one key, one of a type nobody handles; 2 workers, a crash, a heartbeat, a requeue; no assumption on leases | `EnqueueIdempotent`, `RunningIsRecoverable` |
| `Rebuild` | 2 processes, an active rebuild of a chapter or a lenient one of the arc, 2 rebuilds, one fault (a failing operation, an unreadable manifest, a death or a failing unlink) | `TypeOK`, `OneRebuild`, `NoLockLeftBehind`, `IndexRegisteredAfterWritten`, `SuccessIsComplete`, `RegistrationsKept` |
| `NovelFlow` | 2 runs over 2 chapters, seven kinds of call (all modes, whole arc, resumed, no chapter at all, dry, each gate), eight kinds of proposal, one fault | `TypeOK`, `WorkingStateAgrees`, `ProgressIsTrue`, `PromotedIsReviewed`, `ActiveIsSummarised`, `FactsFitManuscript`, `FactsAreGated`, and `RunsEnd` under fairness |
| `StressRunner` | 3 runs of 4 chapters, by hand or from the runner; 2 tries of a call, 2 suites, 3 faults | `PassedIsEarned`, `CrashLosesNothing`, and `RunsEnd` under fairness |
| `Governance` | 2 arcs, one with baselines, one chapter; 2 projections, 3 applies, 3 changes of registry or mode, 2 faults (failed or torn appends, reports and pauses, handlers that raise, deaths) | `TearsLoseAtMostTwo`, `SuccessIsOnDisk` |
| `SearchIndex` | 2 builders, 3 builds of 3 documents of which two share a file, one change, one fault; every list of hits, 2 budgets | `UndisturbedBuildIsRight`, `SelectionIsBest` |
| `Generations` | 2 runs over 2 chapters in all modes, 3 uses of the manifest, one fault | `ActiveChaptersAreTraced`, `OneStableGeneration` |

Violated, as the finding in `PROJECT.json` explains:

| Run | Property | What happens |
|---|---|---|
| `AtomicApplyTwoArcs` | `AppliedPersists` | locks are per arc, the ledgers are not: the rollback of one arc's call takes back what another arc's call committed |

`NoDuplicateEvents` is about timelines that have an `events` list to begin with: in one that
`apply()` itself created (a `timeline_entries` list), the look for duplicates finds nothing.

That a death inside `apply()` leaves half a diff is modelled (`Crash`) and not a run of its
own: `FailedLeavesNoTrace` is stated, and holds, for processes that survive the call.

**Bounds.** Three calls are the fewest in which a diff fails, another commits and the first
is tried again, which is where stale snapshots would show; two arcs on one ledger are where
locks differ and data does not; a diff with two ledgers, a chapter and a card has a partial
state after each kind of write; of the diffs whose hash a torn save loses, one has an event id and
is refused, and one has none and is applied again, which takes the three calls too.  Two workers and a lease of one tick are enough for a lease
to end while its holder is anywhere; `max_attempts` of 1 and 2 give jobs that die at once and
jobs that retry; two producers and two free rows are enough for the dedup race.  Two
rebuilds by two processes overlap, follow and overtake one another at every operation, and
one fault may come anywhere.  Two runs of the flow are
enough for a chapter to be drafted again, for a run to be resumed, and for one run's
documents to be promoted, or not, by the next; two chapters for a proposal that cites
another chapter, an event id that comes twice, and a working state torn in between.  Three runs of the
stress test are a run, its resume and what comes after, and three faults combine a lost
commit, a failed save and a death; four chapters are enough for an entry too many or too
few to matter.  Three applies are a torn append with a neighbour before and after it; two
arcs with one chapter are the fewest in which an audit blocks; three changes register two
projections and disable one, or put governance in active mode.  Two builders and three builds
leave an index that was built, built again and unlinked under a builder; of three documents
two are skipped together.  Three uses of the manifest stage, promote and roll back one index
between the two runs and within each.  The theorems
below drop the bounds on sets and values.

**Fairness.** `FairSpec` of `AtomicApply`: a thread inside `apply()` keeps running (weak
fairness of its next step); file operations end, and the lock has a timeout.  Nobody is obliged to
call.  `FairSpec` of `Outbox`: each worker's loop runs (`run_loop` polls forever), an insert
under way ends (SQLite's busy timeout), and time passes; crashes, heartbeats and requeues are
never obliged to happen, and a crashed worker's loop starts again.  `FairSpec` of `NovelFlow`: a
run goes on (the calls of agents have a timeout, writes end); nobody is obliged to start one.  `FairSpec` of `StressRunner`: a process that has
begun goes on; model calls have a timeout and a bounded number of tries.

**Deadlock** is not an error in these models: callers and producers may stop calling, and
then nothing moves (`CHECK_DEADLOCK FALSE`).  That nothing is stuck half-way is the liveness
properties' business.

**Symmetry** is used for rows, producers and workers in `OutboxTimely` and `OutboxEnqueue`, for
callers in `Rebuild` and for builders in `SearchIndex`, whose properties are safety properties symmetric in them, and nowhere under fairness.

## 4. Theorems

All hold for every value of the constants that satisfies the named assumptions
(`DiffAssumption`, `OpAssumption`, ... of each module: types, and null values being different
from the rest).

* `AtomicApplyProofs`: `TypeCorrect`, `LedgersStayWellFormed`, `LockIsExact`, of `Spec`, hence
  under every interleaving, failure and crash.  The first two are proved together: that an
  appended entry is well formed needs that the call was vetted (`Vetted`), that what it has
  left to write is its own (`Working`), and that what it read back was well formed -- and that
  the target of an operation is a ledger, which the type of `file` needs, follows from its being
  well formed.
  Of `OrderlySpec`: `OrderlyUseIsAtomic` (it implements `AtomicStore`), `OrderlyAllOrNothing`,
  `FailuresLeaveNoTrace`, `AppliedIsRemembered` and `EventsStayDistinct`.  The invariant is `OrderlyInv`: between
  calls the store is made of the applied diffs and nothing else (`MadeOfApplied`); inside a
  call the snapshot is the store the call found (`SnapshotIsExact`, which needs that no copy
  of an earlier attempt outlives its ledger: `NoStaleCopy`), the store is the snapshot plus
  the part of the diff already written (`Progress`), and the buffer is what the file holds
  (`BufferIsFresh`).  Every step but `SaveConsumed` leaves what readers may rely on
  unchanged; `SaveConsumed` is the `Commit` of `AtomicStore`, a torn `SaveConsumedFails` its
  `Forget`; the two restore steps bring the store back to the snapshot.  None of them supposes
  that the consumed hashes survive.  A call that got past prevalidation holds a diff that is new or
  cannot be recognised (`Admissible`), because its hash is known unless it was forgotten, and a
  forgotten diff with an event of its own is seen in the timeline; so the operations of a diff are
  in the store equally often, and once if it can be recognised (`CountsByDiff`).  That the timeline
  shows it needs `TimelineKeepsShape`, part of the invariant `Inv` of `Spec`: a timeline that had an
  `events` list keeps it through every write and restore.  `EventsStayDistinct` adds
  `AdmittedApart`: the events of a diff that got past prevalidation are apart from those of
  every applied diff until it is one of them.
  `CallsEnd`, of `Spec`: `StepsLeft` of a call, at most eight and two for each thing its diff
  writes, falls with each step of the call, failing and restoring included, and nothing
  that others do raises it (`FiniteAssumption`: a diff has finitely many drafts and
  operations).
* `OutboxProofs`: `TypeCorrect`, `NeverStuckRunning` and `EnqueueAgrees` of `Spec`;
  `LeasesExclude`, `DeadAreExhausted`, `CompletedStays` and `OutboxIsTaskQueue` (it implements `TaskQueue`) of
  `TimelySpec`.  The invariant relates each holder's `until` to the row: a held row is
  running with a lease that does not end before `until`, and since no clock reading exceeds
  `until` while it is held, no `Recover` takes it.
  `RetriesAreBounded`, of `TimelySpec`: a job is tried no more often than it asked for, and
  once more for each worker that died.  The invariant `TriesLeft` has the try that a claim
  will use up: a job that is queued, or runs without a holder, is one below the bound,
  because what ended its last try was either a failure below `max_attempts` or a death.

* `RebuildProofs`, of `Spec`: `TypeCorrect`; `OneRebuildHolds` (`LockInv`: until somebody is
  overtaken, one caller at most is past the look at the lock, and a rebuild's lock is valid
  all the time); `NoLockLeft` (`HeldInv`: a valid or expired lock file belongs to a call that
  is not over); `IndexIsWritten` (`IndexInv`: no copy of the manifest names an unwritten
  index, and a rebuild past the first operation of the lifecycle adapter has written it);
  `RegistrationsAreKept` (`KeepInv`, which needs `LockInv`: what a calm rebuild is about to
  save covers the manifest on disk).  `SuccessesAreComplete` (`CompleteInv`, for a calm
  rebuild: alone, with a new orchestrator, every load having succeeded): what the adapters behind a
  rebuild have registered is in the manifest on disk, what its present adapter has loaded is in
  its copy until that is saved, and from the lifecycle adapter on the recorded hash, in the
  copy and on disk, is that of the index as it is (`BehindIsSaved`, `HashIsRight`).  A
  rebuild with a failed adapter, of which none of this can be said, does not report success.
  The adapters enter only through `ScriptShape` (a save comes right after a load and never
  otherwise, and the index is registered by the lifecycle adapter after its first
  operation) and, for the last theorem, `ScriptSavesAll` (what is loaded is saved at once; the
  lifecycle adapter works as modelled, and no other names the index).  An adapter changed
  within that shape keeps the theorems.

* `NovelFlowProofs`, of `Spec`: `TypeCorrect`, and each safety property of the run, from the
  invariant `FlowInv`.  `WorkingStateIsRight` and `LogIsTrue` rest on `RunInv` (an accepted
  proposal is of a finished chapter, or of the present one with the flag up).
  `DiffsAreWellFormed` rests on `Vetted`: what validator and generator have passed.
  `ReviewedFirst`, `ActiveRunsSummarise`, `FactsHaveChapters` and `HardRuleHolds` rest on
  `Bounded` (no document is newer than the present run) and `Fresh` (those of the chapters
  the run has been through are its own), so that a promoted draft is never older than what
  was promoted before; `GatesDecide` on `Placed` (a run under way was called as `Start`
  demands).  `RunsAreFinite`: `StepsLeft`, six for each chapter that may still come, what is
  left of the present one, and three for the end of the arc, falls with every step of a
  run, and no other run begins before it is over.

* `StressRunnerProofs`, of `Spec`: `TypeCorrect`; `CrashesLoseNothing`, from `CrashInv` (while
  processes only crash, the timeline is the first k chapters for some k, the checkpoint speaks
  of no more than these, and the run has as many entries as chapters behind it);
  `PassesAreEarned`, from `EarnInv` (unless a removal was torn, the log has no more lines
  than the timeline has chapters, and nobody has touched the project since a verdict of
  passed).  `RunsAreFinite`: `StepsLeft`, a turn of `Attempts + 2` for each chapter, falls with
  every step, from `SuitesFirst` (phase 3 has no child while it runs the suites).

* `GovernanceProofs`, of `Spec`: `TypeCorrect` and `SuccessesAreOnDisk`, from `Dated` (what is
  reported or noted is of no future commit, and each record of success that no failure follows
  is borne out) and `Kept` (what was blocked is paused, overridden or torn).  A report
  gives way to a later one, which bears out the earlier records too (`StaysBorne`), or is torn: then
  the step notes the failure of the present commit, the latest there is, and disowns every
  earlier success of the chapter (`NoteBorne`), or is a death and no record is left.  `TearsAreBounded`, from `InOrder` (the commits that can be read are in the order of
  their applies, and none is the one under way) and `Accounted`: applies and what the last line
  still exposes are covered by the commits that can be read, two for each tear, one for each lost
  append and the commit on its way.  A line without its end exposes the commit it holds, if it
  holds one, and whatever is appended to it next; counting it before it is lost is what makes
  the bound of two per tear inductive.

* `GenerationsProofs`, of `Spec`: `ActiveRunsAreTraced`, from `TraceInv` (the roles before the
  present one have left their traces; when the writer is called, all have).  That tools
  cannot disturb it is `ToolsLeaveRuns`.  `RunsReadOneGeneration`, from `GenerationInv`: in every
  manifest the tools can make a path has one entry (`Distinct`), so what a run resolves in its
  copy is stale in no other entry of it; a run that has built a context has a copy that
  was not blocked, and every index its contexts name is the one that copy resolves (`FromCopy`).

* `SearchIndexProofs`, of `Spec`: `BuildsAreRight`, from `BuildInv`: a build that is alone writes into
  the file the path stands for, has passed over nothing that is there, and is about to commit one
  row, in its present version, for each document behind it (`AloneInv`); after it, until
  somebody begins or a source changes, the index has them all, and nothing else where the
  build was forced (`SettledInv`).  Nothing is supposed of the other builders: an
  overlap, a change or a failed insert ends being alone.
  `SelectionsAreBest`, from `ReplyInv` (a reply is what `retrieve` makes of some hits) and what the
  three loops compute: after each hit the merged list has each item once, in the order in which the
  hits name it (`Collected`); after each item of the ranking what is kept is a part of it in its
  order, within the limits, and everything else was passed over for a reason (`Trimmed`, whose
  witness is where in the ranking the kept ones are).  A stable sort leaves what has no score in
  the order of the merge (`RankingKeepsOrder`).  The loops need induction over the number of steps,
  which the library has only with an operator for a parameter: here a set of numbers has a
  least one (`LeastNumber`, from the library's `WFMin`), so what holds at 0 and from each number to
  the next holds up to the last (`Countup`); from this come both that a function with the
  loop's equation exists (`LoopExists`) and what holds of its values.

`HardRuleHolds`, `DiffsAreWellFormed`, `RetriesAreBounded`, `CallsEnd` and both `RunsAreFinite` are
about properties no run here checks: the theorems are stronger than a run.

Each inductive invariant, and each of these properties, was checked on the instances above
before it was proved, but for `ReplyInv`, which quantifies over all sequences: of that its
consequence `SelectionIsBest` was.

Model-checked only: what needs fairness (`CallsReturn`, `JobsSettle`, and `RunsEnd` of both
modules), which the prover does not reach.  What the code contributes to it is proved:
`CallsEnd` and the two `RunsAreFinite` say that a call or a run cannot go on for ever,
`RetriesAreBounded` that a job cannot be retried for ever while workers stop dying.  What
remains for TLC is that there is always a next step, and that fairness makes it happen.

## 5. Not modelled

* **Code nobody calls.** The pause detector, the drift streak, the batch stop and the review
  convergence (`pause/`, `drift_streak_tracker.py`, `batch_stop.py`, `review_convergent.py`), the
  rebuild DAG and the retrieval validators are used by tests only.  `check_hard_pause` has no
  caller either: `SuccessIsOnDisk` says that it would find the pause, and no property says that
  a pause stops anything.
* **Replay of projections** (`projection_registry.py:150`): it dispatches only if the
  chapter has no events, which cannot be when its commit was found.  A failed
  projection stays failed; `ProjectionFails` is final in the model.
* **Pure functions of a file**: the derivation of the foreshadow lifecycle and its replay
  contract (the compressor writes every summary with an empty list of updates, so the
  states come from the ledger alone), the field checks of the schema validator, and what the analyses compute
  from text.  The models have what they write and when, and the transition table.
* **Graph expansion** of the retriever: off by default, finds nothing without a graph index, and
  raises with the list that `NarrativeGraphBuilder` writes.
* **The generation cache**, which a run never hits (no key comes twice), and
  the writer's skipping of artifacts that have not changed.
* **Path safety**: a lookup without state; a refusal is a write that fails.
* **For good**: the text of chapters, prompts and agents (`crewai/agents.py`, `tools.py`),
  similarity scores, HTTP and MCP plumbing, metrics, project set-up, and the other scripts and
  tools of the repository (`src/tools/proof_package/src` holds copies of modules that are
  modelled from their originals).
