----------------------------- MODULE Generations -----------------------------
(****************************************************************************)
(* Which derived artifacts the agents of a run get to see.  Tools register, *)
(* stage, promote and roll back artifacts in workspace/phase2/manifest.json *)
(* (ManifestManager, ArtifactWriter, StableGenerationPointer) while         *)
(* start_novel_production writes chapters with the contexts that its        *)
(* ContextProvider builds.                                                  *)
(*                                                                          *)
(* A path is a pair: of graph and lifecycle index <<type, Fixed>> is the    *)
(* well-known one and <<type, Staged>> that of a staged artifact; the       *)
(* summary of chapter c is <<Summary, c>>.  Each use of the manifest by a   *)
(* tool is one step here, since the module Rebuild is about writers that    *)
(* interleave.  The provider's cache is left out: in a run no key comes     *)
(* twice.  Of an item of a context its length is kept.                      *)
(****************************************************************************)
EXTENDS Naturals, Sequences, FiniteSets

CONSTANTS
  NumChapters,
  Length,       \* characters of a context item, by its kind
  Budget,       \* _ROLE_BUDGETS
  NoManifest,
  MaxOps,       \* bound: uses of the manifest by tools
  MaxRuns,      \* bound
  MaxFaults     \* bound: manifests that cannot be read, writes that fail, deaths

Summary == "narrative_summary"
Graph == "narrative_graph_index"
Lifecycle == "foreshadow_lifecycle_index"
Fixed == 0
Staged == NumChapters + 1

Chapters == 1 .. NumChapters
Indexes == {Graph, Lifecycle}
Written == (Indexes \X {Fixed}) \cup ({Summary} \X Chapters)
Path == Written \cup (Indexes \X {Staged})
NoPath == <<"none", 0>>

Roles == <<"writer", "auditor", "extractor">>
Role == {"writer", "auditor", "extractor"}
Kind == {"outline", "contract", "summary", "graph", "lifecycle"}
Mode == {"legacy", "retrieval_shadow", "retrieval_active", "arc_active"}

ASSUME BoundsAssumption ==
  /\ NumChapters \in Nat \ {0} /\ MaxOps \in Nat /\ MaxRuns \in Nat /\ MaxFaults \in Nat
  /\ Length \in [Kind -> Nat] /\ Budget \in [Role -> Nat]

Entry == [path : Path, stale : BOOLEAN]
ASSUME ManifestAssumption == NoManifest \notin Seq(Entry)

VARIABLES
  exists,    \* artifacts on disk
  manifest,  \* entries of the manifest on disk
  copy,      \* the manifest of the provider's pointer, as first read
  mode,      \* NOVEL_WORKFLOW_CONTEXT_MODE of the run
  pc, ch, role,
  contexts,  \* what the run has built so far
  traces,    \* <<chapter, role>>: trace lines of this run
  drafted,   \* chapters whose writer this run has called
  ops, runs, faults

files == <<exists, manifest>>
run == <<copy, mode, ch, role, contexts, traces, drafted>>
vars == <<exists, manifest, copy, mode, pc, ch, role, contexts, traces, drafted,
          ops, runs, faults>>

Init ==
  /\ exists = {} /\ manifest = <<>>
  /\ copy = NoManifest /\ mode = "legacy"
  /\ pc = "idle" /\ ch = 1 /\ role = 1
  /\ contexts = {} /\ traces = {} /\ drafted = {}
  /\ ops = 0 /\ runs = 0 /\ faults = 0

Fault == faults < MaxFaults /\ faults' = faults + 1

-----------------------------------------------------------------------------
(* The manifest and its tools.                                             *)

\* A tool's manager loads the manifest, changes it and saves it; one that cannot be read is
\* taken for empty.
Use(changed, startedEmpty) ==
  /\ ops < MaxOps /\ ops' = ops + 1
  /\ \/ manifest' = changed /\ UNCHANGED faults
     \/ manifest' = startedEmpty /\ manifest # <<>> /\ Fault
  /\ UNCHANGED <<run, pc, runs>>

\* register_artifact: an entry of the same path is replaced where it is.
Registered(m, p) ==
  IF \E j \in 1 .. Len(m) : m[j].path = p
  THEN [j \in 1 .. Len(m) |-> IF m[j].path = p THEN [path |-> p, stale |-> FALSE] ELSE m[j]]
  ELSE Append(m, [path |-> p, stale |-> FALSE])

\* write_json_artifact: the file first, then the entry.
WriteArtifact(p) ==
  /\ exists' = exists \cup {p}
  /\ Use(Registered(manifest, p), Registered(<<>>, p))

\* The file is there, but its registration failed or the process died.
WriteUnregistered(p) ==
  /\ p \notin exists /\ Fault
  /\ exists' = exists \cup {p}
  /\ UNCHANGED <<manifest, run, pc, ops, runs>>

\* stage_write: registered as not stale, and no file is written.
stage_write(t) ==
  /\ Use(Registered(manifest, <<t, Staged>>), Registered(<<>>, <<t, Staged>>))
  /\ UNCHANGED exists

WithStale(m, p, stale) ==
  [j \in 1 .. Len(m) |-> IF m[j].path = p THEN [path |-> p, stale |-> stale] ELSE m[j]]

mark_stale(p) ==
  /\ Use(WithStale(manifest, p, TRUE), WithStale(<<>>, p, TRUE))
  /\ UNCHANGED exists

\* promote_to_stable; promote_staged changes nothing.
promote_to_stable(p) ==
  /\ Use(WithStale(manifest, p, FALSE), WithStale(<<>>, p, FALSE))
  /\ UNCHANGED exists

StableAt(m, t) == {j \in 1 .. Len(m) : m[j].path[1] = t /\ ~m[j].stale}

\* rollback_to_previous: the first entry of the type that is not stale.
RolledBack(m, t) ==
  IF StableAt(m, t) = {} THEN m
  ELSE LET first == CHOOSE j \in StableAt(m, t) : \A k \in StableAt(m, t) : j <= k
       IN  [m EXCEPT ![first].stale = TRUE]

rollback_to_previous(t) ==
  /\ Use(RolledBack(manifest, t), RolledBack(<<>>, t))
  /\ UNCHANGED exists

-----------------------------------------------------------------------------
(* StableGenerationPointer.resolve_snapshot.                               *)

\* The last entry of the type that is not stale.
Resolved(m, t) ==
  IF StableAt(m, t) = {} THEN NoPath
  ELSE LET last == CHOOSE j \in StableAt(m, t) : \A k \in StableAt(m, t) : k <= j
       IN  m[last].path

\* Mutant: summaries are the only required type.
RequiresSummaries(m) ==
  (\E j \in 1 .. Len(m) : m[j].path[1] = Summary) /\ StableAt(m, Summary) = {}

\* A required type has entries, and all of them are stale.
Blocked(m) ==
  \E t \in {Summary, Lifecycle} :
    (\E j \in 1 .. Len(m) : m[j].path[1] = t) /\ StableAt(m, t) = {}

-----------------------------------------------------------------------------
(* RetrievalContextBuilder.build.                                          *)

\* A stable path if there is one, and the fixed one if not.
IndexPath(m, t) == IF Resolved(m, t) # NoPath THEN Resolved(m, t) ELSE <<t, Fixed>>

Item(kind, path) == [kind |-> kind, path |-> path]

\* What _collect_items looks for, in the order of retrieval_sort_key: canon, summaries by
\* path, graph, lifecycle.
Items(m) ==
  <<Item("outline", NoPath), Item("contract", NoPath)>>
  \o [d \in Chapters |-> Item("summary", <<Summary, d>>)]
  \o <<Item("graph", IndexPath(m, Graph)), Item("lifecycle", IndexPath(m, Lifecycle))>>

\* It finds what is on disk, and the summary of the chapter itself is left out.
Found(item, c) == item.path \in (exists \cup {NoPath}) \ {<<Summary, c>>}

\* _select_and_budget: what does not fit is dropped, and what comes after it may fit.
Select(items, c, budget) ==
  LET fits(item, used) == Found(item, c) /\ used + Length[item.kind] <= budget
      used[j \in 0 .. Len(items)] ==
        IF j = 0 THEN 0
        ELSE used[j - 1] + IF fits(items[j], used[j - 1]) THEN Length[items[j].kind] ELSE 0
  IN  {items[j] : j \in {k \in 1 .. Len(items) : fits(items[k], used[k - 1])}}

-----------------------------------------------------------------------------
(* start_novel_production with its ContextProvider.                        *)

Active == mode \in {"retrieval_active", "arc_active"}

\* A run begins at any chapter, with a new provider.
StartRun(m, c) ==
  /\ pc = "idle" /\ runs < MaxRuns /\ runs' = runs + 1
  /\ pc' = "build" /\ mode' = m /\ ch' = c /\ role' = 1
  /\ copy' = NoManifest /\ contexts' = {} /\ traces' = {} /\ drafted' = {}
  /\ UNCHANGED <<files, ops, faults>>

NextRole == IF role < Len(Roles) THEN pc' = "build" /\ role' = role + 1
                                 ELSE pc' = "draft" /\ role' = 1

\* legacy: a context, and no trace.  Shadow, and arc_active as well: the same context and
\* a trace.
BuildLegacy ==
  /\ pc = "build" /\ mode # "retrieval_active"
  /\ IF mode = "legacy" THEN NextRole ELSE pc' = "trace" /\ UNCHANGED role
  /\ UNCHANGED <<files, copy, mode, ch, contexts, traces, drafted, ops, runs, faults>>

\* The manifest is read once; one that cannot be read is an empty one.
LoadOnce ==
  \/ copy # NoManifest /\ UNCHANGED <<copy, faults>>
  \/ copy = NoManifest /\ copy' = manifest /\ UNCHANGED faults
  \/ copy = NoManifest /\ copy' = <<>> /\ Fault

BuildActive ==
  /\ pc = "build" /\ mode = "retrieval_active"
  /\ LoadOnce
  /\ IF Blocked(copy')
     THEN pc' = "idle" /\ UNCHANGED contexts
     ELSE /\ pc' = "trace"
          /\ contexts' = contexts \cup
               {[chapter |-> ch, role |-> Roles[role],
                 items |-> Select(Items(copy'), ch, Budget[Roles[role]])]}
  /\ UNCHANGED <<files, mode, ch, role, traces, drafted, ops, runs>>

write_trace ==
  /\ pc = "trace"
  /\ traces' = traces \cup {<<ch, Roles[role]>>}
  /\ NextRole
  /\ UNCHANGED <<files, copy, mode, ch, contexts, drafted, ops, runs, faults>>

\* Mutant: a warning in every mode.
TraceOnlyWarns ==
  /\ pc = "trace" /\ Fault
  /\ NextRole
  /\ UNCHANGED <<files, copy, mode, ch, contexts, traces, drafted, ops, runs>>

\* A warning, and in an active mode the end of the run.
TraceFails ==
  /\ pc = "trace" /\ Fault
  /\ IF Active THEN pc' = "idle" /\ UNCHANGED role ELSE NextRole
  /\ UNCHANGED <<files, copy, mode, ch, contexts, traces, drafted, ops, runs>>

CallWriter ==
  /\ pc = "draft"
  /\ drafted' = drafted \cup {ch}
  /\ pc' = IF mode = "legacy" THEN "next" ELSE "compress"
  /\ UNCHANGED <<files, copy, mode, ch, role, contexts, traces, ops, runs, faults>>

\* NarrativeCompressor writes the summary; nothing registers it.
Compress ==
  /\ pc = "compress"
  /\ exists' = exists \cup {<<Summary, ch>>}
  /\ pc' = "next"
  /\ UNCHANGED <<manifest, run, ops, runs, faults>>

CompressFails ==
  /\ pc = "compress" /\ Fault
  /\ pc' = IF Active THEN "idle" ELSE "next"
  /\ UNCHANGED <<files, run, ops, runs>>

NextChapter ==
  /\ pc = "next"
  /\ IF ch < NumChapters THEN pc' = "build" /\ ch' = ch + 1 ELSE pc' = "idle" /\ UNCHANGED ch
  /\ UNCHANGED <<files, copy, mode, role, contexts, traces, drafted, ops, runs, faults>>

\* The process dies, or an agent raises.
EndOfRun ==
  /\ pc # "idle" /\ Fault
  /\ pc' = "idle"
  /\ UNCHANGED <<files, run, ops, runs>>

-----------------------------------------------------------------------------
Tools ==
  \/ \E p \in Written : WriteArtifact(p) \/ WriteUnregistered(p)
  \/ \E t \in Indexes : stage_write(t)
  \/ \E t \in Indexes \cup {Summary} : rollback_to_previous(t)
  \/ \E p \in Path : mark_stale(p) \/ promote_to_stable(p)

Run ==
  \/ \E m \in Mode, c \in Chapters : StartRun(m, c)
  \/ BuildLegacy \/ BuildActive \/ write_trace \/ TraceFails
  \/ CallWriter \/ Compress \/ CompressFails \/ NextChapter \/ EndOfRun

Next == Tools \/ Run

Spec == Init /\ [][Next]_vars

-----------------------------------------------------------------------------
Context == [chapter : Chapters, role : Role,
            items : SUBSET [kind : Kind, path : Path \cup {NoPath}]]

\* Every variable has its type.
TypeOK ==
  /\ exists \subseteq Written /\ manifest \in Seq(Entry)
  /\ copy \in Seq(Entry) \cup {NoManifest}
  /\ mode \in Mode
  /\ pc \in {"idle", "build", "trace", "draft", "compress", "next"}
  /\ ch \in Chapters /\ role \in 1 .. Len(Roles)
  /\ contexts \subseteq Context /\ traces \subseteq Chapters \X Role
  /\ drafted \subseteq Chapters
  /\ ops \in Nat /\ runs \in Nat /\ faults \in Nat

\* In an active mode no writer is called before all three contexts of the chapter have
\* left their trace on disk, however writes fail and runs end and begin again
\* (context_provider.py:171-186, flow.py:394-408).
ActiveChaptersAreTraced ==
  Active => drafted \X Role \subseteq traces

Reads(kind) ==
  {p \in Path : \E c \in contexts : \E item \in c.items : item.kind = kind /\ item.path = p}

\* While tools register, stage, promote and roll back, the agents of one active run all
\* read the same graph and the same lifecycle index, and the latter is none that was
\* stale in the manifest as the run has read it (stable_generation_pointer.py:4).
OneStableGeneration ==
  /\ Cardinality(Reads("graph")) <= 1 /\ Cardinality(Reads("lifecycle")) <= 1
  /\ copy # NoManifest =>
       \A j \in 1 .. Len(copy) : copy[j].stale => copy[j].path \notin Reads("lifecycle")
=============================================================================
