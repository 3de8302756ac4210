-------------------------- MODULE GenerationsProofs --------------------------
(*****************************************************************************)
(* Theorems about Generations, for any number of chapters, lengths, budgets, *)
(* tools, runs and faults.                                                   *)
(*                                                                           *)
(* Traces come before drafts.  The invariant counts roles: while a chapter   *)
(* is being prepared, every role before the present one has left its         *)
(* trace; when the writer is called, all of them have.  Tools change         *)
(* files only, so they cannot disturb it.                                    *)
(*****************************************************************************)
EXTENDS Generations, FiniteSetTheorems, SequenceTheorems, TLAPS

Traced(r) == <<ch, Roles[r]>> \in traces

RolesSoFar ==
  /\ pc \in {"build", "trace"} => \A r \in 1 .. 3 : r < role => Traced(r)
  /\ pc = "draft" => \A r \in 1 .. 3 : Traced(r)

TraceInv ==
  /\ role \in 1 .. 3
  /\ pc \in {"draft", "compress", "next"} => role = 1
  /\ Active => RolesSoFar /\ ActiveChaptersAreTraced

runVars == <<mode, pc, ch, role, traces, drafted>>

LEMMA ToolsLeaveRuns == Tools => UNCHANGED runVars
<1> USE DEF runVars, run
<1>1. ASSUME NEW p, WriteArtifact(p) PROVE UNCHANGED runVars
  BY <1>1 DEF WriteArtifact, Use
<1>2. ASSUME NEW p, WriteUnregistered(p) PROVE UNCHANGED runVars
  BY <1>2 DEF WriteUnregistered
<1>3. ASSUME NEW t, stage_write(t) PROVE UNCHANGED runVars
  BY <1>3 DEF stage_write, Use
<1>4. ASSUME NEW t, rollback_to_previous(t) PROVE UNCHANGED runVars
  BY <1>4 DEF rollback_to_previous, Use
<1>5. ASSUME NEW p, mark_stale(p) PROVE UNCHANGED runVars
  BY <1>5 DEF mark_stale, Use
<1>6. ASSUME NEW p, promote_to_stable(p) PROVE UNCHANGED runVars
  BY <1>6 DEF promote_to_stable, Use
<1>7. QED
  BY <1>1, <1>2, <1>3, <1>4, <1>5, <1>6 DEF Tools

LEMMA RolesAreThree ==
  /\ Len(Roles) = 3
  /\ Roles[1] = "writer" /\ Roles[2] = "auditor" /\ Roles[3] = "extractor"
  /\ Role = {Roles[1], Roles[2], Roles[3]}
BY DEF Roles, Role

LEMMA InitTraced == Init => TraceInv
BY DEF Init, TraceInv, Active

LEMMA StillTraced == TraceInv /\ UNCHANGED runVars => TraceInv'
BY DEF TraceInv, runVars, Active, RolesSoFar, Traced, ActiveChaptersAreTraced

\* After the trace of the present role, or without one if nobody asks for it.
LEMMA RoleDone ==
  ASSUME TraceInv, pc \in {"build", "trace"}, NextRole,
         UNCHANGED <<mode, ch, drafted>>,
         traces \subseteq traces',
         Active => <<ch, Roles[role]>> \in traces'
  PROVE  TraceInv'
<1>1. CASE role < 3
  <2>1. pc' = "build" /\ role' = role + 1
    BY <1>1, RolesAreThree DEF NextRole
  <2>2. role' \in 1 .. 3
    BY <1>1, <2>1 DEF TraceInv
  <2>3. ASSUME Active', NEW r \in 1 .. 3, r < role' PROVE Traced(r)'
    <3>1. Active
      BY <2>3 DEF Active
    <3>2. CASE r = role
      BY <3>1, <3>2 DEF Traced
    <3>3. CASE r # role
      <4>1. r < role
        BY <2>1, <2>3, <3>3 DEF TraceInv
      <4>2. Traced(r)
        BY <3>1, <4>1 DEF TraceInv, RolesSoFar
      <4>3. QED
        BY <4>2 DEF Traced
    <3>4. QED
      BY <3>2, <3>3
  <2>4. Active' => RolesSoFar'
    BY <2>1, <2>3 DEF RolesSoFar
  <2>5. Active' => ActiveChaptersAreTraced'
    BY DEF TraceInv, Active, ActiveChaptersAreTraced
  <2>6. QED
    BY <2>1, <2>2, <2>4, <2>5 DEF TraceInv
<1>2. CASE role = 3
  <2>1. pc' = "draft" /\ role' = 1
    BY <1>2, RolesAreThree DEF NextRole
  <2>2. ASSUME Active', NEW r \in 1 .. 3 PROVE Traced(r)'
    <3>1. Active
      BY <2>2 DEF Active
    <3>2. CASE r = role
      BY <3>1, <3>2 DEF Traced
    <3>3. CASE r # role
      <4>1. r < role
        BY <1>2, <3>3
      <4>2. Traced(r)
        BY <3>1, <4>1 DEF TraceInv, RolesSoFar
      <4>3. QED
        BY <4>2 DEF Traced
    <3>4. QED
      BY <3>2, <3>3
  <2>3. Active' => RolesSoFar'
    BY <2>1, <2>2 DEF RolesSoFar
  <2>4. Active' => ActiveChaptersAreTraced'
    BY DEF TraceInv, Active, ActiveChaptersAreTraced
  <2>5. QED
    BY <2>1, <2>3, <2>4 DEF TraceInv
<1>3. QED
  BY <1>1, <1>2 DEF TraceInv

\* The steps that only leave the preparation of a chapter.
LEMMA Leaving ==
  ASSUME TraceInv, pc' \notin {"build", "trace", "draft"},
         pc' = "idle" \/ pc \in {"draft", "compress", "next"},
         UNCHANGED <<mode, ch, role, traces, drafted>>
  PROVE  TraceInv'
BY DEF TraceInv, Active, RolesSoFar, ActiveChaptersAreTraced

LEMMA StepTraced == TraceInv /\ [Next]_vars => TraceInv'
<1> SUFFICES ASSUME TraceInv, [Next]_vars PROVE TraceInv'
  OBVIOUS
<1>1. CASE Tools
  BY <1>1, ToolsLeaveRuns, StillTraced
<1>2. ASSUME NEW m \in Mode, NEW c \in Chapters, StartRun(m, c) PROVE TraceInv'
  BY <1>2 DEF StartRun, TraceInv, RolesSoFar, ActiveChaptersAreTraced
<1>3. CASE BuildLegacy
  <2>1. CASE mode = "legacy"
    BY <1>3, <2>1, RoleDone DEF BuildLegacy, Active
  <2>2. CASE mode # "legacy"
    <3>1. pc = "build" /\ pc' = "trace" /\ UNCHANGED <<mode, ch, role, traces, drafted>>
      BY <1>3, <2>2 DEF BuildLegacy
    <3>2. QED
      BY <3>1 DEF TraceInv, Active, RolesSoFar, Traced, ActiveChaptersAreTraced
  <2>3. QED
    BY <2>1, <2>2
<1>4. CASE BuildActive
  <2>1. pc = "build" /\ pc' \in {"idle", "trace"} /\ UNCHANGED <<mode, ch, role, traces, drafted>>
    BY <1>4 DEF BuildActive
  <2>2. QED
    BY <2>1 DEF TraceInv, Active, RolesSoFar, Traced, ActiveChaptersAreTraced
<1>5. CASE write_trace
  BY <1>5, RoleDone DEF write_trace
<1>6. CASE TraceFails
  <2>1. CASE Active
    BY <1>6, <2>1, Leaving DEF TraceFails
  <2>2. CASE ~Active
    BY <1>6, <2>2, RoleDone DEF TraceFails
  <2>3. QED
    BY <2>1, <2>2
<1>7. CASE CallWriter
  <2>1. pc = "draft" /\ pc' \in {"next", "compress"} /\ drafted' = drafted \cup {ch}
        /\ UNCHANGED <<mode, ch, role, traces>>
    BY <1>7 DEF CallWriter
  <2>2. ASSUME Active PROVE \A r \in Role : <<ch, r>> \in traces
    <3>1. Traced(1) /\ Traced(2) /\ Traced(3)
      BY <2>1, <2>2 DEF TraceInv, RolesSoFar
    <3>2. QED
      BY <3>1, RolesAreThree DEF Traced
  <2>3. Active' => ActiveChaptersAreTraced'
    BY <2>1, <2>2 DEF TraceInv, Active, ActiveChaptersAreTraced
  <2>4. QED
    BY <2>1, <2>3 DEF TraceInv, RolesSoFar
<1>8. CASE Compress
  BY <1>8, Leaving DEF Compress, run
<1>9. CASE CompressFails
  BY <1>9, Leaving DEF CompressFails, run
<1>10. CASE NextChapter
  <2>1. CASE pc' = "idle" /\ UNCHANGED ch
    BY <1>10, <2>1, Leaving DEF NextChapter
  <2>2. CASE pc' = "build"
    <3>1. UNCHANGED <<mode, role, traces, drafted>>
      BY <1>10 DEF NextChapter
    <3>2. role' = 1
      BY <1>10, <3>1 DEF NextChapter, TraceInv
    <3>3. Active' => RolesSoFar'
      BY <2>2, <3>2 DEF RolesSoFar
    <3>4. QED
      BY <2>2, <3>1, <3>2, <3>3 DEF TraceInv, Active, ActiveChaptersAreTraced
  <2>3. QED
    BY <1>10, <2>1, <2>2 DEF NextChapter
<1>11. CASE EndOfRun
  BY <1>11, Leaving DEF EndOfRun, run
<1>12. CASE UNCHANGED vars
  BY <1>12, StillTraced DEF vars, runVars
<1>13. QED
  BY <1>1, <1>2, <1>3, <1>4, <1>5, <1>6, <1>7, <1>8, <1>9, <1>10, <1>11, <1>12
     DEF Next, Run

\* Whatever tools do to the manifest, however writes fail and runs end, in an active mode
\* no writer is called before the three contexts of its chapter have left their trace.
THEOREM ActiveRunsAreTraced == Spec => []ActiveChaptersAreTraced
<1>1. TraceInv => ActiveChaptersAreTraced
  BY DEF TraceInv, ActiveChaptersAreTraced
<1>2. QED
  BY InitTraced, StepTraced, <1>1, PTL DEF Spec

-----------------------------------------------------------------------------
(* The last of some entries exists.                                        *)

LEMMA Smallest ==
  ASSUME NEW S \in SUBSET Nat, S # {}
  PROVE  \E x \in S : \A y \in S : x <= y
<1> DEFINE less == {p \in Nat \X Nat : p[1] < p[2]}
<1>1. IsWellFoundedOn(less, Nat)
  BY NatLessThanWellFounded DEF OpToRel
<1>2. PICK x \in S : \A y \in S : <<y, x>> \notin less
  BY <1>1, WFMin
<1>3. ASSUME NEW y \in S
      PROVE  x <= y
  <2>1. <<y, x>> \in Nat \X Nat /\ <<y, x>>[1] = y /\ <<y, x>>[2] = x
    OBVIOUS
  <2>2. ~(y < x)
    BY <1>2, <2>1
  <2>3. QED
    BY <2>1, <2>2
<1>4. QED
  BY <1>3

LEMMA Largest ==
  ASSUME NEW n \in Nat, NEW S \in SUBSET (1 .. n), S # {}
  PROVE  \E x \in S : \A y \in S : y <= x
<1> DEFINE below == {n - x : x \in S}
<1>1. below \in SUBSET Nat /\ below # {}
  <2>1. \A x \in S : n - x \in Nat
    OBVIOUS
  <2>2. QED
    BY <2>1
<1>2. PICK z \in below : \A y \in below : z <= y
  BY <1>1, Smallest
<1>3. PICK x \in S : z = n - x
  BY <1>2
<1>4. \A y \in S : n - x <= n - y
  BY <1>2, <1>3
<1>5. QED
  BY <1>3, <1>4

-----------------------------------------------------------------------------
(***************************************************************************)
(* Manifests.  An entry has its path for itself, whatever the tools do, so *)
(* a path that resolves is stale in no other entry.                        *)
(***************************************************************************)
Distinct(m) == \A j, k \in 1 .. Len(m) : m[j].path = m[k].path => j = k

Sound(m) == m \in Seq(Entry) /\ Distinct(m)

LEMMA EntryFacts ==
  ASSUME NEW m \in Seq(Entry)
  PROVE  /\ Len(m) \in Nat /\ DOMAIN m = 1 .. Len(m)
         /\ \A j \in 1 .. Len(m) : m[j] \in Entry /\ m[j].path \in Path /\ m[j].stale \in BOOLEAN
<1>1. Len(m) \in Nat /\ DOMAIN m = 1 .. Len(m) /\ \A j \in 1 .. Len(m) : m[j] \in Entry
  BY LenProperties, ElementOfSeq
<1>2. QED
  BY <1>1 DEF Entry

(* A manifest whose entries keep their paths stays sound. *)
LEMMA SamePaths ==
  ASSUME NEW m, Sound(m), NEW f \in [1 .. Len(m) -> Entry],
         \A j \in 1 .. Len(m) : f[j].path = m[j].path
  PROVE  Sound(f)
<1>1. Len(m) \in Nat
  BY EntryFacts DEF Sound
<1>2. f \in Seq(Entry) /\ Len(f) = Len(m)
  BY <1>1
<1>3. QED
  BY <1>2 DEF Sound, Distinct

LEMMA RegisteredIsSound ==
  ASSUME NEW m, Sound(m), NEW p \in Path
  PROVE  Sound(Registered(m, p))
<1> DEFINE new == [path |-> p, stale |-> FALSE]
<1>1. new \in Entry /\ new.path = p
  BY DEF Entry
<1>2. m \in Seq(Entry) /\ Len(m) \in Nat /\ \A j \in 1 .. Len(m) : m[j] \in Entry
  BY EntryFacts DEF Sound
<1>3. CASE \E j \in 1 .. Len(m) : m[j].path = p
  <2> DEFINE f == [j \in 1 .. Len(m) |-> IF m[j].path = p THEN new ELSE m[j]]
  <2>1. f \in [1 .. Len(m) -> Entry] /\ \A j \in 1 .. Len(m) : f[j].path = m[j].path
    BY <1>1, <1>2
  <2>2. Registered(m, p) = f
    BY <1>3 DEF Registered
  <2> HIDE DEF f
  <2>3. QED
    BY <2>1, <2>2, SamePaths
<1>4. CASE \A j \in 1 .. Len(m) : m[j].path # p
  <2> HIDE DEF new
  <2>1. Registered(m, p) = Append(m, new)
    BY <1>4 DEF Registered, new
  <2> DEFINE r == Registered(m, p)
  <2>2. /\ r \in Seq(Entry) /\ Len(r) = Len(m) + 1 /\ r[Len(m) + 1] = new
        /\ \A j \in 1 .. Len(m) : r[j] = m[j]
    BY <1>1, <1>2, <2>1, AppendProperties
  <2>3. \A j \in 1 .. Len(r) : j \in 1 .. Len(m) \/ j = Len(m) + 1
    BY <1>2, <2>2
  <2>4. ASSUME NEW j \in 1 .. Len(r), NEW k \in 1 .. Len(r), r[j].path = r[k].path
        PROVE  j = k
    <3>1. CASE j \in 1 .. Len(m) /\ k \in 1 .. Len(m)
      BY <2>2, <2>4, <3>1 DEF Sound, Distinct
    <3>2. CASE j \in 1 .. Len(m) /\ k = Len(m) + 1
      BY <1>1, <1>4, <2>2, <2>4, <3>2
    <3>3. CASE j = Len(m) + 1 /\ k \in 1 .. Len(m)
      BY <1>1, <1>4, <2>2, <2>4, <3>3
    <3>4. QED
      BY <2>3, <3>1, <3>2, <3>3
  <2>5. QED
    BY <2>2, <2>4 DEF Sound, Distinct
<1>5. QED
  BY <1>3, <1>4

LEMMA WithStaleIsSound ==
  ASSUME NEW m, Sound(m), NEW p \in Path, NEW stale \in BOOLEAN
  PROVE  Sound(WithStale(m, p, stale))
<1> DEFINE new == [path |-> p, stale |-> stale]
           f == [j \in 1 .. Len(m) |-> IF m[j].path = p THEN new ELSE m[j]]
<1>1. new \in Entry /\ new.path = p
  BY DEF Entry
<1>2. f \in [1 .. Len(m) -> Entry] /\ \A j \in 1 .. Len(m) : f[j].path = m[j].path
  BY <1>1, EntryFacts DEF Sound
<1>3. WithStale(m, p, stale) = f
  BY DEF WithStale
<1> HIDE DEF f
<1>4. QED
  BY <1>2, <1>3, SamePaths

LEMMA RolledBackIsSound ==
  ASSUME NEW m, Sound(m), NEW t
  PROVE  Sound(RolledBack(m, t))
<1>1. CASE StableAt(m, t) = {}
  BY <1>1 DEF RolledBack
<1>2. CASE StableAt(m, t) # {}
  <2> DEFINE first == CHOOSE j \in StableAt(m, t) : \A k \in StableAt(m, t) : j <= k
             f == [m EXCEPT ![first].stale = TRUE]
  <2>1. RolledBack(m, t) = f
    BY <1>2 DEF RolledBack
  <2> HIDE DEF first
  <2>2. /\ m \in Seq(Entry) /\ DOMAIN m = 1 .. Len(m)
        /\ \A j \in 1 .. Len(m) : m[j] \in Entry
    BY EntryFacts DEF Sound
  <2>3. \A e \in Entry : [e EXCEPT !.stale = TRUE] \in Entry
                         /\ [e EXCEPT !.stale = TRUE].path = e.path
    BY DEF Entry
  <2>4. \A j \in 1 .. Len(m) :
          f[j] = IF j = first THEN [m[j] EXCEPT !.stale = TRUE] ELSE m[j]
    BY <2>2
  <2>5. f \in [1 .. Len(m) -> Entry] /\ \A j \in 1 .. Len(m) : f[j].path = m[j].path
    BY <2>2, <2>3, <2>4
  <2> HIDE DEF f
  <2>6. QED
    BY <2>1, <2>5, SamePaths
<1>3. QED
  BY <1>1, <1>2

LEMMA EmptyIsSound == Sound(<<>>)
<1>1. <<>> \in Seq(Entry) /\ Len(<<>>) = 0
  BY EmptySeq
<1>2. QED
  BY <1>1 DEF Sound, Distinct

LEMMA UseIsSound ==
  ASSUME NEW changed, NEW startedEmpty, Sound(changed), Sound(startedEmpty),
         Use(changed, startedEmpty)
  PROVE  Sound(manifest') /\ UNCHANGED <<copy, contexts>>
BY DEF Use, run

LEMMA ToolsAreSound ==
  ASSUME Sound(manifest), Tools
  PROVE  Sound(manifest') /\ UNCHANGED <<copy, contexts>>
<1>1. ASSUME NEW p \in Written, WriteArtifact(p)
      PROVE  Sound(manifest') /\ UNCHANGED <<copy, contexts>>
  <2>1. p \in Path
    BY DEF Path
  <2>2. QED
    BY <1>1, <2>1, RegisteredIsSound, EmptyIsSound, UseIsSound DEF WriteArtifact
<1>2. ASSUME NEW p, WriteUnregistered(p)
      PROVE  Sound(manifest') /\ UNCHANGED <<copy, contexts>>
  BY <1>2 DEF WriteUnregistered, run
<1>3. ASSUME NEW t \in Indexes, stage_write(t)
      PROVE  Sound(manifest') /\ UNCHANGED <<copy, contexts>>
  <2>1. <<t, Staged>> \in Path
    BY DEF Path
  <2>2. QED
    BY <1>3, <2>1, RegisteredIsSound, EmptyIsSound, UseIsSound DEF stage_write
<1>4. ASSUME NEW t, rollback_to_previous(t)
      PROVE  Sound(manifest') /\ UNCHANGED <<copy, contexts>>
  BY <1>4, RolledBackIsSound, EmptyIsSound, UseIsSound DEF rollback_to_previous
<1>5. ASSUME NEW p \in Path, mark_stale(p)
      PROVE  Sound(manifest') /\ UNCHANGED <<copy, contexts>>
  BY <1>5, WithStaleIsSound, EmptyIsSound, UseIsSound DEF mark_stale
<1>6. ASSUME NEW p \in Path, promote_to_stable(p)
      PROVE  Sound(manifest') /\ UNCHANGED <<copy, contexts>>
  BY <1>6, WithStaleIsSound, EmptyIsSound, UseIsSound DEF promote_to_stable
<1>7. QED
  BY <1>1, <1>2, <1>3, <1>4, <1>5, <1>6 DEF Tools

(* What a sound manifest resolves to is stale in none of its entries, unless a run that *)
(* reads it is blocked.                                                                 *)
LEMMA ResolvedIsStable ==
  ASSUME NEW m, Sound(m), ~Blocked(m), NEW j \in 1 .. Len(m), m[j].stale
  PROVE  m[j].path # IndexPath(m, Lifecycle)
<1>1. Len(m) \in Nat /\ m[j].path \in Path
  BY EntryFacts DEF Sound
<1>2. CASE StableAt(m, Lifecycle) = {}
  <2>1. m[j].path[1] # Lifecycle
    BY <1>2 DEF Blocked
  <2>2. IndexPath(m, Lifecycle) = <<Lifecycle, Fixed>>
    BY <1>2 DEF IndexPath, Resolved
  <2>3. QED
    BY <2>1, <2>2
<1>3. CASE StableAt(m, Lifecycle) # {}
  <2> DEFINE last == CHOOSE i \in StableAt(m, Lifecycle) :
                       \A k \in StableAt(m, Lifecycle) : k <= i
  <2>1. StableAt(m, Lifecycle) \in SUBSET (1 .. Len(m))
    BY DEF StableAt
  <2>2. last \in StableAt(m, Lifecycle)
    BY <1>1, <1>3, <2>1, Largest
  <2>3. Resolved(m, Lifecycle) = m[last].path
    BY <1>3 DEF Resolved
  <2> HIDE DEF last
  <2>4. last \in 1 .. Len(m) /\ m[last].path[1] = Lifecycle /\ ~m[last].stale
    BY <2>2 DEF StableAt
  <2>5. m[last].path # NoPath
    BY <2>4 DEF NoPath, Lifecycle
  <2>6. IndexPath(m, Lifecycle) = m[last].path
    BY <2>3, <2>5 DEF IndexPath
  <2>7. j # last
    BY <2>4
  <2>8. QED
    BY <2>4, <2>6, <2>7 DEF Sound, Distinct
<1>4. QED
  BY <1>2, <1>3

-----------------------------------------------------------------------------
(****************************************************************************)
(* Contexts.  All contexts of a run come from its one copy of the manifest. *)
(****************************************************************************)
FromCopy(item) ==
  /\ item.kind = "graph" => item.path = IndexPath(copy, Graph)
  /\ item.kind = "lifecycle" => item.path = IndexPath(copy, Lifecycle)

GenerationInv ==
  /\ Sound(manifest)
  /\ copy # NoManifest => Sound(copy)
  /\ contexts # {} => copy # NoManifest /\ ~Blocked(copy)
  /\ \A c \in contexts : \A item \in c.items : FromCopy(item)

LEMMA SelectedAreItems ==
  ASSUME NEW items, NEW c, NEW budget
  PROVE  Select(items, c, budget) \subseteq {items[j] : j \in 1 .. Len(items)}
BY DEF Select

(* Whatever is selected of the items of a manifest, its indexes come from that manifest. *)
LEMMA ItemsFromManifest ==
  ASSUME NEW m, NEW j \in 1 .. Len(Items(m))
  PROVE  /\ Items(m)[j].kind = "graph" => Items(m)[j].path = IndexPath(m, Graph)
         /\ Items(m)[j].kind = "lifecycle" => Items(m)[j].path = IndexPath(m, Lifecycle)
<1> DEFINE good == {item \in {Items(m)[k] : k \in 1 .. Len(Items(m))}
                              \cup {Item("outline", NoPath), Item("contract", NoPath),
                                    Item("graph", IndexPath(m, Graph)),
                                    Item("lifecycle", IndexPath(m, Lifecycle))}
                              \cup {Item("summary", <<Summary, d>>) : d \in Chapters} :
                      /\ item.kind = "graph" => item.path = IndexPath(m, Graph)
                      /\ item.kind = "lifecycle" => item.path = IndexPath(m, Lifecycle)}
           canon == <<Item("outline", NoPath), Item("contract", NoPath)>>
           summaries == [d \in Chapters |-> Item("summary", <<Summary, d>>)]
           indexes == <<Item("graph", IndexPath(m, Graph)),
                        Item("lifecycle", IndexPath(m, Lifecycle))>>
<1>1. /\ Item("outline", NoPath) \in good /\ Item("contract", NoPath) \in good
      /\ Item("graph", IndexPath(m, Graph)) \in good
      /\ Item("lifecycle", IndexPath(m, Lifecycle)) \in good
      /\ \A d \in Chapters : Item("summary", <<Summary, d>>) \in good
  BY DEF Item
<1>2. Items(m) = (canon \o summaries) \o indexes
  BY DEF Items
<1>3. \A item \in good : /\ item.kind = "graph" => item.path = IndexPath(m, Graph)
                         /\ item.kind = "lifecycle" => item.path = IndexPath(m, Lifecycle)
  OBVIOUS
<1> HIDE DEF good
<1>4. canon \in Seq(good) /\ indexes \in Seq(good)
  BY <1>1
<1>5. summaries \in Seq(good)
  <2>1. Chapters = 1 .. NumChapters /\ NumChapters \in Nat
    BY BoundsAssumption DEF Chapters
  <2>2. summaries \in [1 .. NumChapters -> good]
    BY <1>1, <2>1
  <2> HIDE DEF summaries
  <2>3. QED
    BY <2>1, <2>2, IsASeq
<1> HIDE DEF canon, summaries, indexes
<1>6. canon \o summaries \in Seq(good)
  BY <1>4, <1>5, ConcatProperties
<1>7. Items(m) \in Seq(good)
  BY <1>2, <1>4, <1>6, ConcatProperties
<1>8. Items(m)[j] \in good
  BY <1>7, ElementOfSeq
<1>9. QED
  BY <1>3, <1>8

LEMMA InitGeneration == Init => GenerationInv
BY EmptyIsSound DEF Init, GenerationInv

LEMMA StillGeneration ==
  ASSUME GenerationInv, Sound(manifest'), UNCHANGED <<copy, contexts>>
  PROVE  GenerationInv'
BY DEF GenerationInv, FromCopy

LEMMA BuildKeepsGeneration ==
  ASSUME GenerationInv, BuildActive
  PROVE  GenerationInv'
<1>1. manifest' = manifest
  BY DEF BuildActive, files
<1>2. CASE copy # NoManifest /\ copy' = copy
  <2>1. CASE Blocked(copy')
    BY <1>1, <2>1, <1>2, StillGeneration DEF BuildActive, GenerationInv
  <2>2. CASE ~Blocked(copy')
    <3> DEFINE items == Select(Items(copy'), ch, Budget[Roles[role]])
    <3>1. contexts' = contexts \cup {[chapter |-> ch, role |-> Roles[role], items |-> items]}
      BY <2>2 DEF BuildActive
    <3>2. \A item \in items : FromCopy(item)'
      BY SelectedAreItems, ItemsFromManifest DEF FromCopy
    <3> HIDE DEF items
    <3>3. \A c \in contexts : \A item \in c.items : FromCopy(item)'
      BY <1>2 DEF GenerationInv, FromCopy
    <3>4. \A c \in contexts' : \A item \in c.items : FromCopy(item)'
      BY <3>1, <3>2, <3>3
    <3>5. QED
      BY <1>1, <1>2, <2>2, <3>4 DEF GenerationInv
  <2>3. QED
    BY <2>1, <2>2
<1>3. CASE copy = NoManifest /\ copy' \in {manifest, <<>>}
  <2>1. contexts = {} /\ Sound(copy')
    BY <1>3, EmptyIsSound DEF GenerationInv
  <2>2. CASE Blocked(copy')
    BY <1>1, <2>1, <2>2 DEF BuildActive, GenerationInv
  <2>3. CASE ~Blocked(copy')
    <3> DEFINE items == Select(Items(copy'), ch, Budget[Roles[role]])
    <3>1. contexts' = {[chapter |-> ch, role |-> Roles[role], items |-> items]}
      BY <2>1, <2>3 DEF BuildActive
    <3>2. \A item \in items : FromCopy(item)'
      BY SelectedAreItems, ItemsFromManifest DEF FromCopy
    <3> HIDE DEF items
    <3>3. \A c \in contexts' : \A item \in c.items : FromCopy(item)'
      BY <3>1, <3>2
    <3>4. copy' # NoManifest
      BY <2>1, ManifestAssumption DEF Sound
    <3>5. QED
      BY <1>1, <2>1, <2>3, <3>3, <3>4 DEF GenerationInv
  <2>4. QED
    BY <2>2, <2>3
<1>4. QED
  BY <1>2, <1>3 DEF BuildActive, LoadOnce

LEMMA StepGeneration == GenerationInv /\ [Next]_vars => GenerationInv'
<1> SUFFICES ASSUME GenerationInv, [Next]_vars
             PROVE  GenerationInv'
  OBVIOUS
<1>1. CASE Tools
  BY <1>1, ToolsAreSound, StillGeneration DEF GenerationInv
<1>2. ASSUME NEW m \in Mode, NEW c \in Chapters, StartRun(m, c)
      PROVE  GenerationInv'
  BY <1>2 DEF StartRun, GenerationInv, files
<1>3. CASE BuildActive
  BY <1>3, BuildKeepsGeneration
<1>4. CASE \/ BuildLegacy \/ write_trace \/ TraceFails \/ CallWriter \/ Compress
           \/ CompressFails \/ NextChapter \/ EndOfRun \/ UNCHANGED vars
  <2>1. UNCHANGED <<manifest, copy, contexts>>
    BY <1>4 DEF BuildLegacy, write_trace, TraceFails, CallWriter, Compress, CompressFails,
       NextChapter, EndOfRun, vars, files, run
  <2>2. QED
    BY <2>1, StillGeneration DEF GenerationInv
<1>5. QED
  BY <1>1, <1>2, <1>3, <1>4 DEF Next, Run

LEMMA AtMostOne ==
  ASSUME NEW S, NEW x, S \subseteq {x}
  PROVE  Cardinality(S) <= 1
<1>1. IsFiniteSet({x}) /\ Cardinality({x}) = 1
  BY FS_Singleton
<1>2. QED
  BY <1>1, FS_Subset

(* The agents of an active run all read one graph and one lifecycle index, the latter not  *)
(* stale in the manifest the run has read, whatever tools do to the manifest meanwhile and *)
(* whatever of it cannot be read, for any number of chapters and any budgets.              *)
THEOREM RunsReadOneGeneration == Spec => []OneStableGeneration
<1>1. GenerationInv => OneStableGeneration
  <2> SUFFICES ASSUME GenerationInv
               PROVE  OneStableGeneration
    OBVIOUS
  <2>1. /\ Reads("graph") \subseteq {IndexPath(copy, Graph)}
        /\ Reads("lifecycle") \subseteq {IndexPath(copy, Lifecycle)}
    BY DEF GenerationInv, FromCopy, Reads
  <2>2. Cardinality(Reads("graph")) <= 1 /\ Cardinality(Reads("lifecycle")) <= 1
    BY <2>1, AtMostOne
  <2>3. ASSUME copy # NoManifest, NEW j \in 1 .. Len(copy), copy[j].stale,
               copy[j].path \in Reads("lifecycle")
        PROVE  FALSE
    <3>1. contexts # {}
      BY <2>3 DEF Reads
    <3>2. Sound(copy) /\ ~Blocked(copy)
      BY <2>3, <3>1 DEF GenerationInv
    <3>3. copy[j].path = IndexPath(copy, Lifecycle)
      BY <2>1, <2>3
    <3>4. QED
      BY <2>3, <3>2, <3>3, ResolvedIsStable
  <2>4. QED
    BY <2>2, <2>3 DEF OneStableGeneration
<1>2. QED
  BY InitGeneration, StepGeneration, <1>1, PTL DEF Spec
=============================================================================
