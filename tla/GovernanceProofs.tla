--------------------------- MODULE GovernanceProofs ---------------------------
(***************************************************************************)
(* Theorems about Governance, for any arcs, chapters, projections, applies *)
(* and faults.                                                             *)
(***************************************************************************)
EXTENDS Governance, FiniteSetTheorems, SequenceTheorems, TLAPS

Entry == [name : Names, enabled : BOOLEAN]

Documents ==
  /\ drafts \in [Arcs -> SUBSET Chapters] /\ manuscript \subseteq Chapters
  /\ reports \in [Chapters -> Commit \cup {NoCommit}]
  /\ pauses \subseteq Arcs \X Chapters /\ tornPauses \subseteq Arcs \X Chapters
  /\ overridden \subseteq Arcs \X Chapters /\ blocked \subseteq Arcs \X Chapters

Counters ==
  /\ applies \in Nat /\ changes \in Nat /\ faults \in Nat /\ tears \in Nat /\ lost \in Nat

Labels == mode \in {"shadow", "active"} /\ pc \in {"idle", "emitting", "dispatching", "pausing"}

(* Whatever is on its way is the commit of the last apply. *)
Underway ==
  /\ event \in Commit \cup {NoCommit}
  /\ pc # "idle" => event \in Commit /\ event.n = applies

Dispatches ==
  /\ registry \in Seq(Entry) /\ at \in Nat \ {0}
  /\ records \in Seq(Record) /\ history \in Seq(Record)
  /\ pc = "pausing" => /\ at <= Len(registry) /\ Current = GovernanceName
                       /\ reports[event.chapter] = event
  /\ pc \in {"idle", "emitting"} => records = <<>>

TypeInv ==
  Documents /\ Counters /\ Labels /\ Underway /\ Dispatches /\ lines \in Seq(Line)

USE DEF files, process, ghosts, Fault, Change

LEMMA CommitIsRecord ==
  ASSUME NEW c \in Commit
  PROVE  c.n \in Nat /\ c.arc \in Arcs /\ c.chapter \in Chapters
  BY DEF Commit

LEMMA InitTypes == Init => TypeInv
<1> SUFFICES ASSUME Init
             PROVE  TypeInv
  OBVIOUS
<1>1. <<>> \in Seq(Entry) /\ <<>> \in Seq(Record) /\ <<>> \in Seq(Line)
  BY EmptySeq
<1>2. Documents
  BY DEF Init, Documents
<1>3. Counters /\ Labels /\ Underway
  BY DEF Init, Counters, Labels, Underway
<1>4. Dispatches /\ lines \in Seq(Line)
  BY <1>1 DEF Init, Dispatches
<1>5. QED
  BY <1>2, <1>3, <1>4 DEF TypeInv

LEMMA DocumentsStep ==
  ASSUME Documents, Underway, Next
  PROVE  Documents'
<1> USE DEF Documents
<1>1. CASE \E a \in Arcs, c \in Chapters : Draft(a, c)
  BY <1>1 DEF Draft
<1>2. CASE \E a \in Arcs, c \in Chapters : WorkbenchApply(a, c)
  BY <1>2 DEF WorkbenchApply
<1>3. CASE \E a \in Arcs, c \in Chapters : clear_hard_pause(a, c)
  BY <1>3 DEF clear_hard_pause
<1>4. CASE \E a \in Arcs : \E S \in SUBSET drafts[a] : Apply(a, S)
  BY <1>4 DEF Apply
<1>5. CASE Emit
  BY <1>5 DEF Emit, AppendCommit, AppendTorn, AppendFails
<1>6. CASE Configure
  BY <1>6 DEF Configure, register, unregister, SetEnabled, SetMode
<1>7. CASE Skip \/ ProjectOther \/ EndDispatch
  BY <1>7 DEF Skip, ProjectOther, EndDispatch
<1>8. CASE audit
  <2>1. event \in Commit /\ event.chapter \in Chapters
    BY <1>8, CommitIsRecord DEF audit, Auditing, Running, Dispatching, Underway
  <2>2. QED
    BY <1>8, <2>1 DEF audit, write_report
<1>9. CASE WritePause
  <2>1. Paused \in Arcs \X Chapters
    BY <1>9, CommitIsRecord DEF WritePause, Underway, Paused
  <2>2. QED
    BY <1>9, <2>1 DEF WritePause
<1>10. ASSUME TearReport
       PROVE  reports' \in [Chapters -> Commit \cup {NoCommit}]
  BY <1>10 DEF TearReport
<1>11. ASSUME TearPause, pc = "pausing"
       PROVE  pauses' \subseteq Arcs \X Chapters /\ tornPauses' \subseteq Arcs \X Chapters
  <2>1. Paused \in Arcs \X Chapters
    BY <1>11, CommitIsRecord DEF Underway, Paused
  <2>2. QED
    BY <1>11, <2>1 DEF TearPause
<1>12. CASE ProjectionFails
  <2>1. UNCHANGED <<drafts, manuscript, pauses, tornPauses, overridden, blocked>>
        /\ (TearReport \/ reports' = reports)
    BY <1>12 DEF ProjectionFails
  <2>2. QED
    BY <1>10, <2>1
<1>13. CASE PauseFails
  <2>1. /\ UNCHANGED <<drafts, manuscript, reports, overridden, blocked>> /\ pc = "pausing"
        /\ TearPause \/ UNCHANGED <<pauses, tornPauses>>
    BY <1>13 DEF PauseFails
  <2>2. QED
    BY <1>11, <2>1
<1>14. CASE Crash
  <2>1. /\ UNCHANGED <<drafts, manuscript, overridden, blocked>>
        /\ TearReport \/ reports' = reports
        /\ (TearPause /\ pc = "pausing") \/ UNCHANGED <<pauses, tornPauses>>
    BY <1>14 DEF Crash
  <2>2. QED
    BY <1>10, <1>11, <2>1
<1>15. QED
  BY <1>1, <1>2, <1>3, <1>4, <1>5, <1>6, <1>7, <1>8, <1>9, <1>12, <1>13, <1>14
     DEF Next, Author, Dispatch, Audit

LEMMA CountersStep ==
  ASSUME Counters, Next
  PROVE  Counters'
<1> USE DEF Counters
<1>1. CASE Author
  <2>1. UNCHANGED <<changes, faults, tears, lost>> /\ applies' \in {applies, applies + 1}
    BY <1>1 DEF Author, Draft, WorkbenchApply, clear_hard_pause, Apply
  <2>2. QED
    BY <2>1
<1>2. CASE Emit
  <2>1. /\ UNCHANGED <<applies, changes>> /\ faults' \in {faults, faults + 1}
        /\ tears' \in {tears, tears + 1} /\ lost' \in {lost, lost + 1}
    BY <1>2 DEF Emit, AppendCommit, AppendTorn, AppendFails
  <2>2. QED
    BY <2>1
<1>3. CASE Configure
  <2>1. UNCHANGED <<applies, faults, tears, lost>> /\ changes' = changes + 1
    BY <1>3 DEF Configure, register, unregister, SetEnabled, SetMode
  <2>2. QED
    BY <2>1
<1>4. CASE Dispatch
  BY <1>4 DEF Dispatch, Skip, ProjectOther, ProjectionFails, EndDispatch
<1>5. CASE Audit
  BY <1>5 DEF Audit, audit, write_report, WritePause, PauseFails
<1>6. CASE Crash
  BY <1>6 DEF Crash
<1>7. QED
  BY <1>1, <1>2, <1>3, <1>4, <1>5, <1>6 DEF Next

LEMMA LabelsStep ==
  ASSUME Labels, Next
  PROVE  Labels'
<1> USE DEF Labels
<1>1. CASE Author
  <2>1. ASSUME NEW a \in Arcs, NEW c \in Chapters,
               Draft(a, c) \/ WorkbenchApply(a, c) \/ clear_hard_pause(a, c)
        PROVE  Labels'
    BY <2>1 DEF Draft, WorkbenchApply, clear_hard_pause
  <2>2. ASSUME NEW a \in Arcs, NEW S \in SUBSET drafts[a], Apply(a, S)
        PROVE  Labels'
    BY <2>2 DEF Apply
  <2>3. QED
    BY <1>1, <2>1, <2>2 DEF Author
<1>2. CASE Emit
  BY <1>2 DEF Emit, AppendCommit, AppendTorn, AppendFails
<1>3. CASE Configure
  BY <1>3 DEF Configure, register, unregister, SetEnabled, SetMode
<1>4. CASE Dispatch
  BY <1>4 DEF Dispatch, Skip, ProjectOther, ProjectionFails, EndDispatch
<1>5. CASE Audit
  BY <1>5 DEF Audit, audit, write_report, WritePause, PauseFails
<1>6. CASE Crash
  BY <1>6 DEF Crash
<1>7. QED
  BY <1>1, <1>2, <1>3, <1>4, <1>5, <1>6 DEF Next

LEMMA UnderwayStep ==
  ASSUME Counters, Labels, Underway, Next
  PROVE  Underway'
<1>1. ASSUME UNCHANGED <<event, applies>>, pc # "idle" \/ pc' = pc
      PROVE  Underway'
  BY <1>1 DEF Underway
<1>2. ASSUME event' = NoCommit, pc' = "idle"
      PROVE  Underway'
  BY <1>2 DEF Underway
<1>3. CASE \E a \in Arcs : \E S \in SUBSET drafts[a] : Apply(a, S)
  <2>1. PICK a \in Arcs, c \in Chapters :
          /\ event' = [n |-> applies + 1, arc |-> a, chapter |-> c]
          /\ applies' = applies + 1
    BY <1>3 DEF Apply
  <2>2. event' \in Commit /\ event'.n = applies'
    BY <2>1 DEF Commit, Counters
  <2>3. QED
    BY <2>2 DEF Underway
<1>4. CASE \E a \in Arcs, c \in Chapters :
             Draft(a, c) \/ WorkbenchApply(a, c) \/ clear_hard_pause(a, c)
  BY <1>1, <1>4 DEF Draft, WorkbenchApply, clear_hard_pause
<1>5. CASE Emit
  BY <1>1, <1>2, <1>5 DEF Emit, AppendCommit, AppendTorn, AppendFails
<1>6. CASE Configure
  BY <1>1, <1>6 DEF Configure, register, unregister, SetEnabled, SetMode
<1>7. CASE Dispatch
  BY <1>1, <1>2, <1>7 DEF Dispatch, Skip, ProjectOther, ProjectionFails, EndDispatch
<1>8. CASE Audit
  BY <1>1, <1>8
     DEF Audit, audit, write_report, WritePause, PauseFails, Auditing, Running, Dispatching
<1>9. CASE Crash
  BY <1>2, <1>9 DEF Crash
<1>10. QED
  BY <1>3, <1>4, <1>5, <1>6, <1>7, <1>8, <1>9 DEF Next, Author

(* A note is a record, and the projection it is about has been dealt with. *)
LEMMA NoteTypes ==
  ASSUME Dispatches, event \in Commit, at <= Len(registry),
         NEW status \in {"success", "failed", "skipped"}, Note(status)
  PROVE  /\ records' \in Seq(Record) /\ at' \in Nat \ {0}
         /\ records' = Append(records, [name |-> Current, n |-> event.n,
                                        chapter |-> event.chapter, status |-> status])
<1>1. registry[at] \in Entry
  BY ElementOfSeq DEF Dispatches
<1>2. Current \in Names
  BY <1>1 DEF Entry, Current
<1>3. [name |-> Current, n |-> event.n, chapter |-> event.chapter, status |-> status]
        \in Record
  BY <1>2, CommitIsRecord DEF Record
<1>4. records' = Append(records, [name |-> Current, n |-> event.n,
                                  chapter |-> event.chapter, status |-> status])
  BY DEF Note
<1>5. records' \in Seq(Record)
  BY <1>3, <1>4 DEF Dispatches
<1>6. QED
  BY <1>4, <1>5 DEF Dispatches, Note

LEMMA DispatchesStep ==
  ASSUME TypeInv, Next
  PROVE  Dispatches'
<1> USE DEF TypeInv
<1>1. ASSUME UNCHANGED <<registry, reports, event, at, records, history>>,
             pc' = pc
      PROVE  Dispatches'
  BY <1>1 DEF Dispatches, Current
<1>2. CASE \E a \in Arcs, c \in Chapters :
             Draft(a, c) \/ WorkbenchApply(a, c) \/ clear_hard_pause(a, c)
  BY <1>1, <1>2 DEF Draft, WorkbenchApply, clear_hard_pause
<1>3. CASE \E a \in Arcs : \E S \in SUBSET drafts[a] : Apply(a, S)
  BY <1>3 DEF Apply, Dispatches
<1>4. <<>> \in Seq(Record) /\ <<>> \in Seq(Entry)
  BY EmptySeq
<1>5. CASE Emit
  <2>1. /\ UNCHANGED <<registry, history>> /\ at' \in {at, 1} /\ pc' # "pausing"
        /\ records' = <<>>
    BY <1>5 DEF Emit, AppendCommit, AppendTorn, AppendFails, Dispatches
  <2>2. at' \in Nat \ {0}
    BY <2>1 DEF Dispatches
  <2>3. records' \in Seq(Record)
    BY <1>4, <2>1 DEF Dispatches
  <2>4. registry' \in Seq(Entry) /\ history' \in Seq(Record)
    BY <2>1 DEF Dispatches
  <2>5. QED
    BY <2>1, <2>2, <2>3, <2>4 DEF Dispatches
<1>6. CASE Configure
  <2>1. /\ UNCHANGED <<at, records, history, pc>> /\ pc = "idle"
    BY <1>6 DEF Configure, register, unregister, SetEnabled, SetMode
  <2>2. registry' \in Seq(Entry)
    <3>1. ASSUME NEW p \in Names, register(p)
          PROVE  registry' \in Seq(Entry)
      <4>1. [name |-> p, enabled |-> TRUE] \in Entry
        BY DEF Entry
      <4>2. QED
        BY <3>1, <4>1 DEF register, Dispatches
    <3>2. ASSUME NEW p \in Names, unregister(p)
          PROVE  registry' \in Seq(Entry)
      <4>1. PICK j \in 1 .. Len(registry) : registry' = RemoveAt(registry, j)
        BY <3>2 DEF unregister
      <4>2. registry \in Seq(Entry) /\ Len(registry) \in Nat
        BY LenProperties DEF Dispatches
      <4>3. \A k \in 1 .. Len(registry) : registry[k] \in Entry
        BY <4>2, ElementOfSeq
      <4>4. SubSeq(registry, 1, j - 1) \in Seq(Entry)
            /\ SubSeq(registry, j + 1, Len(registry)) \in Seq(Entry)
        BY <4>2, <4>3, SubSeqProperties
      <4>5. QED
        BY <4>1, <4>4, ConcatProperties DEF RemoveAt
    <3>3. ASSUME NEW p \in Names, NEW on \in BOOLEAN, SetEnabled(p, on)
          PROVE  registry' \in Seq(Entry)
      <4>1. PICK j \in 1 .. Len(registry) : registry' = [registry EXCEPT ![j].enabled = on]
        BY <3>3 DEF SetEnabled
      <4>2. registry[j] \in Entry
        BY ElementOfSeq DEF Dispatches
      <4>3. [registry[j] EXCEPT !.enabled = on] \in Entry
        BY <4>2 DEF Entry
      <4>4. registry' = [registry EXCEPT ![j] = [registry[j] EXCEPT !.enabled = on]]
        BY <4>1
      <4>5. QED
        BY <4>3, <4>4, ExceptSeq DEF Dispatches
    <3>4. ASSUME NEW m \in {"shadow", "active"}, SetMode(m)
          PROVE  registry' \in Seq(Entry)
      BY <3>4 DEF SetMode, Dispatches
    <3>5. QED
      BY <1>6, <3>1, <3>2, <3>3, <3>4 DEF Configure
  <2>3. QED
    BY <2>1, <2>2 DEF Dispatches
<1>7. ASSUME at <= Len(registry), event \in Commit, UNCHANGED <<registry, history>>,
             pc' = "dispatching",
             NEW status \in {"success", "failed", "skipped"}, Note(status)
      PROVE  Dispatches'
  BY <1>7, NoteTypes DEF Dispatches
<1>8. CASE Skip \/ ProjectOther \/ ProjectionFails
  BY <1>7, <1>8
     DEF Skip, ProjectOther, ProjectionFails, Running, Dispatching, Underway
<1>9. CASE EndDispatch
  <2>1. history \o records \in Seq(Record)
    BY ConcatProperties DEF Dispatches
  <2>2. QED
    BY <1>4, <1>9, <2>1 DEF EndDispatch, Dispatches
<1>10. CASE audit
  <2>1. /\ pc = "dispatching" /\ at <= Len(registry) /\ event \in Commit
        /\ event.chapter \in Chapters
        /\ UNCHANGED <<registry, history, event>> /\ Current = GovernanceName
        /\ reports' = [reports EXCEPT ![event.chapter] = event]
    BY <1>10, CommitIsRecord
       DEF audit, write_report, Auditing, Running, Dispatching, Underway
  <2>2. CASE Note("success") /\ pc' = pc
    BY <1>7, <2>1, <2>2
  <2>3. CASE pc' = "pausing" /\ UNCHANGED <<at, records>>
    BY <2>1, <2>3 DEF Dispatches, Documents, Current
  <2>4. QED
    BY <1>10, <2>2, <2>3 DEF audit, write_report
<1>11. CASE WritePause \/ PauseFails
  BY <1>7, <1>11 DEF WritePause, PauseFails, Underway, Dispatches
<1>12. CASE Crash
  BY <1>4, <1>12 DEF Crash, Dispatches
<1>13. QED
  BY <1>2, <1>3, <1>5, <1>6, <1>8, <1>9, <1>10, <1>11, <1>12
     DEF Next, Author, Dispatch, Audit

LEMMA WrittenTypes ==
  ASSUME lines \in Seq(Line), NEW c \in Commit \cup {NoCommit}, NEW ended \in BOOLEAN
  PROVE  Written(c, ended) \in Seq(Line)
<1>1. /\ [commit |-> c, ended |-> ended] \in Line
      /\ [commit |-> NoCommit, ended |-> ended] \in Line
  BY DEF Line
<1>2. CASE TailOpen
  <2>1. Len(lines) \in 1 .. Len(lines)
    BY <1>2, EmptySeq DEF TailOpen
  <2>2. QED
    BY <1>1, <1>2, <2>1, ExceptSeq DEF Written
<1>3. CASE ~TailOpen
  BY <1>1, <1>3 DEF Written
<1>4. QED
  BY <1>2, <1>3

LEMMA LinesStep ==
  ASSUME lines \in Seq(Line), Underway, Next
  PROVE  lines' \in Seq(Line)
<1>1. CASE AppendCommit
  BY <1>1, WrittenTypes DEF AppendCommit, Underway
<1>2. CASE AppendTorn
  BY <1>2, WrittenTypes DEF AppendTorn, Underway
<1>3. CASE ~AppendCommit /\ ~AppendTorn
  <2>1. lines' = lines
    BY <1>3 DEF Next, Author, Draft, WorkbenchApply, clear_hard_pause, Apply, Emit,
       AppendFails, Configure, register, unregister, SetEnabled, SetMode, Dispatch, Skip,
       ProjectOther, ProjectionFails, EndDispatch, Audit, audit, write_report, WritePause, PauseFails,
       Crash
  <2>2. QED
    BY <2>1
<1>4. QED
  BY <1>1, <1>2, <1>3

LEMMA StepTypes == TypeInv /\ [Next]_vars => TypeInv'
<1>1. TypeInv /\ UNCHANGED vars => TypeInv'
  BY DEF vars, TypeInv, Documents, Counters, Labels, Underway, Dispatches, Current
<1>2. QED
  BY <1>1, DocumentsStep, CountersStep, LabelsStep, UnderwayStep, DispatchesStep, LinesStep
     DEF TypeInv

LEMMA Types == Spec => []TypeInv
<1>1. QED
  BY InitTypes, StepTypes, PTL DEF Spec

(* The variables keep their types, whatever is torn, fails or dies. *)
THEOREM TypeCorrect == Spec => []TypeOK
<1>1. TypeInv => TypeOK
  BY DEF TypeInv, TypeOK, Documents, Counters, Labels, Underway, Dispatches, Entry
<1>2. QED
  BY <1>1, Types, PTL

-----------------------------------------------------------------------------
(* A commit that is reported or noted is none of the future, and a record of success that *)
(* no failure follows is borne out.                                                       *)
Borne(r) ==
  Succeeded(r) /\ ~Disowned(r) =>
    reports[r.chapter] # NoCommit /\ reports[r.chapter].n >= r.n

Dated ==
  /\ \A c \in Chapters : reports[c] # NoCommit => reports[c].n <= applies
  /\ \A r \in Noted : r.n <= applies /\ Borne(r)

Kept == blocked \subseteq pauses \cup overridden \cup tornPauses

LEMMA KeptStep ==
  ASSUME Kept, Next
  PROVE  Kept'
<1> USE DEF Kept
<1>1. CASE \E a \in Arcs, c \in Chapters : clear_hard_pause(a, c)
  BY <1>1 DEF clear_hard_pause
<1>2. CASE WritePause
  BY <1>2 DEF WritePause
<1>3. CASE PauseFails \/ Crash
  <2>1. UNCHANGED <<blocked, overridden>>
        /\ (TearPause \/ UNCHANGED <<pauses, tornPauses>>)
    BY <1>3 DEF PauseFails, Crash
  <2>2. QED
    BY <2>1 DEF TearPause
<1>4. CASE /\ ~WritePause /\ ~PauseFails /\ ~Crash
           /\ \A a \in Arcs, c \in Chapters : ~clear_hard_pause(a, c)
  <2>1. UNCHANGED <<blocked, pauses, tornPauses, overridden>>
    BY <1>4 DEF Next, Author, Draft, WorkbenchApply, Apply, Emit, AppendCommit,
       AppendTorn, AppendFails, Configure, register, unregister, SetEnabled, SetMode,
       Dispatch, Skip, ProjectOther, ProjectionFails, EndDispatch, Audit, audit, write_report
  <2>2. QED
    BY <2>1
<1>5. QED
  BY <1>1, <1>2, <1>3, <1>4

LEMMA SetOfSeq ==
  ASSUME NEW S, NEW s \in Seq(S)
  PROVE  ToSet(s) = {s[j] : j \in 1 .. Len(s)} /\ ToSet(s) \subseteq S
<1>1. DOMAIN s = 1 .. Len(s)
  BY LenProperties
<1>2. \A j \in 1 .. Len(s) : s[j] \in S
  BY ElementOfSeq
<1>3. QED
  BY <1>1, <1>2 DEF ToSet

LEMMA NotedTypes ==
  ASSUME TypeInv
  PROVE  /\ Noted \subseteq Record
         /\ \A r \in Record : r.n \in Nat /\ r.chapter \in Chapters
<1>1. history \in Seq(Record) /\ records \in Seq(Record)
  BY DEF TypeInv, Dispatches
<1>2. ToSet(history) \subseteq Record /\ ToSet(records) \subseteq Record
  BY <1>1, SetOfSeq
<1>3. QED
  BY <1>2 DEF Noted, Record

(* What is in a sequence that two others were joined to, or one element was put behind. *)
LEMMA SetOfJoined ==
  ASSUME NEW S, NEW s \in Seq(S), NEW t \in Seq(S)
  PROVE  ToSet(s \o t) = ToSet(s) \cup ToSet(t)
<1>1. /\ s \o t \in Seq(S) /\ Len(s) \in Nat /\ Len(t) \in Nat
      /\ Len(s \o t) = Len(s) + Len(t)
      /\ \A j \in 1 .. Len(s) + Len(t) :
           (s \o t)[j] = IF j <= Len(s) THEN s[j] ELSE t[j - Len(s)]
  BY ConcatProperties, LenProperties
<1> DEFINE u == s \o t
<1>2. /\ ToSet(s) = {s[j] : j \in 1 .. Len(s)} /\ ToSet(t) = {t[j] : j \in 1 .. Len(t)}
      /\ ToSet(u) = {u[j] : j \in 1 .. Len(u)}
  BY <1>1, SetOfSeq
<1>3. /\ Len(u) = Len(s) + Len(t)
      /\ \A j \in 1 .. Len(s) + Len(t) : u[j] = IF j <= Len(s) THEN s[j] ELSE t[j - Len(s)]
  BY <1>1
<1> HIDE DEF u
<1>4. ASSUME NEW e \in ToSet(u)
      PROVE  e \in ToSet(s) \cup ToSet(t)
  <2>1. PICK j \in 1 .. Len(s) + Len(t) : e = u[j]
    BY <1>2, <1>3, <1>4
  <2>2. CASE j <= Len(s)
    BY <1>1, <1>2, <1>3, <2>1, <2>2
  <2>3. CASE j > Len(s)
    <3>1. j - Len(s) \in 1 .. Len(t) /\ e = t[j - Len(s)]
      BY <1>1, <1>3, <2>1, <2>3
    <3>2. QED
      BY <1>2, <3>1
  <2>4. QED
    BY <1>1, <2>1, <2>2, <2>3
<1>5. ASSUME NEW e \in ToSet(s)
      PROVE  e \in ToSet(u)
  <2>1. PICK j \in 1 .. Len(s) : e = s[j]
    BY <1>2, <1>5
  <2>2. j \in 1 .. Len(u) /\ u[j] = e
    BY <1>1, <1>3, <2>1
  <2>3. QED
    BY <1>2, <2>2
<1>6. ASSUME NEW e \in ToSet(t)
      PROVE  e \in ToSet(u)
  <2>1. PICK j \in 1 .. Len(t) : e = t[j]
    BY <1>2, <1>6
  <2>2. /\ Len(s) + j \in 1 .. Len(u) /\ ~(Len(s) + j <= Len(s))
        /\ Len(s) + j - Len(s) = j
    BY <1>1, <1>3, <2>1
  <2>3. u[Len(s) + j] = e
    BY <1>3, <2>1, <2>2
  <2>4. QED
    BY <1>2, <2>2, <2>3
<1>7. QED
  BY <1>4, <1>5, <1>6 DEF u

LEMMA SetOfAppended ==
  ASSUME NEW S, NEW s \in Seq(S), NEW e \in S
  PROVE  ToSet(Append(s, e)) = ToSet(s) \cup {e}
<1>1. /\ Append(s, e) = s \o <<e>> /\ <<e>> \in Seq(S)
  BY AppendIsConcat
<1>2. ToSet(<<e>>) = {e}
  <2>1. Len(<<e>>) = 1 /\ <<e>>[1] = e
    OBVIOUS
  <2>2. ToSet(<<e>>) = {<<e>>[j] : j \in 1 .. 1}
    BY <1>1, <2>1, SetOfSeq
  <2>3. QED
    BY <2>1, <2>2
<1>3. ToSet(s \o <<e>>) = ToSet(s) \cup ToSet(<<e>>)
  <2>1. \A t \in Seq(S) : ToSet(s \o t) = ToSet(s) \cup ToSet(t)
    BY SetOfJoined
  <2>2. <<e>> \in Seq(S)
    BY <1>1
  <2>3. QED
    BY <2>1, <2>2
<1>4. QED
  BY <1>1, <1>2, <1>3

LEMMA SetOfEmpty == ToSet(<<>>) = {}
<1>1. \A s \in Seq({}) : s = <<>> => ToSet(s) = {}
  <2>1. ASSUME NEW s \in Seq({})
        PROVE  ToSet(s) \subseteq {}
    BY SetOfSeq
  <2>2. QED
    BY <2>1
<1>2. <<>> \in Seq({})
  BY EmptySeq
<1>3. QED
  BY <1>1, <1>2

(* A record that was borne out before a step is so after it, unless the chapter's report *)
(* was torn: a report that is written only ever gives way to one of a later commit.      *)
LEMMA StaysBorne ==
  ASSUME TypeInv, Dated, NEW r \in Noted, Noted \subseteq Noted',
         \/ reports'[r.chapter] = reports[r.chapter]
         \/ reports'[r.chapter] = event /\ event \in Commit /\ event.n = applies
  PROVE  Borne(r)'
<1>1. r.n \in Nat /\ r.n <= applies /\ applies \in Nat /\ Borne(r)
  BY NotedTypes DEF Dated, TypeInv, Counters
<1>2. Disowned(r) => Disowned(r)'
  BY DEF Disowned
<1>3. CASE reports'[r.chapter] = reports[r.chapter]
  BY <1>1, <1>2, <1>3 DEF Borne, Succeeded
<1>4. CASE reports'[r.chapter] = event /\ event \in Commit /\ event.n = applies
  <2>1. event # NoCommit
    BY <1>4, NoCommitAssumption
  <2>2. QED
    BY <1>1, <1>4, <2>1 DEF Borne
<1>5. QED
  BY <1>3, <1>4

(* What a step does to the reports, and what it notes. *)
LEMMA ReportsStep ==
  ASSUME TypeInv, Dated, Next
  PROVE  \/ reports' = reports
         \/ /\ event \in Commit /\ event.n = applies /\ event.chapter \in Chapters
            /\ applies' = applies
            /\ reports' \in {[reports EXCEPT ![event.chapter] = event],
                             [reports EXCEPT ![event.chapter] = NoCommit]}
<1>1. CASE audit
  BY <1>1, CommitIsRecord
     DEF audit, write_report, Auditing, Running, Dispatching, TypeInv, Underway
<1>2. CASE ProjectionFails \/ Crash
  <2>1. reports' = reports \/ ((Auditing /\ TearReport) /\ applies' = applies)
    BY <1>2 DEF ProjectionFails, Crash
  <2>2. QED
    BY <2>1, CommitIsRecord
       DEF Auditing, TearReport, Running, Dispatching, TypeInv, Underway
<1>3. CASE ~audit /\ ~ProjectionFails /\ ~Crash
  BY <1>3 DEF Next, Author, Draft, WorkbenchApply, clear_hard_pause, Apply, Emit,
     AppendCommit, AppendTorn, AppendFails, Configure, register, unregister, SetEnabled,
     SetMode, Dispatch, Skip, ProjectOther, EndDispatch, Audit, WritePause, PauseFails
<1>4. QED
  BY <1>1, <1>2, <1>3

LEMMA ReportsDatedStep ==
  ASSUME TypeInv, Dated, Next
  PROVE  /\ applies \in Nat /\ applies' \in {applies, applies + 1}
         /\ \A c \in Chapters : reports'[c] # NoCommit => reports'[c].n <= applies'
<1>1. applies \in Nat /\ applies' \in {applies, applies + 1}
  BY DEF TypeInv, Counters, Next, Author, Draft, WorkbenchApply, clear_hard_pause, Apply,
     Emit, AppendCommit, AppendTorn, AppendFails, Configure, register, unregister,
     SetEnabled, SetMode, Dispatch, Skip, ProjectOther, ProjectionFails, EndDispatch,
     Audit, audit, write_report, WritePause, PauseFails, Crash
<1>2. \A c \in Chapters : reports[c] # NoCommit =>
        reports[c].n <= applies /\ reports[c].n \in Nat
  BY CommitIsRecord DEF Dated, TypeInv, Documents
<1>3. CASE reports' = reports
  BY <1>1, <1>2, <1>3
<1>4. CASE /\ event \in Commit /\ event.n = applies /\ event.chapter \in Chapters
           /\ applies' = applies
           /\ reports' \in {[reports EXCEPT ![event.chapter] = event],
                            [reports EXCEPT ![event.chapter] = NoCommit]}
  <2>1. ASSUME NEW c \in Chapters, reports'[c] # NoCommit
        PROVE  reports'[c].n <= applies'
    <3>1. reports'[c] \in {reports[c], event, NoCommit}
      BY <1>4 DEF TypeInv, Documents
    <3>2. reports'[c] = reports[c] \/ reports'[c] = event
      BY <2>1, <3>1
    <3>3. QED
      BY <1>1, <1>2, <1>4, <2>1, <3>2
  <2>2. QED
    BY <1>1, <2>1
<1>5. QED
  BY <1>3, <1>4, ReportsStep

(* A step that notes something about the commit under way, after its report was written, *)
(* torn or left as it was.                                                               *)
LEMMA NoteBorne ==
  ASSUME TypeInv, Dated, Next, at <= Len(registry), event \in Commit, event.n = applies,
         UNCHANGED <<history, applies>>,
         NEW status \in {"success", "failed", "skipped"}, Note(status),
         status = "success" /\ Current = GovernanceName => reports'[event.chapter] = event,
         \/ reports' = reports
         \/ reports' = [reports EXCEPT ![event.chapter] = event]
         \/ /\ reports' = [reports EXCEPT ![event.chapter] = NoCommit]
            /\ status = "failed" /\ Current = GovernanceName
  PROVE  \A r \in Noted' : r.n <= applies' /\ Borne(r)'
<1>1. PICK new \in Record :
        /\ new = [name |-> Current, n |-> event.n, chapter |-> event.chapter,
                  status |-> status]
        /\ records' = Append(records, new)
  <2>1. registry[at] \in Entry
    BY ElementOfSeq DEF TypeInv, Dispatches
  <2>2. [name |-> Current, n |-> event.n, chapter |-> event.chapter, status |-> status]
          \in Record
    BY <2>1, CommitIsRecord DEF Record, Entry, Current
  <2>3. QED
    BY <2>2 DEF Note
<1>2. /\ new.n = applies /\ new.chapter = event.chapter /\ event.chapter \in Chapters
      /\ new.name = Current /\ new.status = status
  BY <1>1, CommitIsRecord
<1>3. Noted' = Noted \cup {new}
  <2>1. records \in Seq(Record) /\ records' = Append(records, new)
    BY <1>1 DEF TypeInv, Dispatches
  <2>2. ToSet(records') = ToSet(records) \cup {new}
    BY <2>1, SetOfAppended
  <2>3. QED
    BY <2>2 DEF Noted
<1>4. applies \in Nat /\ \A r \in Noted : r.n \in Nat /\ r.n <= applies
                                          /\ r.chapter \in Chapters
  BY NotedTypes DEF Dated, TypeInv, Counters
<1>5. Borne(new)'
  <2>1. Succeeded(new) => reports'[new.chapter] = event
    BY <1>2 DEF Succeeded
  <2>2. event # NoCommit
    BY NoCommitAssumption
  <2>3. QED
    BY <1>2, <1>4, <2>1, <2>2 DEF Borne, Succeeded
<1>6. ASSUME NEW r \in Noted
      PROVE  Borne(r)'
  <2>1. CASE r.chapter # event.chapter
    <3>1. reports'[r.chapter] = reports[r.chapter]
      BY <1>4, <2>1 DEF TypeInv, Documents
    <3>2. QED
      BY <1>3, <3>1, StaysBorne
  <2>2. CASE reports' = reports
    BY <1>3, <2>2, StaysBorne
  <2>3. CASE r.chapter = event.chapter /\ reports' = [reports EXCEPT ![event.chapter] = event]
    <3>1. reports'[r.chapter] = event
      BY <1>4, <2>3 DEF TypeInv, Documents
    <3>2. QED
      BY <1>3, <3>1, StaysBorne
  <2>4. CASE r.chapter = event.chapter /\ status = "failed" /\ Current = GovernanceName
    <3>1. Disowned(r)'
      BY <1>2, <1>3, <1>4, <2>4 DEF Disowned
    <3>2. QED
      BY <3>1 DEF Borne
  <2>5. QED
    BY <2>1, <2>2, <2>3, <2>4
<1>7. QED
  BY <1>2, <1>3, <1>4, <1>5, <1>6

(* The steps that note nothing: a report may be written, nothing is forgotten. *)
LEMMA QuietBorne ==
  ASSUME TypeInv, Dated, Next, Noted' = Noted,
         \/ reports' = reports
         \/ /\ event \in Commit /\ event.n = applies
            /\ reports' = [reports EXCEPT ![event.chapter] = event]
  PROVE  \A r \in Noted' : r.n <= applies' /\ Borne(r)'
<1>1. ASSUME NEW r \in Noted
      PROVE  r.n <= applies' /\ Borne(r)'
  <2>1. r.n \in Nat /\ r.n <= applies /\ r.chapter \in Chapters
    BY NotedTypes DEF Dated
  <2>2. r.n <= applies'
    BY <2>1, ReportsDatedStep
  <2>3. \/ reports'[r.chapter] = reports[r.chapter]
        \/ reports'[r.chapter] = event /\ event \in Commit /\ event.n = applies
    BY <2>1 DEF TypeInv, Documents
  <2>4. Borne(r)'
    BY <2>3, StaysBorne
  <2>5. QED
    BY <2>2, <2>4
<1>2. QED
  BY <1>1

LEMMA DatedStep ==
  ASSUME TypeInv, Dated, Next
  PROVE  Dated'
<1>1. ASSUME NEW status \in {"success", "failed", "skipped"}, Note(status),
             pc \in {"dispatching", "pausing"}, at <= Len(registry),
             UNCHANGED <<history, applies>>,
             status = "success" /\ Current = GovernanceName =>
               reports'[event.chapter] = event,
             \/ reports' = reports
             \/ reports' = [reports EXCEPT ![event.chapter] = event]
             \/ Auditing /\ TearReport /\ status = "failed"
      PROVE  \A r \in Noted' : r.n <= applies' /\ Borne(r)'
  <2>1. event \in Commit /\ event.n = applies
    BY <1>1 DEF TypeInv, Underway
  <2>2. \/ reports' = reports
        \/ reports' = [reports EXCEPT ![event.chapter] = event]
        \/ /\ reports' = [reports EXCEPT ![event.chapter] = NoCommit]
           /\ status = "failed" /\ Current = GovernanceName
    BY <1>1 DEF Auditing, TearReport
  <2>3. QED
    BY <1>1, <2>1, <2>2, NoteBorne
<1>2. CASE Skip \/ ProjectOther
  <2>1. /\ pc = "dispatching" /\ at <= Len(registry) /\ UNCHANGED <<history, applies, reports>>
    BY <1>2 DEF Skip, ProjectOther, Running, Dispatching
  <2>2. Note("skipped") \/ (Note("success") /\ Current # GovernanceName)
    BY <1>2 DEF Skip, ProjectOther
  <2>3. \A r \in Noted' : r.n <= applies' /\ Borne(r)'
    BY <1>1, <2>1, <2>2
  <2>4. QED
    BY <2>3, ReportsDatedStep DEF Dated
<1>3. CASE ProjectionFails
  <2>1. /\ pc = "dispatching" /\ at <= Len(registry) /\ UNCHANGED <<history, applies>>
        /\ Note("failed") /\ ((Auditing /\ TearReport) \/ reports' = reports)
    BY <1>3 DEF ProjectionFails, Running, Dispatching
  <2>2. \A r \in Noted' : r.n <= applies' /\ Borne(r)'
    BY <1>1, <2>1
  <2>3. QED
    BY <2>2, ReportsDatedStep DEF Dated
<1>4. CASE WritePause \/ PauseFails
  <2>1. /\ pc = "pausing" /\ at <= Len(registry) /\ UNCHANGED <<history, applies, reports>>
        /\ reports[event.chapter] = event
    BY <1>4 DEF WritePause, PauseFails, TypeInv, Dispatches
  <2>2. Note("success") \/ Note("failed")
    BY <1>4 DEF WritePause, PauseFails
  <2>3. \A r \in Noted' : r.n <= applies' /\ Borne(r)'
    BY <1>1, <2>1, <2>2
  <2>4. QED
    BY <2>3, ReportsDatedStep DEF Dated
<1>5. CASE audit
  <2>1. /\ pc = "dispatching" /\ at <= Len(registry) /\ UNCHANGED <<history, applies>>
        /\ reports' = [reports EXCEPT ![event.chapter] = event]
        /\ event \in Commit /\ event.n = applies /\ event.chapter \in Chapters
    BY <1>5, CommitIsRecord
       DEF audit, write_report, Auditing, Running, Dispatching, TypeInv, Underway
  <2>2. reports'[event.chapter] = event
    BY <2>1 DEF TypeInv, Documents
  <2>3. CASE Note("success")
    <3>1. \A r \in Noted' : r.n <= applies' /\ Borne(r)'
      BY <1>1, <2>1, <2>2, <2>3
    <3>2. QED
      BY <3>1, ReportsDatedStep DEF Dated
  <2>4. CASE records' = records
    <3>1. Noted' = Noted
      BY <2>1, <2>4 DEF Noted
    <3>2. \A r \in Noted' : r.n <= applies' /\ Borne(r)'
      BY <2>1, <3>1, QuietBorne
    <3>3. QED
      BY <3>2, ReportsDatedStep DEF Dated
  <2>5. QED
    BY <1>5, <2>3, <2>4 DEF audit
<1>6. CASE Crash
  <2>1. history' = <<>> /\ records' = <<>>
    BY <1>6 DEF Crash
  <2>2. Noted' = {}
    BY <2>1, SetOfEmpty DEF Noted
  <2>3. QED
    BY <2>2, ReportsDatedStep DEF Dated
<1>7. CASE EndDispatch
  <2>1. history' = history \o records /\ records' = <<>> /\ reports' = reports
    BY <1>7 DEF EndDispatch
  <2>2. history \in Seq(Record) /\ records \in Seq(Record)
    BY DEF TypeInv, Dispatches
  <2>3. ToSet(history \o records) = ToSet(history) \cup ToSet(records)
    BY <2>2, SetOfJoined
  <2>4. Noted' = Noted
    BY <2>1, <2>3, SetOfEmpty DEF Noted
  <2>5. QED
    BY <2>1, <2>4, QuietBorne, ReportsDatedStep DEF Dated
<1>8. CASE Author \/ Configure \/ Emit
  <2>1. UNCHANGED <<history, reports>>
    BY <1>8 DEF Author, Draft, WorkbenchApply, clear_hard_pause, Apply, Emit, AppendCommit,
       AppendTorn, AppendFails, Configure, register, unregister, SetEnabled, SetMode
  <2>2. records' = records
    BY <1>8 DEF Author, Draft, WorkbenchApply, clear_hard_pause, Apply, Emit, AppendCommit,
       AppendTorn, AppendFails, Configure, register, unregister, SetEnabled, SetMode,
       TypeInv, Dispatches
  <2>3. Noted' = Noted
    BY <2>1, <2>2 DEF Noted
  <2>4. QED
    BY <2>1, <2>3, QuietBorne, ReportsDatedStep DEF Dated
<1>9. QED
  BY <1>2, <1>3, <1>4, <1>5, <1>6, <1>7, <1>8 DEF Next, Dispatch, Audit

(* What governance has noted as a success and not disowned since is on disk; what was     *)
(* blocked stays paused until the author overrides it or a rewrite of the pause is cut    *)
(* short; for any arcs, projections, applies, failed and torn writes and deaths.          *)
THEOREM SuccessesAreOnDisk == Spec => []SuccessIsOnDisk
<1>1. Init => Dated /\ Kept
  <2> SUFFICES ASSUME Init
               PROVE  Dated /\ Kept
    OBVIOUS
  <2>1. Noted = {}
    BY SetOfEmpty DEF Init, Noted
  <2>2. QED
    BY <2>1 DEF Init, Dated, Kept
<1>2. TypeInv /\ Dated /\ Kept /\ [Next]_vars => (Dated /\ Kept)'
  <2>1. Dated /\ UNCHANGED vars => Dated'
    BY DEF vars, Dated, Borne, Succeeded, Disowned, Noted
  <2>2. Kept /\ UNCHANGED vars => Kept'
    BY DEF vars, Kept
  <2>3. QED
    BY <2>1, <2>2, DatedStep, KeptStep
<1>3. TypeInv /\ Kept => \A b \in blocked \ (overridden \cup tornPauses) :
                           b \in pauses /\ check_hard_pause(b[1])
  <2>1. SUFFICES ASSUME TypeInv, Kept, NEW b \in blocked \ (overridden \cup tornPauses)
                 PROVE  b \in pauses /\ check_hard_pause(b[1])
    OBVIOUS
  <2>2. b \in pauses
    BY <2>1 DEF Kept
  <2>3. pauses \subseteq Arcs \X Chapters
    BY <2>1 DEF TypeInv, Documents
  <2>4. b[2] \in Chapters /\ b = <<b[1], b[2]>>
    BY <2>2, <2>3
  <2>5. QED
    BY <2>2, <2>4 DEF check_hard_pause
<1>4. TypeInv /\ Dated /\ Kept => SuccessIsOnDisk
  BY <1>3 DEF Dated, Borne, SuccessIsOnDisk
<1>5. QED
  BY <1>1, <1>2, <1>4, Types, PTL DEF Spec

-----------------------------------------------------------------------------
(****************************************************************************)
(* The log.  A line without its end costs what is appended next, and the    *)
(* commit in it if it has one: so many commits are still to be written off. *)
(****************************************************************************)
Exposed == IF ~TailOpen THEN 0 ELSE IF Len(lines) \in load_all THEN 2 ELSE 1
Emitting == IF pc = "emitting" THEN 1 ELSE 0

InOrder ==
  /\ \A j, k \in load_all : j < k => lines[j].commit.n < lines[k].commit.n
  /\ \A j \in load_all : lines[j].commit.n + Emitting <= applies

Accounted == applies + Exposed <= Cardinality(load_all) + 2 * tears + lost + Emitting

LEMMA Readable ==
  ASSUME lines \in Seq(Line)
  PROVE  /\ Len(lines) \in Nat /\ IsFiniteSet(load_all) /\ Cardinality(load_all) \in Nat
         /\ \A j \in load_all : j \in 1 .. Len(lines) /\ lines[j].commit \in Commit
                                /\ lines[j].commit.n \in Nat
<1>1. Len(lines) \in Nat /\ \A j \in 1 .. Len(lines) : lines[j] \in Line
  BY LenProperties, ElementOfSeq
<1>2. IsFiniteSet(1 .. Len(lines)) /\ load_all \subseteq 1 .. Len(lines)
  BY <1>1, FS_Interval DEF load_all
<1>3. IsFiniteSet(load_all) /\ Cardinality(load_all) \in Nat
  BY <1>2, FS_Subset, FS_CardinalityType
<1>4. \A j \in load_all : lines[j].commit \in Commit
  BY <1>1 DEF load_all, Line
<1>5. QED
  BY <1>1, <1>2, <1>3, <1>4, CommitIsRecord

(* What one append does to the lines that can be read. *)
LEMMA AppendToOpenTail ==
  ASSUME lines \in Seq(Line), TailOpen, NEW c \in Commit \cup {NoCommit}, NEW ended \in BOOLEAN,
         lines' = Written(c, ended)
  PROVE  /\ load_all' = load_all \ {Len(lines)} /\ Len(lines') = Len(lines)
         /\ \A j \in load_all' : lines'[j] = lines[j]
         /\ TailOpen' <=> ~ended
<1>1. Len(lines) \in 1 .. Len(lines)
  BY EmptySeq, LenProperties DEF TailOpen
<1> DEFINE new == [commit |-> NoCommit, ended |-> ended]
<1>2. new \in Line /\ new.commit = NoCommit /\ new.ended = ended
  BY DEF Line
<1> HIDE DEF new
<1>3. lines' = [lines EXCEPT ![Len(lines)] = new]
  BY DEF Written, new
<1>4. /\ lines' \in Seq(Line) /\ Len(lines') = Len(lines)
      /\ \A j \in 1 .. Len(lines) :
           lines'[j] = IF j = Len(lines) THEN new ELSE lines[j]
  BY <1>1, <1>2, <1>3, ExceptSeq
<1>5. load_all' = {j \in 1 .. Len(lines') : lines'[j].commit # NoCommit}
  BY DEF load_all
<1>6. load_all' = load_all \ {Len(lines)}
  BY <1>1, <1>2, <1>4, <1>5 DEF load_all
<1>7. TailOpen' <=> ~ended
  <2>1. lines' # <<>>
    BY <1>1, <1>4, EmptySeq
  <2>2. lines'[Len(lines')].ended = ended
    BY <1>1, <1>2, <1>4
  <2>3. QED
    BY <2>1, <2>2 DEF TailOpen
<1>8. \A j \in load_all' : lines'[j] = lines[j]
  BY <1>4, <1>5, <1>6
<1>9. QED
  BY <1>4, <1>6, <1>7, <1>8

LEMMA AppendToClosedTail ==
  ASSUME lines \in Seq(Line), ~TailOpen, NEW c \in Commit \cup {NoCommit},
         NEW ended \in BOOLEAN, lines' = Written(c, ended)
  PROVE  /\ Len(lines) \in Nat /\ Len(lines') = Len(lines) + 1
         /\ load_all' = IF c = NoCommit THEN load_all ELSE load_all \cup {Len(lines) + 1}
         /\ \A j \in load_all : lines'[j] = lines[j]
         /\ lines'[Len(lines) + 1].commit = c
         /\ TailOpen' <=> ~ended
<1> DEFINE new == [commit |-> c, ended |-> ended]
<1>1. new \in Line /\ new.commit = c /\ new.ended = ended
  BY DEF Line
<1> HIDE DEF new
<1>2. lines' = Append(lines, new)
  BY DEF Written, new
<1>3. /\ Len(lines) \in Nat /\ lines' \in Seq(Line) /\ Len(lines') = Len(lines) + 1
      /\ \A j \in 1 .. Len(lines) : lines'[j] = lines[j]
      /\ lines'[Len(lines) + 1] = new
  BY <1>1, <1>2, AppendProperties, LenProperties
<1>4. load_all' = {j \in 1 .. Len(lines') : lines'[j].commit # NoCommit}
  BY DEF load_all
<1>5. \A j : j \in 1 .. Len(lines') <=> j \in 1 .. Len(lines) \/ j = Len(lines) + 1
  BY <1>3
<1>6. load_all' = IF c = NoCommit THEN load_all ELSE load_all \cup {Len(lines) + 1}
  BY <1>1, <1>3, <1>4, <1>5 DEF load_all
<1>7. TailOpen' <=> ~ended
  <2>1. lines' # <<>>
    BY <1>3, EmptySeq
  <2>2. QED
    BY <1>1, <1>3, <2>1 DEF TailOpen
<1>8. \A j \in load_all : lines'[j] = lines[j]
  BY <1>3 DEF load_all
<1>9. QED
  BY <1>1, <1>3, <1>6, <1>7, <1>8

(* The count of the lines that can be read follows. *)
LEMMA AppendCounts ==
  ASSUME lines \in Seq(Line), NEW c \in Commit \cup {NoCommit}, NEW ended \in BOOLEAN,
         lines' = Written(c, ended)
  PROVE  /\ Cardinality(load_all') \in Nat
         /\ TailOpen /\ Len(lines) \in load_all
              => Cardinality(load_all) = Cardinality(load_all') + 1
         /\ TailOpen /\ Len(lines) \notin load_all
              => Cardinality(load_all) = Cardinality(load_all')
         /\ ~TailOpen /\ c = NoCommit => Cardinality(load_all') = Cardinality(load_all)
         /\ ~TailOpen /\ c # NoCommit => Cardinality(load_all') = Cardinality(load_all) + 1
<1>1. IsFiniteSet(load_all) /\ Cardinality(load_all) \in Nat /\ Len(lines) \in Nat
      /\ \A j \in load_all : j \in 1 .. Len(lines)
  BY Readable
<1>2. CASE TailOpen
  <2>1. load_all' = load_all \ {Len(lines)}
    BY <1>2, AppendToOpenTail
  <2>2. /\ IsFiniteSet(load_all \ {Len(lines)})
        /\ Cardinality(load_all \ {Len(lines)}) =
             IF Len(lines) \in load_all THEN Cardinality(load_all) - 1 ELSE Cardinality(load_all)
    BY <1>1, FS_RemoveElement
  <2>3. Cardinality(load_all \ {Len(lines)}) \in Nat
    BY <2>2, FS_CardinalityType
  <2>4. QED
    BY <1>1, <1>2, <2>1, <2>2, <2>3
<1>3. CASE ~TailOpen
  <2>1. load_all' = IF c = NoCommit THEN load_all ELSE load_all \cup {Len(lines) + 1}
    BY <1>3, AppendToClosedTail
  <2>2. Len(lines) + 1 \notin load_all
    BY <1>1
  <2>3. Cardinality(load_all \cup {Len(lines) + 1}) = Cardinality(load_all) + 1
    BY <1>1, <2>2, FS_AddElement
  <2>4. QED
    BY <1>1, <1>3, <2>1, <2>3
<1>4. QED
  BY <1>2, <1>3

(* A commit may join the log if it is later than all that can be read there. *)
LEMMA AppendKeepsOrder ==
  ASSUME lines \in Seq(Line), applies \in Nat, InOrder, Emitting = 1, UNCHANGED applies,
         Emitting' = 0,
         NEW c \in Commit \cup {NoCommit}, c # NoCommit => c.n = applies,
         NEW ended \in BOOLEAN, lines' = Written(c, ended)
  PROVE  InOrder'
<1>1. \A j \in load_all : j \in 1 .. Len(lines) /\ lines[j].commit.n \in Nat
  BY Readable
<1>2. \A j \in load_all : lines[j].commit.n < applies
  BY <1>1 DEF InOrder
<1>3. CASE TailOpen
  <2>1. load_all' \subseteq load_all /\ \A j \in load_all' : lines'[j] = lines[j]
    BY <1>3, AppendToOpenTail
  <2>2. QED
    BY <1>1, <1>2, <2>1 DEF InOrder
<1>4. CASE ~TailOpen
  <2>1. /\ Len(lines) \in Nat
        /\ load_all' = IF c = NoCommit THEN load_all ELSE load_all \cup {Len(lines) + 1}
        /\ \A j \in load_all : lines'[j] = lines[j]
        /\ lines'[Len(lines) + 1].commit = c
    BY <1>4, AppendToClosedTail
  <2>2. CASE c = NoCommit
    BY <1>1, <1>2, <2>1, <2>2 DEF InOrder
  <2>3. CASE c # NoCommit
    <3>1. \A j \in load_all' :
            \/ j \in load_all /\ lines'[j] = lines[j] /\ j < Len(lines) + 1
            \/ j = Len(lines) + 1 /\ lines'[j].commit.n = applies
      BY <1>1, <2>1, <2>3
    <3>2. \A j, k \in load_all' : j < k => lines'[j].commit.n < lines'[k].commit.n
      BY <1>1, <1>2, <2>1, <3>1 DEF InOrder
    <3>3. \A j \in load_all' : lines'[j].commit.n <= applies
      BY <1>1, <1>2, <3>1
    <3>4. \A j \in load_all' : lines'[j].commit.n \in Nat
      BY <1>1, <3>1
    <3>5. QED
      BY <3>2, <3>3, <3>4 DEF InOrder
  <2>4. QED
    BY <2>2, <2>3
<1>5. QED
  BY <1>3, <1>4

(* Where the log is left alone, an apply or its end shifts the account. *)
LEMMA LogStep ==
  ASSUME TypeInv, InOrder, Accounted, Next
  PROVE  InOrder' /\ Accounted'
<1>1. /\ lines \in Seq(Line) /\ applies \in Nat /\ tears \in Nat /\ lost \in Nat
      /\ IsFiniteSet(load_all) /\ Cardinality(load_all) \in Nat
      /\ \A j \in load_all : lines[j].commit.n \in Nat
  BY Readable DEF TypeInv, Counters
<1>2. ASSUME lines' = lines
      PROVE  load_all' = load_all /\ Exposed' = Exposed
  BY <1>2 DEF load_all, Exposed, TailOpen
<1>3. Exposed \in {0, 1, 2} /\ Emitting \in {0, 1} /\ Emitting' \in {0, 1}
  BY DEF Exposed, Emitting
<1>4. CASE \E a \in Arcs : \E S \in SUBSET drafts[a] : Apply(a, S)
  <2>1. /\ UNCHANGED <<lines, tears, lost>> /\ applies' = applies + 1
        /\ Emitting = 0 /\ Emitting' = 1
    BY <1>4 DEF Apply, Emitting
  <2>2. load_all' = load_all /\ Exposed' = Exposed /\ lines' = lines
    BY <1>2, <2>1
  <2>3. InOrder'
    BY <1>1, <2>1, <2>2 DEF InOrder
  <2>4. Accounted'
    BY <1>1, <1>3, <2>1, <2>2 DEF Accounted
  <2>5. QED
    BY <2>3, <2>4
<1>5. CASE AppendCommit
  <2>1. /\ Emitting = 1 /\ Emitting' = 0 /\ event \in Commit /\ event.n = applies
        /\ lines' = Written(event, TRUE) /\ UNCHANGED <<applies, tears, lost>>
    BY <1>5 DEF AppendCommit, Emitting, TypeInv, Underway
  <2>2. InOrder'
    BY <1>1, <2>1, AppendKeepsOrder
  <2>3. Exposed' = 0
    BY <1>1, <2>1, AppendToOpenTail, AppendToClosedTail DEF Exposed
  <2>4. event # NoCommit
    BY <2>1, NoCommitAssumption
  <2>5. /\ Cardinality(load_all') \in Nat
        /\ Exposed = 2 => Cardinality(load_all) = Cardinality(load_all') + 1
        /\ Exposed = 1 => Cardinality(load_all) = Cardinality(load_all')
        /\ Exposed = 0 => Cardinality(load_all') = Cardinality(load_all) + 1
    <3>1. /\ Cardinality(load_all') \in Nat
          /\ TailOpen /\ Len(lines) \in load_all
               => Cardinality(load_all) = Cardinality(load_all') + 1
          /\ TailOpen /\ Len(lines) \notin load_all
               => Cardinality(load_all) = Cardinality(load_all')
          /\ ~TailOpen => Cardinality(load_all') = Cardinality(load_all) + 1
      BY <1>1, <2>1, <2>4, AppendCounts
    <3>2. QED
      BY <3>1 DEF Exposed
  <2>6. QED
    BY <1>1, <1>3, <2>1, <2>2, <2>3, <2>5 DEF Accounted
<1>6. CASE AppendTorn
  <2>1. /\ Emitting = 1 /\ Emitting' = 0 /\ event \in Commit /\ event.n = applies
        /\ UNCHANGED <<applies, lost>> /\ tears' = tears + 1
    BY <1>6 DEF AppendTorn, Emitting, TypeInv, Underway
  <2>2. PICK c \in {event, NoCommit} : lines' = Written(c, FALSE)
    BY <1>6 DEF AppendTorn
  <2>3. InOrder'
    BY <1>1, <2>1, <2>2, AppendKeepsOrder
  <2>4. CASE TailOpen
    <3>1. /\ load_all' = load_all \ {Len(lines)} /\ Len(lines') = Len(lines)
          /\ TailOpen'
      BY <1>1, <2>1, <2>2, <2>4, AppendToOpenTail
    <3>2. Exposed' = 1
      BY <3>1 DEF Exposed
    <3>3. /\ Cardinality(load_all') \in Nat /\ Exposed \in {1, 2}
          /\ Exposed = 2 => Cardinality(load_all) = Cardinality(load_all') + 1
          /\ Exposed = 1 => Cardinality(load_all) = Cardinality(load_all')
      <4>1. /\ Cardinality(load_all') \in Nat
            /\ Len(lines) \in load_all
                 => Cardinality(load_all) = Cardinality(load_all') + 1
            /\ Len(lines) \notin load_all
                 => Cardinality(load_all) = Cardinality(load_all')
        BY <1>1, <2>1, <2>2, <2>4, AppendCounts
      <4>2. QED
        BY <2>4, <4>1 DEF Exposed
    <3>4. QED
      BY <1>1, <1>3, <2>1, <2>3, <3>2, <3>3 DEF Accounted
  <2>5. CASE ~TailOpen
    <3>1. /\ load_all' = IF c = NoCommit THEN load_all ELSE load_all \cup {Len(lines) + 1}
          /\ Len(lines) \in Nat /\ Len(lines') = Len(lines) + 1 /\ TailOpen'
      BY <1>1, <2>1, <2>2, <2>5, AppendToClosedTail
    <3>2. Exposed' = IF c = NoCommit THEN 1 ELSE 2
      <4>1. Len(lines) + 1 \notin load_all
        BY <1>1, Readable
      <4>2. QED
        BY <3>1, <4>1 DEF Exposed
    <3>3. /\ Cardinality(load_all') \in Nat
          /\ c = NoCommit => Cardinality(load_all') = Cardinality(load_all)
          /\ c # NoCommit => Cardinality(load_all') = Cardinality(load_all) + 1
      BY <1>1, <2>1, <2>2, <2>5, AppendCounts
    <3>4. Exposed = 0
      BY <2>5 DEF Exposed
    <3>5. applies \in Nat /\ tears \in Nat /\ lost \in Nat /\ Cardinality(load_all) \in Nat
      BY <1>1
    <3>6. applies <= Cardinality(load_all) + 2 * tears + lost + 1
      BY <2>1, <3>4, <3>5 DEF Accounted
    <3>7. CASE c = NoCommit
      <4>1. Exposed' = 1 /\ Cardinality(load_all') = Cardinality(load_all)
        BY <3>2, <3>3, <3>7
      <4>2. applies + Exposed' <= Cardinality(load_all') + 2 * (tears + 1) + lost
        BY <3>5, <3>6, <4>1
      <4>3. QED
        BY <2>1, <2>3, <3>5, <4>1, <4>2 DEF Accounted
    <3>8. CASE c # NoCommit
      <4>1. Exposed' = 2 /\ Cardinality(load_all') = Cardinality(load_all) + 1
        BY <3>2, <3>3, <3>8
      <4>2. applies + Exposed' <= Cardinality(load_all') + 2 * (tears + 1) + lost
        BY <3>5, <3>6, <4>1
      <4>3. QED
        BY <2>1, <2>3, <3>5, <4>1, <4>2 DEF Accounted
    <3>9. QED
      BY <3>7, <3>8
  <2>6. QED
    BY <2>4, <2>5
<1>7. CASE AppendFails \/ Crash
  <2>1. /\ UNCHANGED <<lines, applies, tears>> /\ Emitting' = 0 /\ lost' = lost + Emitting
    BY <1>1, <1>7 DEF AppendFails, Crash, Emitting
  <2>2. load_all' = load_all /\ Exposed' = Exposed
    BY <1>2, <2>1
  <2>3. InOrder'
    BY <1>1, <1>3, <2>1, <2>2 DEF InOrder
  <2>4. Accounted'
    BY <1>1, <1>3, <2>1, <2>2 DEF Accounted
  <2>5. QED
    BY <2>3, <2>4
<1>8. CASE /\ ~AppendCommit /\ ~AppendTorn /\ ~AppendFails /\ ~Crash
           /\ ~\E a \in Arcs : \E S \in SUBSET drafts[a] : Apply(a, S)
  <2>1. UNCHANGED <<lines, applies, tears, lost>> /\ Emitting' = Emitting
    BY <1>8 DEF Next, Author, Draft, WorkbenchApply, clear_hard_pause, Emit, Configure, register,
       unregister, SetEnabled, SetMode, Dispatch, Skip, ProjectOther, ProjectionFails,
       EndDispatch, Audit, audit, write_report, WritePause, PauseFails, Dispatching, Running,
       Auditing, Emitting
  <2>2. QED
    BY <1>1, <1>2, <1>3, <2>1 DEF InOrder, Accounted
<1>9. QED
  BY <1>4, <1>5, <1>6, <1>7, <1>8

(* A torn append costs at most its own commit and the next one, and what is left is in *)
(* the order of the applies, for any number of applies, tears, failures and deaths.    *)
THEOREM TearsAreBounded == Spec => []TearsLoseAtMostTwo
<1>1. Init => InOrder /\ Accounted
  <2> SUFFICES ASSUME Init
               PROVE  InOrder /\ Accounted
    OBVIOUS
  <2>1. load_all = {} /\ ~TailOpen
    BY EmptySeq DEF Init, load_all, TailOpen
  <2>2. Cardinality(load_all) = 0
    BY <2>1, FS_EmptySet
  <2>3. QED
    BY <2>1, <2>2 DEF Init, InOrder, Accounted, Exposed, Emitting
<1>2. TypeInv /\ InOrder /\ Accounted /\ [Next]_vars => (InOrder /\ Accounted)'
  <2>1. InOrder /\ Accounted /\ UNCHANGED vars => (InOrder /\ Accounted)'
    BY DEF vars, InOrder, Accounted, Exposed, Emitting, load_all, TailOpen
  <2>2. QED
    BY <2>1, LogStep
<1>3. TypeInv /\ InOrder /\ Accounted => TearsLoseAtMostTwo
  <2> SUFFICES ASSUME TypeInv, InOrder, Accounted
               PROVE  TearsLoseAtMostTwo
    OBVIOUS
  <2>1. applies \in Nat /\ tears \in Nat /\ lost \in Nat /\ Cardinality(load_all) \in Nat
    BY Readable DEF TypeInv, Counters
  <2>2. Exposed \in {0, 1, 2}
    BY DEF Exposed
  <2>3. QED
    BY <2>1, <2>2 DEF InOrder, Accounted, TearsLoseAtMostTwo, Emitting
<1>4. QED
  BY <1>1, <1>2, <1>3, Types, PTL DEF Spec
===============================================================================
