----------------------------- MODULE AtomicApply -----------------------------
(***************************************************************************)
(* AtomicApplyManager.apply, the only writer of the project's facts: it    *)
(* snapshots the ledgers and the canon, promotes the drafts, appends the   *)
(* ledger operations, writes the character cards and the apply record,     *)
(* remembers the diff's hash as consumed, and on any exception copies the  *)
(* snapshot back.  Every file operation is a step of its own: it may fail, *)
(* the process may die before the next one, and calls made under different *)
(* locks interleave.                                                       *)
(*                                                                         *)
(* A ledger entry is represented by the operation that appended it, so     *)
(* count[o] is how often o's data occurs in its ledger file; a chapter or  *)
(* a card by the diff that wrote it.  The order of the entries within a    *)
(* file is left out.                                                       *)
(***************************************************************************)
EXTENDS Naturals, LedgerRules

CONSTANTS
  Caller,      \* threads (or processes) that call apply()
  Manager,     \* AtomicApplyManager instances
  Arc,         \* arc ids
  Diff,        \* ledger diffs, identified by their hash
  Op,          \* the operations of all the diffs
  Chapter,     \* chapter file names
  Character,   \* character ids
  DiffInfo,    \* [Diff -> [arc, schema, drafts, cards]]
  EventId,     \* event_id values
  OpInfo,      \* [Op -> [diff, target, operation, source, derived, from, to, event]]
  Gate,        \* the gate records callers present
  Seeded,      \* ledgers whose file exists, with an "events" list, at the start
  NoDiff, NoCaller, NoOp, NoEvent,
  MaxCalls,    \* bound: calls of apply() in one behaviour
  MaxFaults    \* bound: crashes, failing rollbacks, torn consumed_hashes.json

ASSUME DiffAssumption ==
  DiffInfo \in [Diff -> [arc : Arc, schema : STRING,
                         drafts : SUBSET Chapter, cards : SUBSET Character]]
ASSUME OpAssumption ==
  OpInfo \in [Op -> [diff : Diff, target : STRING, operation : STRING,
                     source : {"none", "draft", "derived"}, derived : BOOLEAN,
                     from : STRING, to : STRING, event : EventId \cup {NoEvent}]]
ASSUME NullAssumption ==
  NoDiff \notin Diff /\ NoCaller \notin Caller /\ NoOp \notin Op
ASSUME DisjointAssumption ==
  Chapter \cap Op = {} /\ Op \cap Character = {} /\ Chapter \cap Character = {}
ASSUME SeedAssumption == Seeded \subseteq Ledger

VARIABLES
  file, count,   \* ledgers/: the shape of each file, the entries in it
  manuscript,    \* canon/manuscript
  cards,         \* canon/characters
  snapFile, snapCount, snapManuscript, snapCards,
                 \* arcs/<arc>/archive/snapshot_<hash>, one per diff
  record,        \* arcs/<arc>/reports/apply_record.json
  consumedFile,  \* workspace/consumed_hashes.json
  commits,       \* diffs with an event in the chapter commit log
  consumed,      \* self._consumed of each manager
  lock,          \* the LockManager of each manager: holder of apply_<arc>
  pc, mgr, diff, \* where each caller is, on which manager, applying what
  todo,          \* the chapters, operations and cards it still has to write
  pre,           \* its pre_existing_ledgers
  bufOp, bufFile, bufCount,
                 \* the ledger file it has read and not yet written back
  applied,       \* history: the diffs that reached their commit point
  forgotten,     \* history: those of them whose hash a torn save lost
  calls, faults  \* counters for the two bounds

diskVars == <<file, count, manuscript, cards>>
snapVars == <<snapFile, snapCount, snapManuscript, snapCards>>
markVars == <<record, consumedFile, commits>>
bufVars  == <<bufOp, bufFile, bufCount>>
fileVars == <<diskVars, snapVars, markVars>>
callVars == <<mgr, diff, todo, pre, bufVars>>
histVars == <<applied, forgotten>>
vars == <<fileVars, consumed, lock, pc, callVars, histVars, calls, faults>>

-----------------------------------------------------------------------------
Shape == {"absent", "events", "entries"}   \* which list the ledger file has

Stages == {"idle", "locking", "checking", "snapshot", "snapshot_canon",
           "writing", "appending", "saving", "emitting",
           "restoring", "restoring_canon"}

(* Stages spent inside `with self._lock_manager.hold(...)`. *)
Critical == Stages \ {"idle", "locking"}

(* Stages in which the store may differ from the one apply() found. *)
Changing == {"writing", "appending", "saving", "restoring", "restoring_canon"}

OpsOf(d) == {o \in Op : OpInfo[o].diff = d}
DraftsOf(d) == DiffInfo[d].drafts
CardsOf(d) == DiffInfo[d].cards
Target(o) == OpInfo[o].target
Event(o) == OpInfo[o].event
ArcOf(c) == DiffInfo[diff[c]].arc
Busy(c) == pc[c] # "idle"

Init ==
  /\ file = [l \in Ledger |-> IF l \in Seeded THEN "events" ELSE "absent"]
  /\ count = [o \in Op |-> 0]
  /\ manuscript = [ch \in Chapter |-> NoDiff]
  /\ cards = [k \in Character |-> NoDiff]
  /\ snapFile = [d \in Diff |-> [l \in Ledger |-> "absent"]]
  /\ snapCount = [d \in Diff |-> [o \in Op |-> 0]]
  /\ snapManuscript = [d \in Diff |-> [ch \in Chapter |-> NoDiff]]
  /\ snapCards = [d \in Diff |-> [k \in Character |-> NoDiff]]
  /\ record = [a \in Arc |-> NoDiff]
  /\ consumedFile = {}
  /\ commits = {}
  /\ consumed = [m \in Manager |-> {}]
  /\ lock = [m \in Manager |-> [a \in Arc |-> NoCaller]]
  /\ pc = [c \in Caller |-> "idle"]
  /\ mgr \in [Caller -> Manager]
  /\ diff \in [Caller -> Diff]
  /\ todo = [c \in Caller |-> {}]
  /\ pre = [c \in Caller |-> {}]
  /\ bufOp = [c \in Caller |-> NoOp]
  /\ bufFile = [c \in Caller |-> "absent"]
  /\ bufCount = [c \in Caller |-> [o \in Op |-> 0]]
  /\ applied = {}
  /\ forgotten = {}
  /\ calls = 0
  /\ faults = 0

-----------------------------------------------------------------------------
(***************************************************************************)
(* Entering apply(): the gate and the schema version are validated before  *)
(* the lock is asked for, and a call they refuse changes nothing.          *)
(***************************************************************************)
Goto(c, stage) == pc' = [pc EXCEPT ![c] = stage]

(* Mutant: an exit that skips the `finally` of hold(). *)
ReleaseSkipped(c) == UNCHANGED lock

Release(c) == lock' = [lock EXCEPT ![mgr[c]][ArcOf(c)] = NoCaller]

Begin(c, m, d) ==
  /\ pc[c] = "idle"
  /\ calls < MaxCalls
  /\ \E gate \in Gate, dryRun \in BOOLEAN : GateAccepts(gate, dryRun)
  /\ DiffInfo[d].schema \in SupportedSchemaVersions
  /\ Goto(c, "locking")
  /\ mgr' = [mgr EXCEPT ![c] = m]
  /\ diff' = [diff EXCEPT ![c] = d]
  /\ calls' = calls + 1
  /\ UNCHANGED <<fileVars, consumed, lock, todo, pre, bufVars, histVars, faults>>

Acquire(c) ==
  /\ pc[c] = "locking"
  /\ lock[mgr[c]][ArcOf(c)] = NoCaller
  /\ lock' = [lock EXCEPT ![mgr[c]][ArcOf(c)] = c]
  /\ Goto(c, "checking")
  /\ UNCHANGED <<fileVars, consumed, callVars, histVars, calls, faults>>

(* LockTimeoutError: the lock stayed taken for 30 seconds. *)
LockTimeout(c) ==
  /\ pc[c] = "locking"
  /\ lock[mgr[c]][ArcOf(c)] # NoCaller
  /\ Goto(c, "idle")
  /\ UNCHANGED <<fileVars, consumed, lock, callVars, histVars, calls, faults>>

(***************************************************************************)
(* _prevalidate_ledger_diff.  Existing event ids are looked up in the      *)
(* file's "events" list only: a timeline.json that apply() itself created  *)
(* keeps its entries in "timeline_entries".                                *)
(***************************************************************************)
(* Mutant: only the diff's own events are compared.                        *)
ExistingEventsIgnored == {}

ExistingEvents ==
  IF file["timeline"] = "events"
  THEN {Event(o) : o \in {x \in Op : Target(x) = "timeline" /\ count[x] > 0}}
  ELSE {}

FreshEvents(d) ==
  \A o \in OpsOf(d) :
    Target(o) = "timeline" /\ Event(o) # NoEvent =>
       /\ Event(o) \notin ExistingEvents
       /\ \A x \in OpsOf(d) \ {o} :
            Target(x) = "timeline" => Event(x) # Event(o)

(* Mutant: the ledgers' vocabulary and transitions are not looked at. *)
PrevalidatedLoosely(d) ==
  (\A o \in OpsOf(d) : HasProvenance(OpInfo[o])) /\ FreshEvents(d)

Prevalidated(d) ==
  (\A o \in OpsOf(d) : WellFormed(OpInfo[o])) /\ FreshEvents(d)

Refuse(c) ==
  /\ pc[c] = "checking"
  /\ diff[c] \in consumed[mgr[c]] \/ ~Prevalidated(diff[c])
  /\ Goto(c, "idle")
  /\ Release(c)
  /\ UNCHANGED <<fileVars, consumed, callVars, histVars, calls, faults>>

Admit(c) ==
  /\ pc[c] = "checking"
  /\ diff[c] \notin consumed[mgr[c]]
  /\ Prevalidated(diff[c])
  /\ Goto(c, "snapshot")
  /\ UNCHANGED <<fileVars, consumed, lock, callVars, histVars, calls, faults>>

-----------------------------------------------------------------------------
(***************************************************************************)
(* The snapshot.  Its ledgers/ directory is not emptied first: a copy left *)
(* by an earlier attempt stays where the ledger no longer exists.          *)
(***************************************************************************)
Present == {l \in Ledger : file[l] # "absent"}

(* Mutant: a copy an earlier attempt left is kept. *)
SnapshotLedgersOnce(c) ==
  LET missing == {l \in Present : snapFile[diff[c]][l] = "absent"} IN
  /\ pc[c] = "snapshot"
  /\ snapFile' = [snapFile EXCEPT ![diff[c]] =
       [l \in Ledger |-> IF l \in missing THEN file[l] ELSE @[l]]]
  /\ snapCount' = [snapCount EXCEPT ![diff[c]] =
       [o \in Op |-> IF Target(o) \in missing THEN count[o] ELSE @[o]]]
  /\ pre' = [pre EXCEPT ![c] = Present]
  /\ Goto(c, "snapshot_canon")
  /\ UNCHANGED <<diskVars, snapManuscript, snapCards, markVars, consumed, lock,
                 mgr, diff, todo, bufVars, histVars, calls, faults>>

SnapshotLedgers(c) ==
  /\ pc[c] = "snapshot"
  /\ snapFile' = [snapFile EXCEPT ![diff[c]] =
       [l \in Ledger |-> IF l \in Present THEN file[l] ELSE @[l]]]
  /\ snapCount' = [snapCount EXCEPT ![diff[c]] =
       [o \in Op |-> IF Target(o) \in Present THEN count[o] ELSE @[o]]]
  /\ pre' = [pre EXCEPT ![c] = Present]
  /\ Goto(c, "snapshot_canon")
  /\ UNCHANGED <<diskVars, snapManuscript, snapCards, markVars, consumed, lock,
                 mgr, diff, todo, bufVars, histVars, calls, faults>>

SnapshotCanon(c) ==
  /\ pc[c] = "snapshot_canon"
  /\ snapManuscript' = [snapManuscript EXCEPT ![diff[c]] = manuscript]
  /\ snapCards' = [snapCards EXCEPT ![diff[c]] = cards]
  /\ todo' = [todo EXCEPT ![c] =
       DraftsOf(diff[c]) \cup OpsOf(diff[c]) \cup CardsOf(diff[c])]
  /\ Goto(c, "writing")
  /\ UNCHANGED <<diskVars, snapFile, snapCount, markVars, consumed, lock,
                 mgr, diff, pre, bufVars, histVars, calls, faults>>

(* The snapshot is taken before the `try`: its failure is not rolled back. *)
SnapshotFails(c) ==
  /\ pc[c] \in {"snapshot", "snapshot_canon"}
  /\ Goto(c, "idle")
  /\ Release(c)
  /\ pre' = [pre EXCEPT ![c] = {}]
  /\ UNCHANGED <<fileVars, consumed, mgr, diff, todo, bufVars, histVars, calls,
                 faults>>

-----------------------------------------------------------------------------
(***************************************************************************)
(* The writes: canonicalize, then the ledger operations, then the cards.   *)
(***************************************************************************)
Written(c, item) == todo' = [todo EXCEPT ![c] = @ \ {item}]

CopyDraft(c) ==
  /\ pc[c] = "writing"
  /\ \E ch \in todo[c] \cap Chapter :
       /\ manuscript' = [manuscript EXCEPT ![ch] = diff[c]]
       /\ Written(c, ch)
  /\ UNCHANGED <<file, count, cards, snapVars, markVars, consumed, lock, pc,
                 mgr, diff, pre, bufVars, histVars, calls, faults>>

(* Create the ledger file if it is missing, and read it. *)
ReadLedger(c) ==
  /\ pc[c] = "writing"
  /\ todo[c] \cap Chapter = {}
  /\ \E o \in todo[c] \cap Op :
       LET l == Target(o)
           shape == IF file[l] = "absent" THEN "entries" ELSE file[l]
       IN /\ file' = [file EXCEPT ![l] = shape]
          /\ bufOp' = [bufOp EXCEPT ![c] = o]
          /\ bufFile' = [bufFile EXCEPT ![c] = shape]
          /\ bufCount' = [bufCount EXCEPT ![c] =
               [x \in Op |-> IF Target(x) = l THEN count[x] ELSE 0]]
  /\ Goto(c, "appending")
  /\ UNCHANGED <<count, manuscript, cards, snapVars, markVars, consumed, lock,
                 mgr, diff, todo, pre, histVars, calls, faults>>

ClearBuffer(c) ==
  /\ bufOp' = [bufOp EXCEPT ![c] = NoOp]
  /\ bufFile' = [bufFile EXCEPT ![c] = "absent"]
  /\ bufCount' = [bufCount EXCEPT ![c] = [o \in Op |-> 0]]

(* Append the entry to what was read, and write the whole file back. *)
AppendEntry(c) ==
  LET o == bufOp[c]
      l == Target(o)
  IN /\ pc[c] = "appending"
     /\ file' = [file EXCEPT ![l] = bufFile[c]]
     /\ count' = [x \in Op |-> IF Target(x) # l THEN count[x]
                               ELSE IF x = o THEN bufCount[c][x] + 1
                               ELSE bufCount[c][x]]
     /\ Written(c, o)
     /\ ClearBuffer(c)
     /\ Goto(c, "writing")
     /\ UNCHANGED <<manuscript, cards, snapVars, markVars, consumed, lock,
                    mgr, diff, pre, histVars, calls, faults>>

WriteCard(c) ==
  /\ pc[c] = "writing"
  /\ todo[c] \subseteq Character
  /\ \E k \in todo[c] :
       /\ cards' = [cards EXCEPT ![k] = diff[c]]
       /\ Written(c, k)
  /\ UNCHANGED <<file, count, manuscript, snapVars, markVars, consumed, lock, pc,
                 mgr, diff, pre, bufVars, histVars, calls, faults>>

(* Mutant: the record is given the arc where the hash belongs. *)
WriteRecordOfArc(c) ==
  /\ pc[c] = "writing"
  /\ todo[c] = {}
  /\ record' = [record EXCEPT ![ArcOf(c)] = ArcOf(c)]
  /\ consumed' = [consumed EXCEPT ![mgr[c]] = @ \cup {diff[c]}]
  /\ Goto(c, "saving")
  /\ UNCHANGED <<diskVars, snapVars, consumedFile, commits, lock, callVars,
                 histVars, calls, faults>>

(* Write apply_record.json and add the hash to the set in memory. *)
WriteRecord(c) ==
  /\ pc[c] = "writing"
  /\ todo[c] = {}
  /\ record' = [record EXCEPT ![ArcOf(c)] = diff[c]]
  /\ consumed' = [consumed EXCEPT ![mgr[c]] = @ \cup {diff[c]}]
  /\ Goto(c, "saving")
  /\ UNCHANGED <<diskVars, snapVars, consumedFile, commits, lock, callVars,
                 histVars, calls, faults>>

(* Mutant: the file is overwritten with the new hash alone. *)
SaveConsumedHash(c) ==
  /\ pc[c] = "saving"
  /\ consumedFile' = {diff[c]}
  /\ applied' = applied \cup {diff[c]}
  /\ Goto(c, "emitting")
  /\ UNCHANGED <<diskVars, snapVars, record, commits, consumed, lock, callVars,
                 forgotten, calls, faults>>

(***************************************************************************)
(* _save_consumed overwrites the file with this manager's whole set.  This *)
(* is the commit point: nothing after it can fail the call.                *)
(***************************************************************************)
SaveConsumed(c) ==
  /\ pc[c] = "saving"
  /\ consumedFile' = consumed[mgr[c]]
  /\ applied' = applied \cup {diff[c]}
  /\ Goto(c, "emitting")
  /\ UNCHANGED <<diskVars, snapVars, record, commits, consumed, lock, callVars,
                 forgotten, calls, faults>>

(***************************************************************************)
(* The write raises: the record is unlinked, the set in memory is kept.    *)
(* If the file was truncated before, it loads as empty from now on, and a  *)
(* manager built after that no longer knows what has been applied.         *)
(***************************************************************************)
SaveConsumedFails(c) ==
  /\ pc[c] = "saving"
  /\ record' = [record EXCEPT ![ArcOf(c)] = NoDiff]
  /\ \/ UNCHANGED <<consumedFile, forgotten, faults>>
     \/ /\ faults < MaxFaults
        /\ consumedFile' = {}
        /\ forgotten' = applied
        /\ faults' = faults + 1
  /\ Goto(c, "restoring")
  /\ UNCHANGED <<diskVars, snapVars, commits, consumed, lock, callVars, applied,
                 calls>>

(***************************************************************************)
(* _emit_chapter_commit is optional and swallows its own failures.         *)
(***************************************************************************)
EmitCommit(c) ==
  /\ pc[c] = "emitting"
  /\ commits' \in {commits, commits \cup {diff[c]}}
  /\ Release(c)
  /\ pre' = [pre EXCEPT ![c] = {}]
  /\ Goto(c, "idle")
  /\ UNCHANGED <<diskVars, snapVars, record, consumedFile, consumed, mgr, diff,
                 todo, bufVars, histVars, calls, faults>>

-----------------------------------------------------------------------------
(* Mutant: a failed write is tried again, and again. *)
WriteRetries(c) ==
  /\ pc[c] = "appending"
  /\ ClearBuffer(c)
  /\ Goto(c, "writing")
  /\ UNCHANGED <<fileVars, consumed, lock, mgr, diff, todo, pre, histVars, calls,
                 faults>>

(***************************************************************************)
(* Any write before the consumed set is touched may raise; the handler     *)
(* then deletes the ledgers it did not find and copies the snapshot back.  *)
(* It does not look at the record: when that was the write that failed,    *)
(* the arc's last record may be cut off.                                   *)
(***************************************************************************)
WriteFails(c) ==
  /\ pc[c] \in {"writing", "appending"}
  /\ \/ UNCHANGED record
     \/ /\ pc[c] = "writing" /\ todo[c] = {}
        /\ record' = [record EXCEPT ![ArcOf(c)] = NoDiff]
  /\ todo' = [todo EXCEPT ![c] = {}]
  /\ ClearBuffer(c)
  /\ Goto(c, "restoring")
  /\ UNCHANGED <<diskVars, snapVars, consumedFile, commits, consumed, lock, mgr,
                 diff, pre, histVars, calls, faults>>

(* Mutant: new ledgers are deleted, old ones not copied back. *)
RestoreNewLedgers(c) ==
  /\ pc[c] = "restoring"
  /\ file' = [l \in Ledger |-> IF l \in pre[c] THEN file[l] ELSE "absent"]
  /\ count' = [o \in Op |-> IF Target(o) \in pre[c] THEN count[o] ELSE 0]
  /\ Goto(c, "restoring_canon")
  /\ UNCHANGED <<manuscript, cards, snapVars, markVars, consumed, lock,
                 callVars, histVars, calls, faults>>

RestoreLedgers(c) ==
  LET d == diff[c]
      saved == {l \in Ledger : snapFile[d][l] # "absent"}
  IN /\ pc[c] = "restoring"
     /\ file' = [l \in Ledger |-> IF l \in saved THEN snapFile[d][l]
                                  ELSE IF l \in pre[c] THEN file[l]
                                  ELSE "absent"]
     /\ count' = [o \in Op |-> IF Target(o) \in saved THEN snapCount[d][o]
                               ELSE IF Target(o) \in pre[c] THEN count[o]
                               ELSE 0]
     /\ Goto(c, "restoring_canon")
     /\ UNCHANGED <<manuscript, cards, snapVars, markVars, consumed, lock,
                    callVars, histVars, calls, faults>>

(* Mutant: the character cards are not copied back. *)
RestoreManuscript(c) ==
  /\ pc[c] = "restoring_canon"
  /\ manuscript' = snapManuscript[diff[c]]
  /\ Release(c)
  /\ pre' = [pre EXCEPT ![c] = {}]
  /\ Goto(c, "idle")
  /\ UNCHANGED <<file, count, cards, snapVars, markVars, consumed, mgr, diff,
                 todo, bufVars, histVars, calls, faults>>

RestoreCanon(c) ==
  /\ pc[c] = "restoring_canon"
  /\ manuscript' = snapManuscript[diff[c]]
  /\ cards' = snapCards[diff[c]]
  /\ Release(c)
  /\ pre' = [pre EXCEPT ![c] = {}]
  /\ Goto(c, "idle")
  /\ UNCHANGED <<file, count, snapVars, markVars, consumed, mgr, diff, todo,
                 bufVars, histVars, calls, faults>>

(***************************************************************************)
(* The handler itself raises: what it has not restored yet stays as it is, *)
(* and a directory it removed to copy the snapshot over it stays empty.    *)
(***************************************************************************)
RestoreFails(c) ==
  /\ pc[c] \in {"restoring", "restoring_canon"}
  /\ faults < MaxFaults
  /\ faults' = faults + 1
  /\ \/ UNCHANGED manuscript
     \/ /\ pc[c] = "restoring_canon"
        /\ manuscript' = [ch \in Chapter |-> NoDiff]
  /\ Release(c)
  /\ pre' = [pre EXCEPT ![c] = {}]
  /\ Goto(c, "idle")
  /\ UNCHANGED <<file, count, cards, snapVars, markVars, consumed, mgr, diff,
                 todo, bufVars, histVars, calls>>

-----------------------------------------------------------------------------
(***************************************************************************)
(* The process hosting manager m dies: its calls end where they are, its   *)
(* locks and its memory are gone, nothing on disk is undone.  A write of   *)
(* consumed_hashes.json cut short leaves a file that loads as empty; any   *)
(* other file is taken to be as before its write or after it.              *)
(***************************************************************************)
Crash(m) ==
  LET victims == {c \in Caller : Busy(c) /\ mgr[c] = m} IN
  /\ faults < MaxFaults
  /\ victims # {}
  /\ faults' = faults + 1
  /\ \/ UNCHANGED <<consumedFile, forgotten>>
     \/ /\ \E c \in victims : pc[c] = "saving"
        /\ consumedFile' = {}
        /\ forgotten' = applied
  /\ consumed' = [consumed EXCEPT ![m] = consumedFile']
  /\ lock' = [lock EXCEPT ![m] = [a \in Arc |-> NoCaller]]
  /\ pc' = [c \in Caller |-> IF c \in victims THEN "idle" ELSE pc[c]]
  /\ todo' = [c \in Caller |-> IF c \in victims THEN {} ELSE todo[c]]
  /\ pre' = [c \in Caller |-> IF c \in victims THEN {} ELSE pre[c]]
  /\ bufOp' = [c \in Caller |-> IF c \in victims THEN NoOp ELSE bufOp[c]]
  /\ bufFile' = [c \in Caller |-> IF c \in victims THEN "absent" ELSE bufFile[c]]
  /\ bufCount' = [c \in Caller |-> IF c \in victims THEN [o \in Op |-> 0]
                                                  ELSE bufCount[c]]
  /\ UNCHANGED <<diskVars, snapVars, record, commits, mgr, diff, applied, calls>>

(* A new AtomicApplyManager loads the consumed hashes, once. *)
Construct(m) ==
  /\ \A c \in Caller : Busy(c) => mgr[c] # m
  /\ consumed[m] # consumedFile
  /\ consumed' = [consumed EXCEPT ![m] = consumedFile]
  /\ UNCHANGED <<fileVars, lock, pc, callVars, histVars, calls, faults>>

-----------------------------------------------------------------------------
(* One step of apply() by caller c, once it has been called. *)
Step(c) ==
  \/ Acquire(c) \/ LockTimeout(c) \/ Refuse(c) \/ Admit(c)
  \/ SnapshotLedgers(c) \/ SnapshotCanon(c) \/ SnapshotFails(c)
  \/ CopyDraft(c) \/ ReadLedger(c) \/ AppendEntry(c) \/ WriteCard(c)
  \/ WriteRecord(c) \/ SaveConsumed(c) \/ SaveConsumedFails(c) \/ EmitCommit(c)
  \/ WriteFails(c) \/ RestoreLedgers(c) \/ RestoreCanon(c) \/ RestoreFails(c)

Next ==
  \/ \E c \in Caller, m \in Manager, d \in Diff : Begin(c, m, d)
  \/ \E c \in Caller : Step(c)
  \/ \E m \in Manager : Crash(m) \/ Construct(m)

Spec == Init /\ [][Next]_vars

(***************************************************************************)
(* A thread that entered apply() keeps running: every file operation ends, *)
(* and lock.acquire has a timeout.                                         *)
(***************************************************************************)
FairSpec == Spec /\ \A c \in Caller : WF_vars(Step(c))

-----------------------------------------------------------------------------
(****************************************************************************)
(* How the shipped callers use the manager: one call at a time ("single     *)
(* process, reject parallel"), on a manager that knows every hash on disk   *)
(* (run_novel_flow and the workbench build a new one for each apply), and   *)
(* a process that outlives the call.  File operations may still fail, those *)
(* of the rollback excepted: the save of the consumed hashes may do so with *)
(* the old file intact or with the file lost.                               *)
(****************************************************************************)
OneAtATime == \A c1, c2 \in Caller : Busy(c1) /\ Busy(c2) => c1 = c2

FreshManager == \A c \in Caller : Busy(c) => consumedFile \subseteq consumed[mgr[c]]

Orderly == OneAtATime /\ FreshManager

RollbackSurvives == faults' = faults \/ \E c \in Caller : SaveConsumedFails(c)

OrderlySpec == Init /\ [][Next /\ Orderly' /\ RollbackSurvives]_vars

-----------------------------------------------------------------------------
(* The type invariant. *)
TypeOK ==
  /\ file \in [Ledger -> Shape]
  /\ count \in [Op -> Nat]
  /\ manuscript \in [Chapter -> Diff \cup {NoDiff}]
  /\ cards \in [Character -> Diff \cup {NoDiff}]
  /\ snapFile \in [Diff -> [Ledger -> Shape]]
  /\ snapCount \in [Diff -> [Op -> Nat]]
  /\ snapManuscript \in [Diff -> [Chapter -> Diff \cup {NoDiff}]]
  /\ snapCards \in [Diff -> [Character -> Diff \cup {NoDiff}]]
  /\ record \in [Arc -> Diff \cup {NoDiff}]
  /\ consumedFile \subseteq Diff
  /\ commits \subseteq Diff
  /\ consumed \in [Manager -> SUBSET Diff]
  /\ lock \in [Manager -> [Arc -> Caller \cup {NoCaller}]]
  /\ pc \in [Caller -> Stages]
  /\ mgr \in [Caller -> Manager]
  /\ diff \in [Caller -> Diff]
  /\ todo \in [Caller -> SUBSET (Chapter \cup Op \cup Character)]
  /\ pre \in [Caller -> SUBSET Ledger]
  /\ bufOp \in [Caller -> Op \cup {NoOp}]
  /\ bufFile \in [Caller -> Shape]
  /\ bufCount \in [Caller -> [Op -> Nat]]
  /\ applied \subseteq Diff
  /\ forgotten \subseteq Diff
  /\ calls \in Nat
  /\ faults \in Nat

(***************************************************************************)
(* `with hold(...)` leaves no lock behind on any way out of apply(), and   *)
(* lets two callers in only when their manager or their arc differs: the   *)
(* lock of m and a is held by c exactly while c is inside its section.     *)
(***************************************************************************)
LockMatchesCritical ==
  \A m \in Manager, a \in Arc, c \in Caller :
    lock[m][a] = c <=> pc[c] \in Critical /\ mgr[c] = m /\ ArcOf(c) = a

(***************************************************************************)
(* No ledger -- nor any snapshot a rollback could copy back -- ever holds  *)
(* an entry that prevalidation rejects, under any interleaving or crash:   *)
(* without provenance, drawn from a derived artifact, with an operation    *)
(* its ledger does not know, or an illegal foreshadow transition.          *)
(***************************************************************************)
OnlyWellFormedEntries ==
  \A o \in Op :
    \/ count[o] > 0
    \/ \E d \in Diff : snapCount[d][o] > 0
    => WellFormed(OpInfo[o])

(***************************************************************************)
(* What a call inside its section relies on: past prevalidation all its    *)
(* operations are well formed; what it still has to write is part of its   *)
(* diff, and what it has read back holds only well formed entries.         *)
(***************************************************************************)
Vetted ==
  \A c \in Caller : pc[c] \in Critical \ {"checking"} =>
    \A o \in OpsOf(diff[c]) : WellFormed(OpInfo[o])

Working ==
  \A c \in Caller :
    /\ todo[c] # {} => pc[c] \in {"writing", "appending"}
    /\ todo[c] \subseteq DraftsOf(diff[c]) \cup OpsOf(diff[c]) \cup CardsOf(diff[c])
    /\ pc[c] = "appending" => bufOp[c] \in todo[c] \cap Op
    /\ \A o \in Op : bufCount[c][o] > 0 => WellFormed(OpInfo[o])

(***************************************************************************)
(* What apply() refuses to do a second time: a diff whose hash was never   *)
(* lost, and one that brings an event the timeline's list already has.     *)
(***************************************************************************)
HasOwnEvent(d) ==
  /\ "timeline" \in Seeded
  /\ \E o \in OpsOf(d) : Target(o) = "timeline" /\ Event(o) # NoEvent

Recognised(d) == d \notin forgotten \/ HasOwnEvent(d)

(***************************************************************************)
(* All-or-nothing, outside the window in which a call writes or restores.  *)
(* Whole: the operations of a diff that reached its commit point are in    *)
(* the ledgers equally often -- once, unless its hash was lost and nothing *)
(* else tells it -- and its chapters and cards are there (or a later       *)
(* diff's).  Untouched: a diff that did not left no trace.                 *)
(***************************************************************************)
Whole(d) ==
  /\ \A o \in OpsOf(d) : count[o] > 0 /\ file[Target(o)] # "absent"
  /\ \A o1, o2 \in OpsOf(d) : count[o1] = count[o2]
  /\ Recognised(d) => \A o \in OpsOf(d) : count[o] = 1
  /\ \A ch \in DraftsOf(d) : manuscript[ch] \in applied
  /\ \A k \in CardsOf(d) : cards[k] \in applied

Untouched(d) ==
  /\ \A o \in OpsOf(d) : count[o] = 0
  /\ \A ch \in Chapter : manuscript[ch] # d
  /\ \A k \in Character : cards[k] # d

Settled == \A c \in Caller : pc[c] \notin Changing

(* What a successful apply() wrote stays, whole, and no retry of it adds to it as long as *)
(* the diff can be recognised.                                                            *)
AppliedPersists == Settled => \A d \in applied : Whole(d)

(* An apply() that failed, at whichever step, was rolled back completely, and its *)
(* arc's apply_record.json does not name it (P1.5).                               *)
FailedLeavesNoTrace ==
  Settled => \A d \in Diff \ applied : Untouched(d) /\ \A a \in Arc : record[a] # d

(***************************************************************************)
(* A timeline that started with an "events" list never holds two entries   *)
(* with one event id, whichever diffs they came from and even when the     *)
(* consumed hashes were lost and a diff is submitted again.                *)
(***************************************************************************)
Clash(o1, o2) ==
  /\ o1 # o2 /\ Target(o1) = "timeline" /\ Target(o2) = "timeline"
  /\ Event(o1) = Event(o2) /\ Event(o1) # NoEvent

NoDuplicateEvents ==
  Settled /\ "timeline" \in Seeded =>
    /\ \A o1, o2 \in Op : count[o1] > 0 /\ count[o2] > 0 => ~Clash(o1, o2)
    /\ \A o \in Op : Target(o) = "timeline" /\ Event(o) # NoEvent => count[o] <= 1

(***************************************************************************)
(* A diff that was applied is known by its hash after any restart, in the  *)
(* file and in the memory of the manager of every running call -- unless a *)
(* save was torn after it was applied.                                     *)
(***************************************************************************)
AppliedIsConsumed ==
  /\ applied \ forgotten \subseteq consumedFile
  /\ \A c \in Caller : Busy(c) => applied \ forgotten \subseteq consumed[mgr[c]]

(***************************************************************************)
(* Liveness: every call returns, whatever the other callers do -- it gets  *)
(* its lock or times out, and commits or finishes its rollback.            *)
(***************************************************************************)
CallsReturn == \A c \in Caller : Busy(c) ~> ~Busy(c)

(***************************************************************************)
(* The manager implements AtomicStore.  What a reader may rely on while a  *)
(* call is between its first write and its commit point is the snapshot.   *)
(***************************************************************************)
Change ==
  [d \in Diff |-> [ops |-> OpsOf(d), drafts |-> DraftsOf(d), cards |-> CardsOf(d),
                   files |-> {Target(o) : o \in OpsOf(d)}]]

Changer == CHOOSE c \in Caller : pc[c] \in Changing

OnDisk == [files      |-> Present,
           count      |-> count,
           manuscript |-> manuscript,
           cards      |-> cards]

InSnapshot(d) == [files      |-> {l \in Ledger : snapFile[d][l] # "absent"},
                  count      |-> snapCount[d],
                  manuscript |-> snapManuscript[d],
                  cards      |-> snapCards[d]]

Visible == IF Settled THEN OnDisk ELSE InSnapshot(diff[Changer])

InitialStore == [files      |-> Seeded,
                 count      |-> [o \in Op |-> 0],
                 manuscript |-> [ch \in Chapter |-> NoDiff],
                 cards      |-> [k \in Character |-> NoDiff]]

Promise == INSTANCE AtomicStore
             WITH StoreInit <- InitialStore,
                  Distinctive <- {d \in Diff : HasOwnEvent(d)},
                  store <- Visible, committed <- applied, forgotten <- forgotten

Implements == Promise!Spec
=============================================================================
