----------------------------- MODULE OutboxProofs -----------------------------
(***************************************************************************)
(* Theorems about Outbox, for every set of workers, producers and requests *)
(* and every lease and backoff.                                            *)
(***************************************************************************)
EXTENDS Outbox, TLAPS

USE DEF rowVars, prodVars, workVars, counters

LEMMA DelayIsNat == \A n \in Nat : Delay(n) \in Nat
<1>1. Len(Backoff) \in Nat /\ Len(Backoff) >= 1
  BY TimeAssumption
<1>2. \A i \in 1..Len(Backoff) : Backoff[i] \in Nat
  BY TimeAssumption
<1>3. QED
  BY <1>1, <1>2 DEF Delay

LEMMA LeaseIsPositive == LeaseSeconds \in Nat /\ LeaseSeconds > 0
  BY TimeAssumption

(* What a row or a producer holds is a request; a worker at work has a job. *)
Present ==
  /\ \A j \in JobId : status[j] # "absent" => request[j] \in Request
  /\ \A p \in Producer : ppc[p] = "inserting" => asked[p] \in Request
  /\ \A w \in Worker : wpc[w] \in Holding => job[w] \in JobId /\ status[job[w]] # "absent"
  /\ \A w \in Worker : now[w] <= clock

Base == TypeOK /\ Present

LEMMA InitBase == Init => Base
  BY DEF Init, Base, TypeOK, Present, Status, WorkerStages, Holding

LEMMA EnqueueBase ==
  ASSUME Base, NEW p \in Producer, Enqueue(p)
  PROVE  Base'
<1> USE RequestAssumption DEF Base, TypeOK, Present, Status, KeyHolder, Answered
<1>1. CASE EnqueueKnown(p)
  BY <1>1 DEF EnqueueKnown
<1>2. CASE EnqueueNew(p)
  BY <1>2 DEF EnqueueNew
<1>3. CASE Insert(p)
  BY <1>3 DEF Insert
<1>4. CASE InsertCollides(p)
  BY <1>4 DEF InsertCollides
<1>5. QED
  BY <1>1, <1>2, <1>3, <1>4 DEF Enqueue

LEMMA WorkBase ==
  ASSUME Base, NEW w \in Worker, Work(w) \/ Heartbeat(w) \/ Crash(w)
  PROVE  Base'
<1> USE OwnerAssumption, LeaseIsPositive, DelayIsNat
        DEF Base, TypeOK, Present, Status, WorkerStages, Holding, GoTo, Return
<1>1. CASE StartClaim(w)
  BY <1>1 DEF StartClaim
<1>2. CASE Recover(w)
  <2>1. \A j \in JobId : status'[j] = "absent" <=> status[j] = "absent"
    BY <1>2 DEF Recover, Expired
  <2>2. TypeOK'
    BY <1>2 DEF Recover
  <2>3. Present'
    BY <1>2, <2>1 DEF Recover
  <2>4. QED
    BY <2>2, <2>3
<1>3. CASE Claim(w)
  BY <1>3 DEF Claim, Claimable
<1>4. CASE ClaimNothing(w)
  BY <1>4 DEF ClaimNothing
<1>5. CASE MarkComplete(w)
  BY <1>5 DEF MarkComplete
<1>6. CASE HandlerRaises(w)
  BY <1>6 DEF HandlerRaises
<1>7. CASE ReadAttempts(w)
  BY <1>7 DEF ReadAttempts
<1>8. CASE GiveUp(w)
  BY <1>8 DEF GiveUp
<1>9. CASE Retry(w)
  BY <1>9 DEF Retry
<1>10. CASE Heartbeat(w)
  BY <1>10 DEF Heartbeat
<1>11. CASE Crash(w)
  BY <1>11 DEF Crash
<1>12. QED
  BY <1>1, <1>2, <1>3, <1>4, <1>5, <1>6, <1>7, <1>8, <1>9, <1>10, <1>11 DEF Work

LEMMA StepBase ==
  ASSUME Base, [Next]_vars
  PROVE  Base'
<1> USE DEF Base, TypeOK, Present, Status, WorkerStages, Holding
<1>1. ASSUME NEW j \in JobId, RequeueDead(j)
      PROVE  Base'
  BY <1>1 DEF RequeueDead
<1>2. CASE Tick
  BY <1>2 DEF Tick
<1>3. CASE UNCHANGED vars
  BY <1>3 DEF vars
<1>4. QED
  BY <1>1, <1>2, <1>3, EnqueueBase, WorkBase DEF Next

LEMMA BaseInvariant == Spec => []Base
<1>1. Base /\ [Next]_vars => Base'
  BY StepBase
<1>2. QED
  BY <1>1, InitBase, PTL DEF Spec

(* The columns and every local variable keep their types. *)
THEOREM TypeCorrect == Spec => []TypeOK
<1>1. Base => TypeOK
  BY DEF Base
<1>2. QED
  BY <1>1, BaseInvariant, PTL

(***************************************************************************)
(* No running row is out of recovery's reach, however workers, crashes and *)
(* stale updates interleave.                                               *)
(***************************************************************************)
THEOREM NeverStuckRunning == Spec => []RunningIsRecoverable
<1>1. Init => RunningIsRecoverable
  BY DEF Init, RunningIsRecoverable
<1>2. Base /\ RunningIsRecoverable /\ [Next]_vars => RunningIsRecoverable'
  <2> SUFFICES ASSUME Base, RunningIsRecoverable, [Next]_vars
               PROVE  RunningIsRecoverable'
    OBVIOUS
  <2> USE OwnerAssumption, LeaseIsPositive DEF Base, TypeOK, RunningIsRecoverable, Return, GoTo
  <2>1. ASSUME NEW p \in Producer, Enqueue(p)
        PROVE  RunningIsRecoverable'
    BY <2>1 DEF Enqueue, EnqueueKnown, EnqueueNew, Insert, InsertCollides
  <2>2. ASSUME NEW w \in Worker, Claim(w)
        PROVE  RunningIsRecoverable'
    BY <2>2 DEF Claim, Claimable
  <2>3. ASSUME NEW w \in Worker, Recover(w)
        PROVE  RunningIsRecoverable'
    BY <2>3 DEF Recover
  <2>4. ASSUME NEW w \in Worker, MarkComplete(w)
        PROVE  RunningIsRecoverable'
    BY <2>4 DEF MarkComplete
  <2>5. ASSUME NEW w \in Worker, Work(w), ~Claim(w), ~Recover(w), ~MarkComplete(w)
        PROVE  RunningIsRecoverable'
    BY <2>5 DEF Work, StartClaim, ClaimNothing, HandlerRaises, ReadAttempts, GiveUp, Retry
  <2>6. ASSUME NEW w \in Worker, Heartbeat(w) \/ Crash(w)
        PROVE  RunningIsRecoverable'
    BY <2>6 DEF Heartbeat, Crash
  <2>7. ASSUME NEW j \in JobId, RequeueDead(j)
        PROVE  RunningIsRecoverable'
    BY <2>7 DEF RequeueDead
  <2>8. CASE Tick \/ UNCHANGED vars
    BY <2>8 DEF Tick, vars
  <2>9. QED
    BY <2>1, <2>2, <2>3, <2>4, <2>5, <2>6, <2>7, <2>8 DEF Next
<1>3. QED
  BY <1>1, <1>2, BaseInvariant, PTL DEF Spec

(***************************************************************************)
(* Rows are never deleted and keep their key, so the row an enqueue call   *)
(* was answered with remains the only one with its key.                    *)
(***************************************************************************)
Keyed(j, k) == status[j] # "absent" /\ k # NoKey /\ request[j].key = k

Deduped ==
  /\ \A i, j \in JobId, r \in Request : Keyed(i, r.key) /\ Keyed(j, r.key) => i = j
  /\ \A p \in Producer : answer[p] # NoJob =>
       /\ asked[p] \in Request
       /\ status[answer[p]] # "absent"
       /\ asked[p].key # NoKey => Keyed(answer[p], asked[p].key)

LEMMA DedupedStep ==
  ASSUME Base, Deduped, [Next]_vars
  PROVE  Deduped'
<1> USE NullAssumption DEF Base, TypeOK, Deduped, Keyed, KeyHolder, Answered, Return, GoTo
<1>1. ASSUME NEW p \in Producer, EnqueueKnown(p)
      PROVE  Deduped'
  BY <1>1 DEF EnqueueKnown
<1>2. ASSUME NEW p \in Producer, EnqueueNew(p)
      PROVE  Deduped'
  BY <1>2 DEF EnqueueNew
<1>3. ASSUME NEW p \in Producer, Insert(p)
      PROVE  Deduped'
  <2>1. PICK j \in JobId : Insert(p)!3!(j)
    BY <1>3 DEF Insert
  <2>2. /\ asked' = asked /\ asked[p] \in Request /\ KeyHolder(asked[p]) = {}
        /\ status[j] = "absent" /\ status'[j] = "pending" /\ request'[j] = asked[p]
        /\ \A i \in JobId \ {j} : status'[i] = status[i] /\ request'[i] = request[i]
        /\ answer' = [answer EXCEPT ![p] = j]
    BY <1>3, <2>1 DEF Insert, Present
  <2>3. QED
    BY <2>2
<1>4. ASSUME NEW p \in Producer, InsertCollides(p)
      PROVE  Deduped'
  BY <1>4 DEF InsertCollides, Present
<1>5. CASE /\ UNCHANGED <<request, asked, answer>>
           /\ \A j \in JobId : status'[j] = "absent" <=> status[j] = "absent"
  BY <1>5
<1>6. ASSUME NEW w \in Worker, Recover(w)
      PROVE  Deduped'
  BY <1>5, <1>6 DEF Recover, Expired
<1>7. ASSUME NEW w \in Worker, Claim(w) \/ MarkComplete(w) \/ GiveUp(w) \/ Retry(w)
      PROVE  Deduped'
  BY <1>5, <1>7 DEF Claim, Claimable, MarkComplete, GiveUp, Retry, Present, Holding
<1>8. ASSUME NEW w \in Worker,
             \/ StartClaim(w) \/ ClaimNothing(w) \/ HandlerRaises(w) \/ ReadAttempts(w)
             \/ Heartbeat(w) \/ Crash(w)
      PROVE  Deduped'
  BY <1>5, <1>8
     DEF StartClaim, ClaimNothing, HandlerRaises, ReadAttempts, Heartbeat, Crash
<1>9. ASSUME NEW j \in JobId, RequeueDead(j)
      PROVE  Deduped'
  BY <1>5, <1>9 DEF RequeueDead
<1>10. CASE Tick \/ UNCHANGED vars
  BY <1>5, <1>10 DEF Tick, vars
<1>11. QED
  BY <1>1, <1>2, <1>3, <1>4, <1>6, <1>7, <1>8, <1>9, <1>10 DEF Next, Enqueue, Work

(* Racing enqueue calls with one key agree on one job, whatever else runs. *)
THEOREM EnqueueAgrees == Spec => []EnqueueIdempotent
<1>1. Init => Deduped
  BY DEF Init, Deduped, Keyed
<1>2. Base /\ Deduped => EnqueueIdempotent
  BY NullAssumption DEF Base, TypeOK, Deduped, Keyed, EnqueueIdempotent, KeyHolder
<1>3. QED
  BY <1>1, <1>2, DedupedStep, BaseInvariant, PTL DEF Spec

-----------------------------------------------------------------------------
(***************************************************************************)
(* While leases are respected.  Recovery compares a row's lease with a     *)
(* time that is never later than the clock, and a held row's lease is not  *)
(* over before its holder's: so recovery leaves held rows alone, and only  *)
(* rows nobody holds can be claimed.                                       *)
(***************************************************************************)
Judged == \A w \in Worker : wpc[w] = "judging" => seen[w] = attempts[job[w]]

Leased == Timely /\ OneHolder /\ HolderOwnsRow /\ Judged /\ DeadIsExhausted

TimelyNext == Next /\ Timely'

LEMMA InitLeased == Init => Leased
  BY DEF Init, Leased, Timely, OneHolder, HolderOwnsRow, Judged, DeadIsExhausted, Holds,
         Holding

LEMMA EnqueueLeased ==
  ASSUME Base, Leased, Timely', NEW p \in Producer, Enqueue(p)
  PROVE  Leased'
<1> USE DEF Base, TypeOK, Leased, OneHolder, HolderOwnsRow, Judged, DeadIsExhausted,
            Holds, Limit, Answered
<1>1. CASE Insert(p)
  BY <1>1 DEF Insert
<1>2. CASE EnqueueKnown(p) \/ EnqueueNew(p) \/ InsertCollides(p)
  BY <1>2 DEF EnqueueKnown, EnqueueNew, InsertCollides
<1>3. QED
  BY <1>1, <1>2 DEF Enqueue

(* Steps of a worker before it holds a job. *)
LEMMA ClaimLeased ==
  ASSUME Base, Leased, Timely', NEW w \in Worker,
         StartClaim(w) \/ Recover(w) \/ Claim(w) \/ ClaimNothing(w)
  PROVE  Leased'
<1> USE DEF Base, TypeOK, Leased, OneHolder, HolderOwnsRow, Judged, DeadIsExhausted,
            Holds, Holding, Limit, GoTo, Return
<1>1. CASE StartClaim(w)
  BY <1>1 DEF StartClaim
<1>2. CASE Recover(w)
  <2>1. \A x \in Worker, j \in JobId : Holds(x, j) => ~Expired(j, now[w])
    BY DEF Expired, Timely, Present
  <2>2. \A x \in Worker, j \in JobId : Holds(x, j)' <=> Holds(x, j)
    BY <1>2 DEF Recover
  <2>3. HolderOwnsRow'
    BY <1>2, <2>1, <2>2 DEF Recover
  <2>4. OneHolder' /\ Judged' /\ DeadIsExhausted'
    BY <1>2, <2>2 DEF Recover
  <2>5. QED
    BY <2>3, <2>4
<1>3. CASE Claim(w)
  <2>1. PICK j \in Claimable(w) : Claim(w)!2!(j)
    BY <1>3 DEF Claim
  <2>2. j \in JobId /\ status[j] = "pending"
    BY <2>1 DEF Claimable
  <2>3. \A x \in Worker : ~Holds(x, j)
    BY <2>2
  <2>4. \A x \in Worker \ {w}, i \in JobId : Holds(x, i)' <=> Holds(x, i)
    BY <1>3, <2>1 DEF Claim
  <2>5. \A i \in JobId : Holds(w, i)' <=> i = j
    BY <1>3, <2>1, <2>2 DEF Claim
  <2>6. OneHolder'
    BY <2>3, <2>4, <2>5
  <2>7. HolderOwnsRow'
    BY <1>3, <2>1, <2>2, <2>3, <2>4, <2>5, LeaseIsPositive DEF Claim
  <2>8. Judged' /\ DeadIsExhausted'
    BY <1>3, <2>1, <2>2, <2>3 DEF Claim, Present
  <2>9. QED
    BY <2>6, <2>7, <2>8
<1>4. CASE ClaimNothing(w)
  BY <1>4 DEF ClaimNothing
<1>5. QED
  BY <1>1, <1>2, <1>3, <1>4

(* Steps of a worker that holds a job. *)
LEMMA HoldLeased ==
  ASSUME Base, Leased, Timely', NEW w \in Worker,
         \/ MarkComplete(w) \/ HandlerRaises(w) \/ ReadAttempts(w)
         \/ GiveUp(w) \/ Retry(w) \/ Heartbeat(w) \/ Crash(w)
  PROVE  Leased'
<1> USE DEF Base, TypeOK, Leased, OneHolder, HolderOwnsRow, Judged, DeadIsExhausted,
            Holds, Holding, Limit, GoTo, Return
<1>1. CASE MarkComplete(w)
  BY <1>1 DEF MarkComplete, Present
<1>2. CASE HandlerRaises(w)
  BY <1>2 DEF HandlerRaises
<1>3. CASE ReadAttempts(w)
  BY <1>3 DEF ReadAttempts
<1>4. CASE GiveUp(w)
  BY <1>4 DEF GiveUp, Present
<1>5. CASE Retry(w)
  BY <1>5 DEF Retry, Present
<1>6. CASE Heartbeat(w)
  BY <1>6, LeaseIsPositive DEF Heartbeat, Present
<1>7. CASE Crash(w)
  BY <1>7 DEF Crash
<1>8. QED
  BY <1>1, <1>2, <1>3, <1>4, <1>5, <1>6, <1>7

LEMMA StepLeased ==
  ASSUME Base, Leased, [TimelyNext]_vars
  PROVE  Leased'
<1> USE DEF Base, TypeOK, Leased, OneHolder, HolderOwnsRow, Judged, DeadIsExhausted,
            Holds, Holding, Limit
<1>1. ASSUME NEW j \in JobId, RequeueDead(j), Timely'
      PROVE  Leased'
  BY <1>1 DEF RequeueDead, Present
<1>2. CASE Tick /\ Timely'
  BY <1>2 DEF Tick
<1>3. CASE UNCHANGED vars
  BY <1>3 DEF vars, Timely
<1>4. QED
  BY <1>1, <1>2, <1>3, EnqueueLeased, ClaimLeased, HoldLeased DEF TimelyNext, Next, Work

LEMMA LeasedInvariant == TimelySpec => [](Base /\ Leased)
<1>1. Init => Base /\ Leased
  BY InitBase, InitLeased
<1>2. Base /\ Leased /\ [TimelyNext]_vars => (Base /\ Leased)'
  <2>1. [TimelyNext]_vars => [Next]_vars
    BY DEF TimelyNext
  <2>2. QED
    BY <2>1, StepBase, StepLeased
<1>3. TimelySpec => Init /\ [][TimelyNext]_vars
  BY DEF TimelySpec, TimelyNext
<1>4. QED
  BY <1>1, <1>2, <1>3, PTL

(***************************************************************************)
(* If no worker outlives its lease, a job has one holder at a time, its    *)
(* row stays the holder's, and it is given up only when it is exhausted.   *)
(***************************************************************************)
THEOREM LeasesExclude == TimelySpec => [](OneHolder /\ HolderOwnsRow /\ DeadIsExhausted)
<1>1. Leased => OneHolder /\ HolderOwnsRow /\ DeadIsExhausted
  BY DEF Leased
<1>2. QED
  BY <1>1, LeasedInvariant, PTL

(***************************************************************************)
(* While no worker outlives its lease, a job is dead-lettered only after   *)
(* it has used its attempts: no crash, recovery or requeue in between      *)
(* makes mark_failed give up early.                                        *)
(***************************************************************************)
THEOREM DeadAreExhausted == TimelySpec => []DeadIsExhausted
BY LeasesExclude, PTL

(* Then only its holder touches a row, so a completed one stays completed. *)
THEOREM CompletedStays == TimelySpec => CompletedIsFinal
<1>1. Base /\ Leased /\ [TimelyNext]_vars
        => [\A j \in JobId : status[j] = "completed" => status'[j] = "completed"]_vars
  <2> SUFFICES ASSUME Base, Leased, TimelyNext, NEW j \in JobId, status[j] = "completed"
               PROVE  status'[j] = "completed"
    BY DEF TimelyNext
  <2> USE DEF Base, TypeOK
  <2>1. \A w \in Worker : wpc[w] \in Holding => job[w] # j
    BY DEF Leased, HolderOwnsRow, Holds
  <2>2. ASSUME NEW p \in Producer, Enqueue(p)
        PROVE  status'[j] = "completed"
    BY <2>2 DEF Enqueue, EnqueueKnown, EnqueueNew, Insert, InsertCollides
  <2>3. ASSUME NEW w \in Worker, Recover(w) \/ Claim(w)
        PROVE  status'[j] = "completed"
    BY <2>3 DEF Recover, Expired, Claim, Claimable
  <2>4. ASSUME NEW w \in Worker, MarkComplete(w) \/ GiveUp(w) \/ Retry(w)
        PROVE  status'[j] = "completed"
    BY <2>1, <2>4 DEF MarkComplete, GiveUp, Retry, Holding
  <2>5. ASSUME NEW w \in Worker,
               \/ StartClaim(w) \/ ClaimNothing(w) \/ HandlerRaises(w)
               \/ ReadAttempts(w) \/ Heartbeat(w) \/ Crash(w)
        PROVE  status'[j] = "completed"
    BY <2>5 DEF StartClaim, ClaimNothing, HandlerRaises, ReadAttempts, Heartbeat, Crash
  <2>6. ASSUME NEW i \in JobId, RequeueDead(i)
        PROVE  status'[j] = "completed"
    BY <2>6 DEF RequeueDead
  <2>7. CASE Tick
    BY <2>7 DEF Tick
  <2>8. QED
    BY <2>2, <2>3, <2>4, <2>5, <2>6, <2>7 DEF TimelyNext, Next, Work
<1>2. TimelySpec => [][TimelyNext]_vars
  BY DEF TimelySpec, TimelyNext
<1>3. QED
  BY <1>1, <1>2, LeasedInvariant, PTL DEF CompletedIsFinal

-----------------------------------------------------------------------------
(***************************************************************************)
(* The outbox implements TaskQueue.                                        *)
(***************************************************************************)
LEMMA HolderIs ==
  ASSUME NEW j \in JobId
  PROVE  /\ \A w \in Worker : OneHolder /\ Holds(w, j) => HolderOf(j) = w
         /\ (\A w \in Worker : ~Holds(w, j)) => HolderOf(j) = NoWorker
  BY DEF HolderOf, OneHolder

LEMMA HolderIsNext ==
  ASSUME NEW j \in JobId
  PROVE  /\ \A w \in Worker : OneHolder' /\ Holds(w, j)' => HolderOf(j)' = w
         /\ (\A w \in Worker : ~Holds(w, j)') => HolderOf(j)' = NoWorker
  BY DEF HolderOf, OneHolder

(* The abstract state, as the refinement mapping reads it off. *)
States  == [j \in JobId |-> StateOf(j)]
Holders == [j \in JobId |-> HolderOf(j)]
Budgets == [j \in JobId |-> IF status[j] = "absent" THEN 0 ELSE Limit(j)]

(* Nobody's hold changes if every worker's stage and job stay or move on. *)
LEMMA SameHolders ==
  ASSUME \A w \in Worker, j \in JobId : Holds(w, j)' <=> Holds(w, j)
  PROVE  Holders' = Holders
<1>1. \A j \in JobId : HolderOf(j)' = HolderOf(j)
  BY DEF HolderOf
<1>2. QED
  BY <1>1 DEF Holders

(* One worker lets go of its job. *)
LEMMA LetGo ==
  ASSUME Leased, NEW w \in Worker, NEW j \in JobId, Holds(w, j), Return(w),
         wpc \in [Worker -> WorkerStages], job \in [Worker -> JobId \cup {NoJob}]
  PROVE  /\ Holders[j] = w
         /\ Holders' = [Holders EXCEPT ![j] = NoWorker]
<1>1. /\ \A x \in Worker, i \in JobId \ {j} : Holds(x, i)' <=> Holds(x, i)
      /\ \A x \in Worker : ~Holds(x, j)'
  BY DEF Leased, OneHolder, Holds, Holding, Return, GoTo
<1>2. HolderOf(j) = w /\ HolderOf(j)' = NoWorker
  BY <1>1, HolderIs, HolderIsNext DEF Leased
<1>3. \A i \in JobId \ {j} : HolderOf(i)' = HolderOf(i)
  BY <1>1 DEF HolderOf
<1>4. QED
  BY <1>2, <1>3 DEF Holders

(* The abstract states follow the one row that changed its status. *)
LEMMA StatusChange ==
  ASSUME NEW j \in JobId, NEW to \in Status, status \in [JobId -> Status],
         status' = [status EXCEPT ![j] = to]
  PROVE  /\ to = "pending" => States' = [States EXCEPT ![j] = "waiting"]
         /\ to = "running" => States' = [States EXCEPT ![j] = "taken"]
         /\ to = "completed" => States' = [States EXCEPT ![j] = "finished"]
         /\ to = "dead" => States' = [States EXCEPT ![j] = "dropped"]
<1>1. \A i \in JobId \ {j} : status'[i] = status[i]
  OBVIOUS
<1>2. \A i \in JobId \ {j} : StateOf(i)' = StateOf(i)
  BY <1>1 DEF StateOf
<1>3. status'[j] = to
  OBVIOUS
<1>4. /\ to = "pending" => StateOf(j)' = "waiting"
      /\ to = "running" => StateOf(j)' = "taken"
      /\ to = "completed" => StateOf(j)' = "finished"
      /\ to = "dead" => StateOf(j)' = "dropped"
  BY <1>3 DEF StateOf
<1>5. QED
  BY <1>2, <1>4 DEF States

queueVars == <<States, Holders, attempts, Budgets>>

LEMMA InsertSubmits ==
  ASSUME Base, NEW p \in Producer, Insert(p)
  PROVE  [Promise!Next]_queueVars
<1>1. PICK j \in JobId : Insert(p)!3!(j)
  BY DEF Insert
<1>2. PICK n \in {r.max : r \in Request} : n = asked[p].max
  BY DEF Insert, Base, Present
<1>3. States[j] = "new" /\ States' = [States EXCEPT ![j] = "waiting"]
  <2>1. status[j] = "absent" /\ status' = [status EXCEPT ![j] = "pending"]
    BY <1>1
  <2>2. States[j] = "new"
    BY <2>1 DEF States, StateOf
  <2>3. QED
    BY <2>1, <2>2, StatusChange DEF Base, TypeOK, Status
<1>4. Budgets' = [Budgets EXCEPT ![j] = n]
  BY <1>1, <1>2 DEF Budgets, Limit, Base, TypeOK
<1>5. Holders' = Holders
  BY SameHolders DEF Insert, Holds
<1>6. attempts' = attempts
  BY DEF Insert
<1>7. Promise!Submit(j, n)
  BY <1>3, <1>4, <1>5, <1>6 DEF Promise!Submit, Promise!Move, States, Holders, Budgets
<1>8. QED
  BY <1>7 DEF Promise!Next

LEMMA RecoverExpires ==
  ASSUME Base, Leased, NEW w \in Worker, Recover(w)
  PROVE  [Promise!Next]_queueVars
<1> DEFINE lost == {j \in JobId : Expired(j, now[w])}
<1>1. \A j \in lost : States[j] = "taken" /\ Holders[j] = NoWorker
  <2>1. \A j \in lost, x \in Worker : ~Holds(x, j)
    BY DEF Expired, Timely, Present, Base, TypeOK, Leased, HolderOwnsRow, Holds
  <2>2. QED
    BY <2>1, HolderIs DEF States, StateOf, Holders, Expired
<1>2. States' = [j \in JobId |-> IF j \in lost THEN "waiting" ELSE States[j]]
  <2>1. \A j \in JobId : status'[j] = IF j \in lost THEN "pending" ELSE status[j]
    BY DEF Recover
  <2>2. \A j \in JobId \ lost : StateOf(j)' = StateOf(j)
    BY <2>1 DEF StateOf
  <2>3. \A j \in lost : StateOf(j)' = "waiting"
    BY <2>1 DEF StateOf
  <2>4. QED
    BY <2>2, <2>3 DEF States
<1>3. Holders' = Holders
  BY SameHolders DEF Recover, Holds, Holding, GoTo, Base, TypeOK
<1>4. Budgets' = Budgets /\ attempts' = attempts
  BY DEF Budgets, Limit, Recover, Expired
<1>5. Promise!Expire(lost)
  BY <1>1, <1>2, <1>3, <1>4 DEF Promise!Expire, States, Holders, Budgets
<1>6. QED
  BY <1>5 DEF Promise!Next

LEMMA ClaimTakes ==
  ASSUME Base, Leased, Leased', NEW w \in Worker, Claim(w)
  PROVE  [Promise!Next]_queueVars
<1>1. PICK j \in Claimable(w) : Claim(w)!2!(j)
  BY DEF Claim
<1>2. j \in JobId /\ status[j] = "pending" /\ \A x \in Worker : ~Holds(x, j)
  BY <1>1 DEF Claimable, Leased, HolderOwnsRow
<1>3. States[j] = "waiting" /\ States' = [States EXCEPT ![j] = "taken"]
  <2>1. status' = [status EXCEPT ![j] = "running"] /\ States[j] = "waiting"
    BY <1>1, <1>2 DEF States, StateOf
  <2>2. QED
    BY <1>2, <2>1, StatusChange DEF Base, TypeOK, Status
<1>4. Budgets' = Budgets
  BY <1>1, <1>2 DEF Budgets, Limit, Claim, Base, TypeOK
<1>5. Holders[j] = NoWorker /\ Holders' = [Holders EXCEPT ![j] = w]
  <2>1. Holds(w, j)' /\ \A x \in Worker, i \in JobId \ {j} : Holds(x, i)' <=> Holds(x, i)
    BY <1>1, <1>2 DEF Claim, Holds, Holding, GoTo, Base, TypeOK
  <2>2. HolderOf(j) = NoWorker /\ HolderOf(j)' = w
    BY <1>2, <2>1, HolderIs, HolderIsNext DEF Leased
  <2>3. \A i \in JobId \ {j} : HolderOf(i)' = HolderOf(i)
    BY <2>1 DEF HolderOf
  <2>4. QED
    BY <1>2, <2>2, <2>3 DEF Holders
<1>6. attempts' = [attempts EXCEPT ![j] = @ + 1]
  BY <1>1
<1>7. Promise!Take(j, w)
  BY <1>3, <1>4, <1>5, <1>6 DEF Promise!Take, Promise!Move, States, Holders, Budgets
<1>8. QED
  BY <1>2, <1>7 DEF Promise!Next

(* The steps with which a holder ends its hold. *)
LEMMA EndsHold ==
  ASSUME Base, Leased, NEW w \in Worker,
         MarkComplete(w) \/ GiveUp(w) \/ Retry(w) \/ (Crash(w) /\ wpc[w] \in Holding)
  PROVE  [Promise!Next]_queueVars
<1> DEFINE j == job[w]
<1>1. j \in JobId /\ Holds(w, j) /\ status[j] = "running" /\ States[j] = "taken"
  BY DEF MarkComplete, GiveUp, Retry, Holding, Holds, Base, Present, Leased,
         HolderOwnsRow, States, StateOf
<1>2. Holders[j] = w /\ Holders' = [Holders EXCEPT ![j] = NoWorker]
  BY <1>1, LetGo DEF MarkComplete, GiveUp, Retry, Crash, Base, TypeOK
<1>3. attempts' = attempts
  BY DEF MarkComplete, GiveUp, Retry, Crash
<1>4. Budgets' = Budgets /\ Budgets[j] = Limit(j)
  BY <1>1 DEF MarkComplete, GiveUp, Retry, Crash, Budgets, Limit, Base, TypeOK
<1>5. CASE MarkComplete(w)
  <2>1. States' = [States EXCEPT ![j] = "finished"]
    BY <1>1, <1>5, StatusChange DEF MarkComplete, Base, TypeOK, Status
  <2>2. Promise!Finish(j, w)
    BY <1>1, <1>2, <1>3, <1>4, <2>1
       DEF Promise!Finish, Promise!Move, Promise!Dropping, States, Holders, Budgets
  <2>3. QED
    BY <1>1, <2>2 DEF Promise!Next
<1>6. CASE GiveUp(w)
  <2>1. States' = [States EXCEPT ![j] = "dropped"]
    BY <1>1, <1>6, StatusChange DEF GiveUp, Base, TypeOK, Status
  <2>2. attempts[j] >= Budgets[j]
    BY <1>4, <1>6 DEF GiveUp, Leased, Judged
  <2>3. Promise!Fail(j, w)
    BY <1>1, <1>2, <1>3, <1>4, <2>1, <2>2
       DEF Promise!Fail, Promise!Move, Promise!Dropping, States, Holders, Budgets
  <2>4. QED
    BY <1>1, <2>3 DEF Promise!Next
<1>7. CASE Retry(w)
  <2>1. States' = [States EXCEPT ![j] = "waiting"]
    BY <1>1, <1>7, StatusChange DEF Retry, Base, TypeOK, Status
  <2>2. ~(attempts[j] >= Budgets[j])
    BY <1>1, <1>4, <1>7, RequestAssumption
       DEF Retry, Leased, Judged, Limit, Base, TypeOK, Present
  <2>3. Promise!Fail(j, w)
    BY <1>1, <1>2, <1>3, <1>4, <2>1, <2>2
       DEF Promise!Fail, Promise!Move, Promise!Dropping, States, Holders, Budgets
  <2>4. QED
    BY <1>1, <2>3 DEF Promise!Next
<1>8. CASE Crash(w)
  <2>1. States' = States
    BY <1>8 DEF Crash, States, StateOf
  <2>2. Promise!Lose(j, w)
    BY <1>1, <1>2, <1>3, <1>4, <2>1
       DEF Promise!Lose, Promise!Dropping, States, Holders, Budgets
  <2>3. QED
    BY <1>1, <2>2 DEF Promise!Next
<1>9. QED
  BY <1>5, <1>6, <1>7, <1>8

LEMMA RequeueRevives ==
  ASSUME Base, NEW j \in JobId, RequeueDead(j)
  PROVE  [Promise!Next]_queueVars
<1>1. States[j] = "dropped" /\ States' = [States EXCEPT ![j] = "waiting"]
  <2>1. States[j] = "dropped"
    BY DEF RequeueDead, States, StateOf
  <2>2. QED
    BY <2>1, StatusChange DEF RequeueDead, Base, TypeOK, Status
<1>2. Budgets' = Budgets /\ attempts' = [attempts EXCEPT ![j] = 0]
  BY DEF RequeueDead, Budgets, Limit, Base, TypeOK
<1>3. Holders' = Holders
  BY SameHolders DEF RequeueDead, Holds
<1>4. Promise!Revive(j)
  BY <1>1, <1>2, <1>3 DEF Promise!Revive, Promise!Move, States, Holders, Budgets
<1>5. QED
  BY <1>4 DEF Promise!Next

LEMMA Stutters ==
  ASSUME Base,
         \/ UNCHANGED vars \/ Tick
         \/ \E p \in Producer : EnqueueKnown(p) \/ EnqueueNew(p) \/ InsertCollides(p)
         \/ \E w \in Worker : \/ StartClaim(w) \/ ClaimNothing(w) \/ HandlerRaises(w)
                              \/ ReadAttempts(w) \/ Heartbeat(w)
                              \/ Crash(w) /\ wpc[w] \notin Holding
  PROVE  UNCHANGED queueVars
<1>1. UNCHANGED <<status, request, attempts>>
  BY DEF vars, Tick, EnqueueKnown, EnqueueNew, InsertCollides, StartClaim, ClaimNothing,
         HandlerRaises, ReadAttempts, Heartbeat, Crash
<1>2. \A w \in Worker, j \in JobId : Holds(w, j)' <=> Holds(w, j)
  BY DEF Holds, Holding, GoTo, Return, Base, TypeOK, vars, Tick, EnqueueKnown, EnqueueNew,
         InsertCollides, StartClaim, ClaimNothing, HandlerRaises, ReadAttempts, Heartbeat,
         Crash
<1>3. Holders' = Holders
  BY <1>2, SameHolders
<1>4. States' = States /\ Budgets' = Budgets
  BY <1>1 DEF States, StateOf, Budgets, Limit
<1>5. QED
  BY <1>1, <1>3, <1>4 DEF queueVars

(***************************************************************************)
(* Enqueueing, claiming, completing, failing, dying, recovering and        *)
(* requeueing are the steps of TaskQueue; every other step is invisible.   *)
(***************************************************************************)
THEOREM OutboxIsTaskQueue == TimelySpec => Implements
<1>1. Init => Promise!Init
  <2> SUFFICES ASSUME Init PROVE Promise!Init
    OBVIOUS
  <2>1. \A j \in JobId : HolderOf(j) = NoWorker
    BY HolderIs DEF Init, Holds, Holding
  <2>2. QED
    BY <2>1 DEF Init, Promise!Init, StateOf
<1>2. Base /\ Leased /\ (Base /\ Leased)' /\ [TimelyNext]_vars => [Promise!Next]_queueVars
  BY InsertSubmits, RecoverExpires, ClaimTakes, EndsHold, RequeueRevives, Stutters
     DEF TimelyNext, Next, Work, Enqueue
<1>3. TimelySpec => Init /\ [][TimelyNext]_vars
  BY DEF TimelySpec, TimelyNext
<1>4. QED
  BY <1>1, <1>2, <1>3, LeasedInvariant, PTL
     DEF Implements, Promise!Spec, Promise!vars, queueVars, States, Holders, Budgets
-----------------------------------------------------------------------------
(***************************************************************************)
(* How often a job is tried.  Recovery does not look at the attempts, so   *)
(* that a job whose worker dies gets a try more than it asked for.         *)
(***************************************************************************)
MayTry(j) == IF Limit(j) = 0 THEN 1 ELSE Limit(j)

Held(j) == \E w \in Worker : Holds(w, j)

(* A job that can be claimed, now or once its lease is out, has a try left. *)
TriesLeft ==
  \A j \in JobId :
    /\ status[j] = "absent" => attempts[j] = 0
    /\ status[j] # "absent" => attempts[j] <= MayTry(j) + crashes
    /\ status[j] = "pending" \/ (status[j] = "running" /\ ~Held(j)) =>
         attempts[j] < MayTry(j) + crashes

(* No job is tried more often than it asked for, and once more for each worker that died. *)
TriesAreBounded ==
  \A j \in JobId : status[j] # "absent" => attempts[j] <= MayTry(j) + crashes

LEMMA MayTryIsNat ==
  ASSUME Base, NEW j \in JobId, status[j] # "absent"
  PROVE  MayTry(j) \in Nat /\ MayTry(j) >= 1 /\ Limit(j) \in Nat /\ Limit(j) <= MayTry(j)
<1>1. request[j] \in Request
  BY DEF Base, Present
<1>2. Limit(j) \in Nat
  BY <1>1, RequestAssumption DEF Limit
<1>3. QED
  BY <1>2 DEF MayTry

(* Where nothing happens to a row, and nobody lets it go, its tries stay bounded. *)
LEMMA Untouched ==
  ASSUME Base, TriesLeft, NEW j \in JobId,
         status'[j] = status[j], attempts'[j] = attempts[j], request'[j] = request[j],
         crashes' \in Nat, crashes' >= crashes,
         Held(j) => (Held(j)' \/ crashes' = crashes + 1)
  PROVE  /\ status'[j] = "absent" => attempts'[j] = 0
         /\ status'[j] # "absent" => attempts'[j] <= MayTry(j)' + crashes'
         /\ status'[j] = "pending" \/ (status'[j] = "running" /\ ~Held(j)') =>
              attempts'[j] < MayTry(j)' + crashes'
<1>1. MayTry(j)' = MayTry(j)
  BY DEF MayTry, Limit
<1>2. attempts[j] \in Nat /\ crashes \in Nat
  BY DEF Base, TypeOK
<1>3. CASE status[j] = "absent"
  BY <1>3 DEF TriesLeft
<1>4. CASE status[j] # "absent"
  <2>1. MayTry(j) \in Nat
    BY <1>4, MayTryIsNat
  <2>2. attempts[j] <= MayTry(j) + crashes
    BY <1>4 DEF TriesLeft
  <2>3. status[j] = "pending" \/ (status[j] = "running" /\ ~Held(j)) =>
          attempts[j] < MayTry(j) + crashes
    BY DEF TriesLeft
  <2>4. QED
    BY <1>1, <1>2, <1>4, <2>1, <2>2, <2>3
<1>5. QED
  BY <1>3, <1>4

LEMMA TriesByProducers ==
  ASSUME Base, TriesLeft, NEW p \in Producer, Enqueue(p)
  PROVE  TriesLeft'
<1>1. \A j \in JobId : Held(j)' <=> Held(j)
  BY DEF Held, Holds, Enqueue, EnqueueKnown, EnqueueNew, Insert, InsertCollides
<1>2. UNCHANGED <<crashes, attempts>> /\ crashes \in Nat
  BY DEF Enqueue, EnqueueKnown, EnqueueNew, Insert, InsertCollides, Base, TypeOK
<1>3. CASE UNCHANGED <<status, request>>
  BY <1>1, <1>2, <1>3, Untouched DEF TriesLeft
<1>4. CASE Insert(p)
  <2>1. PICK i \in JobId : Insert(p)!3!(i)
    BY <1>4 DEF Insert
  <2>2. \A j \in JobId \ {i} : status'[j] = status[j] /\ request'[j] = request[j]
    BY <2>1 DEF Base, TypeOK
  <2>3. attempts'[i] = 0 /\ status'[i] = "pending"
    BY <1>2, <2>1 DEF TriesLeft, Base, TypeOK
  <2>4. MayTry(i)' \in Nat /\ MayTry(i)' >= 1
    <3>1. Base'
      BY EnqueueBase
    <3>2. request'[i] \in Request
      BY <2>3, <3>1 DEF Base, Present
    <3>3. request'[i].max \in Nat
      BY <3>2, RequestAssumption
    <3>4. QED
      BY <3>3 DEF MayTry, Limit
  <2>5. \A j \in JobId \ {i} :
          /\ status'[j] = "absent" => attempts'[j] = 0
          /\ status'[j] # "absent" => attempts'[j] <= MayTry(j)' + crashes'
          /\ status'[j] = "pending" \/ (status'[j] = "running" /\ ~Held(j)') =>
               attempts'[j] < MayTry(j)' + crashes'
    BY <1>1, <1>2, <2>2, Untouched
  <2>6. attempts'[i] < MayTry(i)' + crashes' /\ attempts'[i] <= MayTry(i)' + crashes'
    BY <1>2, <2>3, <2>4
  <2>7. QED
    BY <2>3, <2>5, <2>6 DEF TriesLeft
<1>5. QED
  BY <1>3, <1>4 DEF Enqueue, EnqueueKnown, EnqueueNew, InsertCollides

(* What happens to one row that a worker, or requeue_dead, changes. *)
LEMMA OneRow ==
  ASSUME Base, TriesLeft, NEW i \in JobId,
         \A j \in JobId \ {i} : /\ status'[j] = status[j] /\ attempts'[j] = attempts[j]
                                /\ Held(j)' <=> Held(j),
         UNCHANGED <<request, crashes>>, status[i] # "absent", status'[i] # "absent",
         attempts'[i] \in Nat,
         attempts'[i] <= MayTry(i) + crashes,
         status'[i] = "pending" => attempts'[i] < MayTry(i) + crashes,
         status'[i] = "running" => Held(i)'
  PROVE  TriesLeft'
<1>1. crashes \in Nat
  BY DEF Base, TypeOK
<1>2. \A j \in JobId \ {i} :
        /\ status'[j] = "absent" => attempts'[j] = 0
        /\ status'[j] # "absent" => attempts'[j] <= MayTry(j)' + crashes'
        /\ status'[j] = "pending" \/ (status'[j] = "running" /\ ~Held(j)') =>
             attempts'[j] < MayTry(j)' + crashes'
  BY <1>1, Untouched
<1>3. MayTry(i)' = MayTry(i)
  BY DEF MayTry, Limit
<1>4. QED
  BY <1>2, <1>3 DEF TriesLeft

LEMMA TriesByClaim ==
  ASSUME Base, Leased, TriesLeft, NEW w \in Worker, Claim(w)
  PROVE  TriesLeft'
<1>1. PICK i \in Claimable(w) : Claim(w)!2!(i)
  BY DEF Claim
<1>2. i \in JobId /\ status[i] = "pending"
  BY <1>1 DEF Claimable
<1>3. MayTry(i) \in Nat /\ attempts[i] \in Nat /\ crashes \in Nat
  BY <1>2, MayTryIsNat DEF Base, TypeOK
<1>4. attempts[i] < MayTry(i) + crashes
  BY <1>2 DEF TriesLeft
<1>5. attempts'[i] = attempts[i] + 1 /\ status'[i] = "running"
  BY <1>1, <1>2 DEF Base, TypeOK
<1>6. Holds(w, i)' /\ \A x \in Worker, j \in JobId \ {i} : Holds(x, j)' <=> Holds(x, j)
  BY <1>1, <1>2 DEF Claim, Holds, Holding, GoTo, Base, TypeOK
<1>7. \A j \in JobId \ {i} : /\ status'[j] = status[j] /\ attempts'[j] = attempts[j]
                             /\ Held(j)' <=> Held(j)
  BY <1>1, <1>2, <1>6 DEF Base, TypeOK, Held
<1>8. Held(i)'
  BY <1>6 DEF Held
<1>9. UNCHANGED <<request, crashes>>
  BY DEF Claim
<1>10. attempts'[i] \in Nat /\ attempts'[i] <= MayTry(i) + crashes
  BY <1>3, <1>4, <1>5
<1>11. QED
  BY <1>2, <1>5, <1>7, <1>8, <1>9, <1>10, OneRow

(* The holder of a job gives it up, back or away. *)
LEMMA TriesByHolder ==
  ASSUME Base, Leased, TriesLeft, NEW w \in Worker,
         MarkComplete(w) \/ GiveUp(w) \/ Retry(w)
  PROVE  TriesLeft'
<1> DEFINE i == job[w]
<1>1. i \in JobId /\ Holds(w, i) /\ status[i] = "running"
  BY DEF MarkComplete, GiveUp, Retry, Holding, Holds, Base, Present, Leased, HolderOwnsRow
<1>2. MayTry(i) \in Nat /\ Limit(i) \in Nat /\ Limit(i) <= MayTry(i)
      /\ attempts[i] \in Nat /\ crashes \in Nat
  BY <1>1, MayTryIsNat DEF Base, TypeOK
<1>3. attempts[i] <= MayTry(i) + crashes
  BY <1>1 DEF TriesLeft
<1>4. UNCHANGED <<request, attempts, crashes>>
  BY DEF MarkComplete, GiveUp, Retry
<1>5. status'[i] \in {"completed", "dead", "pending"}
  BY <1>1 DEF MarkComplete, GiveUp, Retry, Base, TypeOK
<1>6. \A j \in JobId \ {i} : status'[j] = status[j]
  BY <1>1 DEF MarkComplete, GiveUp, Retry, Base, TypeOK
<1>7. \A x \in Worker, j \in JobId \ {i} : Holds(x, j)' <=> Holds(x, j)
  BY <1>1 DEF MarkComplete, GiveUp, Retry, Return, GoTo, Holds, Holding, Base, TypeOK
<1>8. \A j \in JobId \ {i} : Held(j)' <=> Held(j)
  BY <1>7 DEF Held
<1>9. status'[i] = "pending" => attempts[i] < MayTry(i) + crashes
  <2>1. CASE Retry(w)
    <3>1. attempts[i] < Limit(i)
      BY <2>1 DEF Retry, Leased, Judged
    <3>2. QED
      BY <1>2, <3>1
  <2>2. CASE MarkComplete(w) \/ GiveUp(w)
    BY <1>1, <2>2 DEF MarkComplete, GiveUp, Base, TypeOK
  <2>3. QED
    BY <2>1, <2>2
<1> HIDE DEF i
<1>10. QED
  BY <1>1, <1>2, <1>3, <1>4, <1>5, <1>6, <1>8, <1>9, OneRow

LEMMA TriesByRequeue ==
  ASSUME Base, TriesLeft, NEW i \in JobId, RequeueDead(i)
  PROVE  TriesLeft'
<1>1. attempts'[i] = 0 /\ status[i] = "dead" /\ status'[i] = "pending"
  BY DEF RequeueDead, Base, TypeOK
<1>2. \A j \in JobId \ {i} : status'[j] = status[j] /\ attempts'[j] = attempts[j]
  BY DEF RequeueDead, Base, TypeOK
<1>3. \A j \in JobId : Held(j)' <=> Held(j)
  BY DEF RequeueDead, Held, Holds
<1>4. UNCHANGED <<request, crashes>>
  BY DEF RequeueDead
<1>5. MayTry(i) \in Nat /\ MayTry(i) >= 1 /\ crashes \in Nat
  BY <1>1, MayTryIsNat DEF Base, TypeOK
<1>6. attempts'[i] < MayTry(i) + crashes /\ attempts'[i] <= MayTry(i) + crashes
  BY <1>1, <1>5
<1>7. QED
  BY <1>1, <1>2, <1>3, <1>4, <1>6, OneRow

(* Recovery takes only rows that nobody holds: their last holder has died. *)
LEMMA TriesByRecovery ==
  ASSUME Base, Leased, TriesLeft, NEW w \in Worker, Recover(w)
  PROVE  TriesLeft'
<1>1. UNCHANGED <<request, attempts, crashes>> /\ crashes \in Nat
  BY DEF Recover, Base, TypeOK
<1>2. \A j \in JobId : Held(j)' <=> Held(j)
  BY DEF Recover, Held, Holds, Holding, GoTo, Base, TypeOK
<1>3. \A j \in JobId : ~Expired(j, now[w]) => status'[j] = status[j]
  BY DEF Recover
<1>4. ASSUME NEW j \in JobId, Expired(j, now[w])
      PROVE  /\ status'[j] = "pending" /\ attempts[j] < MayTry(j) + crashes
             /\ attempts[j] <= MayTry(j) + crashes
  <2>1. status'[j] = "pending" /\ status[j] = "running"
    BY <1>4 DEF Recover, Expired
  <2>2. \A x \in Worker : ~Holds(x, j)
    BY <1>4 DEF Expired, Timely, Present, Base, TypeOK, Leased, HolderOwnsRow, Holds
  <2>3. attempts[j] < MayTry(j) + crashes /\ attempts[j] <= MayTry(j) + crashes
    BY <2>1, <2>2 DEF TriesLeft, Held
  <2>4. QED
    BY <2>1, <2>3
<1>5. \A j \in JobId : MayTry(j)' = MayTry(j)
  BY <1>1 DEF MayTry, Limit
<1>6. \A j \in JobId : ~Expired(j, now[w]) =>
        /\ status'[j] = "absent" => attempts'[j] = 0
        /\ status'[j] # "absent" => attempts'[j] <= MayTry(j)' + crashes'
        /\ status'[j] = "pending" \/ (status'[j] = "running" /\ ~Held(j)') =>
             attempts'[j] < MayTry(j)' + crashes'
  BY <1>1, <1>2, <1>3, Untouched
<1>7. QED
  BY <1>1, <1>4, <1>5, <1>6 DEF TriesLeft

LEMMA TriesByTheRest ==
  ASSUME Base, TriesLeft,
         \/ UNCHANGED vars \/ Tick
         \/ \E w \in Worker : \/ StartClaim(w) \/ ClaimNothing(w) \/ HandlerRaises(w)
                              \/ ReadAttempts(w) \/ Heartbeat(w) \/ Crash(w)
  PROVE  TriesLeft'
<1>1. UNCHANGED <<status, request, attempts>>
  BY DEF vars, Tick, StartClaim, ClaimNothing, HandlerRaises, ReadAttempts, Heartbeat, Crash
<1>2. crashes \in Nat
  BY DEF Base, TypeOK
<1>3. /\ crashes' = crashes \/ crashes' = crashes + 1
      /\ crashes' = crashes => \A x \in Worker, j \in JobId : Holds(x, j)' <=> Holds(x, j)
  BY <1>2 DEF Holds, Holding, GoTo, Return, Base, TypeOK, vars, Tick, StartClaim, ClaimNothing,
         HandlerRaises, ReadAttempts, Heartbeat, Crash
<1>4. \A j \in JobId : Held(j) => Held(j)' \/ crashes' = crashes + 1
  BY <1>3 DEF Held
<1>5. crashes' \in Nat /\ crashes' >= crashes
  BY <1>2, <1>3
<1>6. QED
  BY <1>1, <1>4, <1>5, Untouched DEF TriesLeft

(***************************************************************************)
(* While no worker outlives its lease, a job is claimed no more often than *)
(* its max_attempts, and once more for each worker process that died; a    *)
(* requeue starts the count again.  Recovery queues a job whatever its     *)
(* attempts (outbox_store.py:257), so the bound is no better than this.    *)
(***************************************************************************)
THEOREM RetriesAreBounded == TimelySpec => []TriesAreBounded
<1>1. Init => TriesLeft
  BY DEF Init, TriesLeft
<1>2. Base /\ Leased /\ TriesLeft /\ [TimelyNext]_vars => TriesLeft'
  BY TriesByProducers, TriesByClaim, TriesByHolder, TriesByRequeue, TriesByRecovery,
     TriesByTheRest DEF TimelyNext, Next, Work
<1>3. TimelySpec => Init /\ [][TimelyNext]_vars
  BY DEF TimelySpec, TimelyNext
<1>4. TriesLeft => TriesAreBounded
  BY DEF TriesLeft, TriesAreBounded
<1>5. QED
  BY <1>1, <1>2, <1>3, <1>4, LeasedInvariant, PTL
=============================================================================
