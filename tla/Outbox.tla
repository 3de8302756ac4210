-------------------------------- MODULE Outbox --------------------------------
(***************************************************************************)
(* OutboxStore and OutboxWorker: a table of jobs in SQLite that several    *)
(* processes enqueue to and claim from.  A claim carries a lease; a lease  *)
(* that ran out is taken back by the next claim, whoever makes it.         *)
(*                                                                         *)
(* A step is one SQL statement or one transaction.  What a process read    *)
(* before it -- the time, the attempts of a job -- is kept in variables of *)
(* its own and may be out of date when it is used.                         *)
(***************************************************************************)
EXTENDS Integers, Sequences

CONSTANTS
  JobId,        \* rows the table may come to have
  Producer,     \* processes that call enqueue()
  Worker,       \* processes that run an OutboxWorker
  Owner,        \* worker_id values
  OwnerOf,      \* [Worker -> Owner]: "worker-default" unless one is given
  JobType,
  Accepts,      \* [Worker -> SUBSET JobType], the job_types of claim_next
  Handles,      \* [Worker -> SUBSET JobType], the keys of its handlers
  Request,      \* arguments of enqueue(): [type, key, max, delay]
  LeaseSeconds, \* DEFAULT_LEASE_SECONDS
  Backoff,      \* DEFAULT_BACKOFF_SECONDS
  NoJob, NoRequest, NoKey, NoOwner, NoWorker,
  MaxCrashes,   \* bound: worker processes that die
  MaxRequeues,  \* bound: successful calls of requeue_dead
  MaxBeats,     \* bound: heartbeats
  MaxClaims     \* bound: claims of one job

ASSUME OwnerAssumption == OwnerOf \in [Worker -> Owner] /\ NoOwner \notin Owner
ASSUME TypesAssumption ==
  Accepts \in [Worker -> SUBSET JobType] /\ Handles \in [Worker -> SUBSET JobType]
ASSUME RequestAssumption ==
  \A r \in Request : r.type \in JobType /\ r.max \in Nat /\ r.delay \in Nat
ASSUME TimeAssumption ==
  LeaseSeconds \in Nat \ {0} /\ Backoff \in Seq(Nat) /\ Backoff # <<>>
ASSUME NullAssumption ==
  NoJob \notin JobId /\ NoRequest \notin Request /\ NoWorker \notin Worker

VARIABLES
  status,       \* the row's status; "absent" while there is no such row
  request,      \* what it was inserted with: job_type, dedup_key, max_attempts
  attempts, owner, leaseUntil, availableAt,
  clock,        \* time.time()
  ppc, asked, due, answer,
                \* each producer: where it is in enqueue(), its request, when
                \* that becomes available, the job_id it was given
  wpc, now, job, seen, until,
                \* each worker: where it is, the time it looked at, the job it
                \* claimed, the attempts it read, the end of its lease
  crashes, requeues, beats

rowVars  == <<status, request, attempts, owner, leaseUntil, availableAt>>
prodVars == <<ppc, asked, due, answer>>
workVars == <<wpc, now, job, seen, until>>
counters == <<crashes, requeues, beats>>
vars == <<rowVars, clock, prodVars, workVars, counters>>

Status == {"absent", "pending", "running", "completed", "dead"}

(* Stages in which a worker believes that its job is its own. *)
Holding == {"handling", "failing", "judging"}

WorkerStages == {"idle", "recovering", "claiming"} \cup Holding

Limit(j) == request[j].max
Holds(w, j) == wpc[w] \in Holding /\ job[w] = j

Init ==
  /\ status = [j \in JobId |-> "absent"]
  /\ request = [j \in JobId |-> NoRequest]
  /\ attempts = [j \in JobId |-> 0]
  /\ owner = [j \in JobId |-> NoOwner]
  /\ leaseUntil = [j \in JobId |-> 0]
  /\ availableAt = [j \in JobId |-> 0]
  /\ clock = 0
  /\ ppc = [p \in Producer |-> "idle"]
  /\ asked = [p \in Producer |-> NoRequest]
  /\ due = [p \in Producer |-> 0]
  /\ answer = [p \in Producer |-> NoJob]
  /\ wpc = [w \in Worker |-> "idle"]
  /\ now = [w \in Worker |-> 0]
  /\ job = [w \in Worker |-> NoJob]
  /\ seen = [w \in Worker |-> 0]
  /\ until = [w \in Worker |-> 0]
  /\ crashes = 0 /\ requeues = 0 /\ beats = 0

-----------------------------------------------------------------------------
(***************************************************************************)
(* enqueue: look the dedup key up, insert if it is new.  The unique index  *)
(* refuses a second row with one key; the key is then looked up again, and *)
(* since no row is ever deleted that finds it.                             *)
(***************************************************************************)
KeyHolder(r) ==
  {j \in JobId : status[j] # "absent" /\ r.key # NoKey /\ request[j].key = r.key}

Answered(p, j) ==
  /\ answer' = [answer EXCEPT ![p] = j]
  /\ due' = [due EXCEPT ![p] = 0]
  /\ ppc' = [ppc EXCEPT ![p] = "idle"]

EnqueueKnown(p) ==
  /\ ppc[p] = "idle"
  /\ \E r \in Request : \E j \in KeyHolder(r) :
       /\ asked' = [asked EXCEPT ![p] = r]
       /\ Answered(p, j)
  /\ UNCHANGED <<rowVars, clock, workVars, counters>>

EnqueueNew(p) ==
  /\ ppc[p] = "idle"
  /\ \E j \in JobId : status[j] = "absent"
  /\ \E r \in Request :
       /\ KeyHolder(r) = {}
       /\ asked' = [asked EXCEPT ![p] = r]
       /\ due' = [due EXCEPT ![p] = clock + r.delay]
  /\ ppc' = [ppc EXCEPT ![p] = "inserting"]
  /\ answer' = [answer EXCEPT ![p] = NoJob]
  /\ UNCHANGED <<rowVars, clock, workVars, counters>>

(* Mutant: a table without the unique index on dedup_key. *)
InsertUnchecked(p) ==
  /\ ppc[p] = "inserting"
  /\ \E j \in JobId :
       /\ status[j] = "absent"
       /\ status' = [status EXCEPT ![j] = "pending"]
       /\ request' = [request EXCEPT ![j] = asked[p]]
       /\ availableAt' = [availableAt EXCEPT ![j] = due[p]]
       /\ Answered(p, j)
  /\ UNCHANGED <<attempts, owner, leaseUntil, clock, asked, workVars, counters>>

Insert(p) ==
  /\ ppc[p] = "inserting"
  /\ KeyHolder(asked[p]) = {}
  /\ \E j \in JobId :
       /\ status[j] = "absent"
       /\ status' = [status EXCEPT ![j] = "pending"]
       /\ request' = [request EXCEPT ![j] = asked[p]]
       /\ availableAt' = [availableAt EXCEPT ![j] = due[p]]
       /\ Answered(p, j)
  /\ UNCHANGED <<attempts, owner, leaseUntil, clock, asked, workVars, counters>>

InsertCollides(p) ==
  /\ ppc[p] = "inserting"
  /\ \E j \in KeyHolder(asked[p]) : Answered(p, j)
  /\ UNCHANGED <<rowVars, clock, asked, workVars, counters>>

-----------------------------------------------------------------------------
(***************************************************************************)
(* claim_next: note the time, take back expired leases, then -- in another *)
(* transaction -- take the job that has been available longest.            *)
(***************************************************************************)
GoTo(w, stage) == wpc' = [wpc EXCEPT ![w] = stage]

Return(w) ==
  /\ GoTo(w, "idle")
  /\ now' = [now EXCEPT ![w] = 0]
  /\ job' = [job EXCEPT ![w] = NoJob]
  /\ seen' = [seen EXCEPT ![w] = 0]
  /\ until' = [until EXCEPT ![w] = 0]

StartClaim(w) ==
  /\ wpc[w] = "idle"
  /\ now' = [now EXCEPT ![w] = clock]
  /\ GoTo(w, "recovering")
  /\ UNCHANGED <<rowVars, clock, prodVars, job, seen, until, counters>>

(* Mutant: a lease counts as expired at its last moment. *)
ExpiredEarly(j, t) == status[j] = "running" /\ leaseUntil[j] > 0 /\ leaseUntil[j] <= t

Expired(j, t) == status[j] = "running" /\ leaseUntil[j] > 0 /\ leaseUntil[j] < t

(* Mutant: the lease is cleared, the row stays running. *)
RecoverLeaseOnly(w) ==
  LET lost == {j \in JobId : Expired(j, now[w])} IN
  /\ wpc[w] = "recovering"
  /\ owner' = [j \in JobId |-> IF j \in lost THEN NoOwner ELSE owner[j]]
  /\ leaseUntil' = [j \in JobId |-> IF j \in lost THEN 0 ELSE leaseUntil[j]]
  /\ GoTo(w, "claiming")
  /\ UNCHANGED <<status, request, attempts, availableAt, clock, prodVars, now,
                 job, seen, until, counters>>

Recover(w) ==
  LET lost == {j \in JobId : Expired(j, now[w])} IN
  /\ wpc[w] = "recovering"
  /\ status' = [j \in JobId |-> IF j \in lost THEN "pending" ELSE status[j]]
  /\ owner' = [j \in JobId |-> IF j \in lost THEN NoOwner ELSE owner[j]]
  /\ leaseUntil' = [j \in JobId |-> IF j \in lost THEN 0 ELSE leaseUntil[j]]
  /\ GoTo(w, "claiming")
  /\ UNCHANGED <<request, attempts, availableAt, clock, prodVars, now, job, seen,
                 until, counters>>

Claimable(w) ==
  {j \in JobId : status[j] = "pending" /\ availableAt[j] <= now[w]
                   /\ request[j].type \in Accepts[w]}

(* Mutant: the lease is not written with the claim. *)
ClaimWithoutLease(w) ==
  /\ wpc[w] = "claiming"
  /\ \E j \in Claimable(w) :
       /\ attempts[j] < MaxClaims
       /\ status' = [status EXCEPT ![j] = "running"]
       /\ owner' = [owner EXCEPT ![j] = OwnerOf[w]]
       /\ attempts' = [attempts EXCEPT ![j] = @ + 1]
       /\ job' = [job EXCEPT ![w] = j]
       /\ now' = [now EXCEPT ![w] = 0]
       /\ until' = [until EXCEPT ![w] = now[w] + LeaseSeconds]
       /\ GoTo(w, IF request[j].type \in Handles[w] THEN "handling" ELSE "failing")
  /\ UNCHANGED <<request, leaseUntil, availableAt, clock, prodVars, seen, counters>>

Claim(w) ==
  /\ wpc[w] = "claiming"
  /\ \E j \in Claimable(w) :
       /\ \A i \in Claimable(w) : availableAt[j] <= availableAt[i]
       /\ attempts[j] < MaxClaims
       /\ status' = [status EXCEPT ![j] = "running"]
       /\ owner' = [owner EXCEPT ![j] = OwnerOf[w]]
       /\ leaseUntil' = [leaseUntil EXCEPT ![j] = now[w] + LeaseSeconds]
       /\ attempts' = [attempts EXCEPT ![j] = @ + 1]
       /\ job' = [job EXCEPT ![w] = j]
       /\ now' = [now EXCEPT ![w] = 0]
       /\ until' = [until EXCEPT ![w] = now[w] + LeaseSeconds]
       (* run_once fails a job it has no handler for *)
       /\ GoTo(w, IF request[j].type \in Handles[w] THEN "handling" ELSE "failing")
  /\ UNCHANGED <<request, availableAt, clock, prodVars, seen, counters>>

ClaimNothing(w) ==
  /\ wpc[w] = "claiming"
  /\ Claimable(w) = {}
  /\ Return(w)
  /\ UNCHANGED <<rowVars, clock, prodVars, counters>>

-----------------------------------------------------------------------------
(***************************************************************************)
(* The handler may renew the lease.  It ends well (mark_complete, whose    *)
(* update only asks for a running row) or raises (mark_failed).            *)
(***************************************************************************)
Heartbeat(w) ==
  LET j == job[w] IN
  /\ wpc[w] = "handling"
  /\ beats < MaxBeats
  /\ status[j] = "running"
  /\ owner[j] = OwnerOf[w]
  /\ leaseUntil' = [leaseUntil EXCEPT ![j] = clock + LeaseSeconds]
  /\ until' = [until EXCEPT ![w] = clock + LeaseSeconds]
  /\ beats' = beats + 1
  /\ UNCHANGED <<status, request, attempts, owner, availableAt, clock, prodVars,
                 wpc, now, job, seen, crashes, requeues>>

MarkComplete(w) ==
  LET j == job[w] IN
  /\ wpc[w] = "handling"
  /\ IF status[j] = "running"
     THEN /\ status' = [status EXCEPT ![j] = "completed"]
          /\ owner' = [owner EXCEPT ![j] = NoOwner]
     ELSE UNCHANGED <<status, owner>>
  /\ Return(w)
  /\ UNCHANGED <<request, attempts, leaseUntil, availableAt, clock, prodVars,
                 counters>>

HandlerRaises(w) ==
  /\ wpc[w] = "handling"
  /\ GoTo(w, "failing")
  /\ UNCHANGED <<rowVars, clock, prodVars, now, job, seen, until, counters>>

(* mark_failed reads the attempts in one statement ... *)
ReadAttempts(w) ==
  /\ wpc[w] = "failing"
  /\ seen' = [seen EXCEPT ![w] = attempts[job[w]]]
  /\ GoTo(w, "judging")
  /\ UNCHANGED <<rowVars, clock, prodVars, now, job, until, counters>>

(* ... and updates the row in another, whatever has become of it. *)
Delay(n) == Backoff[IF n < 1 THEN 1 ELSE IF n > Len(Backoff) THEN Len(Backoff) ELSE n]

(* Mutant: the last attempt is not made. *)
GiveUpEarly(w) ==
  LET j == job[w] IN
  /\ wpc[w] = "judging"
  /\ seen[w] >= Limit(j) - 1
  /\ status' = [status EXCEPT ![j] = "dead"]
  /\ owner' = [owner EXCEPT ![j] = NoOwner]
  /\ Return(w)
  /\ UNCHANGED <<request, attempts, leaseUntil, availableAt, clock, prodVars,
                 counters>>

(* Mutant: the status that JobStatus declares and nobody handles. *)
GiveUpAsFailed(w) ==
  LET j == job[w] IN
  /\ wpc[w] = "judging"
  /\ seen[w] >= Limit(j)
  /\ status' = [status EXCEPT ![j] = "failed"]
  /\ owner' = [owner EXCEPT ![j] = NoOwner]
  /\ Return(w)
  /\ UNCHANGED <<request, attempts, leaseUntil, availableAt, clock, prodVars,
                 counters>>

GiveUp(w) ==
  LET j == job[w] IN
  /\ wpc[w] = "judging"
  /\ seen[w] >= Limit(j)
  /\ status' = [status EXCEPT ![j] = "dead"]
  /\ owner' = [owner EXCEPT ![j] = NoOwner]
  /\ Return(w)
  /\ UNCHANGED <<request, attempts, leaseUntil, availableAt, clock, prodVars,
                 counters>>

(* Mutant: one attempt too many is put back in the queue. *)
RetryOnceMore(w) ==
  LET j == job[w] IN
  /\ wpc[w] = "judging"
  /\ seen[w] <= Limit(j)
  /\ status' = [status EXCEPT ![j] = "pending"]
  /\ owner' = [owner EXCEPT ![j] = NoOwner]
  /\ leaseUntil' = [leaseUntil EXCEPT ![j] = 0]
  /\ availableAt' = [availableAt EXCEPT ![j] = clock + Delay(seen[w])]
  /\ Return(w)
  /\ UNCHANGED <<request, attempts, clock, prodVars, counters>>

Retry(w) ==
  LET j == job[w] IN
  /\ wpc[w] = "judging"
  /\ seen[w] < Limit(j)
  /\ status' = [status EXCEPT ![j] = "pending"]
  /\ owner' = [owner EXCEPT ![j] = NoOwner]
  /\ leaseUntil' = [leaseUntil EXCEPT ![j] = 0]
  /\ availableAt' = [availableAt EXCEPT ![j] = clock + Delay(seen[w])]
  /\ Return(w)
  /\ UNCHANGED <<request, attempts, clock, prodVars, counters>>

(* The process dies, or an exception of SQLite ends run_loop. *)
Crash(w) ==
  /\ wpc[w] # "idle"
  /\ crashes < MaxCrashes
  /\ crashes' = crashes + 1
  /\ Return(w)
  /\ UNCHANGED <<rowVars, clock, prodVars, requeues, beats>>

(* Mutant: the update does not ask for a dead row. *)
RequeueAny(j) ==
  /\ requeues < MaxRequeues
  /\ status[j] # "absent"
  /\ status' = [status EXCEPT ![j] = "pending"]
  /\ attempts' = [attempts EXCEPT ![j] = 0]
  /\ availableAt' = [availableAt EXCEPT ![j] = clock]
  /\ requeues' = requeues + 1
  /\ UNCHANGED <<request, owner, leaseUntil, clock, prodVars, workVars, crashes, beats>>

RequeueDead(j) ==
  /\ requeues < MaxRequeues
  /\ status[j] = "dead"
  /\ status' = [status EXCEPT ![j] = "pending"]
  /\ attempts' = [attempts EXCEPT ![j] = 0]
  /\ availableAt' = [availableAt EXCEPT ![j] = clock]
  /\ requeues' = requeues + 1
  /\ UNCHANGED <<request, owner, leaseUntil, clock, prodVars, workVars, crashes, beats>>

(***************************************************************************)
(* Time passes.  Only comparisons with leases and due times depend on it,  *)
(* so it is left standing while none of them is still to come.             *)
(***************************************************************************)
Tick ==
  /\ \/ \E j \in JobId : status[j] = "pending" /\ availableAt[j] > clock
     \/ \E j \in JobId : status[j] = "running" /\ leaseUntil[j] >= clock
     \/ \E p \in Producer : ppc[p] = "inserting" /\ due[p] > clock
  /\ clock' = clock + 1
  /\ UNCHANGED <<rowVars, prodVars, workVars, counters>>

-----------------------------------------------------------------------------
Enqueue(p) == EnqueueKnown(p) \/ EnqueueNew(p) \/ Insert(p) \/ InsertCollides(p)

(* What run_loop does by itself; a heartbeat is the handler's choice. *)
Work(w) ==
  \/ StartClaim(w) \/ Recover(w) \/ Claim(w) \/ ClaimNothing(w)
  \/ MarkComplete(w) \/ HandlerRaises(w)
  \/ ReadAttempts(w) \/ GiveUp(w) \/ Retry(w)

Next ==
  \/ \E p \in Producer : Enqueue(p)
  \/ \E w \in Worker : Work(w) \/ Heartbeat(w) \/ Crash(w)
  \/ \E j \in JobId : RequeueDead(j)
  \/ Tick

Spec == Init /\ [][Next]_vars

(***************************************************************************)
(* No worker outlives its lease: handlers, and mark_failed after them, end *)
(* within DEFAULT_LEASE_SECONDS of the claim or of the last heartbeat.     *)
(***************************************************************************)
Timely == \A w \in Worker : wpc[w] \in Holding => clock <= until[w]

TimelySpec == Init /\ [][Next /\ Timely']_vars

(* Workers run, time passes, and no worker waits forever on the database. *)
FairSpec ==
  /\ TimelySpec
  /\ \A w \in Worker : WF_vars(Work(w) /\ Timely')
  /\ \A p \in Producer : WF_vars((Insert(p) \/ InsertCollides(p)) /\ Timely')
  /\ WF_vars(Tick /\ Timely')

-----------------------------------------------------------------------------
(* The type invariant. *)
TypeOK ==
  /\ status \in [JobId -> Status]
  /\ request \in [JobId -> Request \cup {NoRequest}]
  /\ attempts \in [JobId -> Nat]
  /\ owner \in [JobId -> Owner \cup {NoOwner}]
  /\ leaseUntil \in [JobId -> Nat]
  /\ availableAt \in [JobId -> Nat]
  /\ clock \in Nat
  /\ ppc \in [Producer -> {"idle", "inserting"}]
  /\ asked \in [Producer -> Request \cup {NoRequest}]
  /\ due \in [Producer -> Nat]
  /\ answer \in [Producer -> JobId \cup {NoJob}]
  /\ wpc \in [Worker -> WorkerStages]
  /\ now \in [Worker -> Nat]
  /\ job \in [Worker -> JobId \cup {NoJob}]
  /\ seen \in [Worker -> Nat]
  /\ until \in [Worker -> Nat]
  /\ crashes \in Nat /\ requeues \in Nat /\ beats \in Nat

(***************************************************************************)
(* Whatever the interleaving of two enqueue calls with one dedup key, both *)
(* are told the same job: the one row that has the key.                    *)
(***************************************************************************)
EnqueueIdempotent ==
  \A p \in Producer :
    answer[p] # NoJob =>
      /\ status[answer[p]] # "absent"
      /\ asked[p].key # NoKey => KeyHolder(asked[p]) = {answer[p]}

(***************************************************************************)
(* A running row can always be taken back: it names a worker and carries a *)
(* lease that runs out (recovery skips rows without one).                  *)
(***************************************************************************)
RunningIsRecoverable ==
  \A j \in JobId : status[j] = "running" =>
    leaseUntil[j] > 0 /\ owner[j] # NoOwner /\ attempts[j] > 0

(***************************************************************************)
(* While leases are respected: two workers never hold one job, and the row *)
(* of a held job is the holder's, at least until the end of its lease.     *)
(***************************************************************************)
OneHolder ==
  \A w1, w2 \in Worker, j \in JobId : Holds(w1, j) /\ Holds(w2, j) => w1 = w2

HolderOwnsRow ==
  \A w \in Worker, j \in JobId : Holds(w, j) =>
    status[j] = "running" /\ owner[j] = OwnerOf[w] /\ leaseUntil[j] >= until[w]

(* "Dead-letter after max attempts": no job is given up earlier. *)
DeadIsExhausted == \A j \in JobId : status[j] = "dead" => attempts[j] >= Limit(j)

(* A completed job is never queued, run or given up again. *)
CompletedIsFinal ==
  [][\A j \in JobId : status[j] = "completed" => status'[j] = "completed"]_vars

(***************************************************************************)
(* Liveness: every job that was enqueued is in the end completed or given  *)
(* up, though its handler may raise and its worker may die.                *)
(***************************************************************************)
JobsSettle ==
  \A j \in JobId : status[j] = "pending" ~> status[j] \in {"completed", "dead"}

-----------------------------------------------------------------------------
(* The outbox implements TaskQueue while leases are respected. *)
StateOf(j) ==
  CASE status[j] = "absent"    -> "new"
    [] status[j] = "pending"   -> "waiting"
    [] status[j] = "running"   -> "taken"
    [] status[j] = "completed" -> "finished"
    [] status[j] = "dead"      -> "dropped"

HolderOf(j) ==
  IF \E w \in Worker : Holds(w, j) THEN CHOOSE w \in Worker : Holds(w, j) ELSE NoWorker

Promise ==
  INSTANCE TaskQueue
    WITH Job    <- JobId,
         Budget <- {r.max : r \in Request},
         state  <- [j \in JobId |-> StateOf(j)],
         holder <- [j \in JobId |-> HolderOf(j)],
         tries  <- attempts,
         budget <- [j \in JobId |-> IF status[j] = "absent" THEN 0 ELSE Limit(j)]

Implements == Promise!Spec
=============================================================================
