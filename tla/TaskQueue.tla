------------------------------ MODULE TaskQueue ------------------------------
(***************************************************************************)
(* What the outbox promises: a job is handled by one worker at a time, a   *)
(* finished job stays finished, and a job is given up only after it has    *)
(* been tried as often as it asked for.                                    *)
(***************************************************************************)
EXTENDS Naturals

CONSTANTS Job, Worker, NoWorker, Budget   \* Budget: how often jobs may fail

VARIABLES
  state,    \* [Job -> "new", "waiting", "taken", "finished" or "dropped"]
  holder,   \* the worker that handles the job
  tries,    \* how often the job has been taken since it was last queued
  budget    \* how often it may be tried

vars == <<state, holder, tries, budget>>

Init ==
  /\ state = [j \in Job |-> "new"]
  /\ holder = [j \in Job |-> NoWorker]
  /\ tries = [j \in Job |-> 0]
  /\ budget = [j \in Job |-> 0]

Move(j, from, to) ==
  /\ state[j] = from
  /\ state' = [state EXCEPT ![j] = to]

Submit(j, n) ==
  /\ Move(j, "new", "waiting")
  /\ budget' = [budget EXCEPT ![j] = n]
  /\ UNCHANGED <<holder, tries>>

Take(j, w) ==
  /\ Move(j, "waiting", "taken")
  /\ holder[j] = NoWorker
  /\ holder' = [holder EXCEPT ![j] = w]
  /\ tries' = [tries EXCEPT ![j] = @ + 1]
  /\ UNCHANGED budget

Dropping(j) == holder' = [holder EXCEPT ![j] = NoWorker]

Finish(j, w) ==
  /\ holder[j] = w
  /\ Move(j, "taken", "finished")
  /\ Dropping(j)
  /\ UNCHANGED <<tries, budget>>

(* The holder gives the job back, or gives it up once its budget is spent. *)
Fail(j, w) ==
  /\ holder[j] = w
  /\ IF tries[j] >= budget[j] THEN Move(j, "taken", "dropped")
                              ELSE Move(j, "taken", "waiting")
  /\ Dropping(j)
  /\ UNCHANGED <<tries, budget>>

(* The holder dies; its jobs can be taken again only after this. *)
Lose(j, w) ==
  /\ holder[j] = w
  /\ Dropping(j)
  /\ UNCHANGED <<state, tries, budget>>

Expire(lost) ==
  /\ \A j \in lost : state[j] = "taken" /\ holder[j] = NoWorker
  /\ state' = [j \in Job |-> IF j \in lost THEN "waiting" ELSE state[j]]
  /\ UNCHANGED <<holder, tries, budget>>

Revive(j) ==
  /\ Move(j, "dropped", "waiting")
  /\ tries' = [tries EXCEPT ![j] = 0]
  /\ UNCHANGED <<holder, budget>>

Next ==
  \/ \E j \in Job, n \in Budget : Submit(j, n)
  \/ \E j \in Job, w \in Worker :
       Take(j, w) \/ Finish(j, w) \/ Fail(j, w) \/ Lose(j, w)
  \/ \E lost \in SUBSET Job : Expire(lost)
  \/ \E j \in Job : Revive(j)

Spec == Init /\ [][Next]_vars
=============================================================================
