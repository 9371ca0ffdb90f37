----------------------------- MODULE KeeperQueue -----------------------------
(***************************************************************************)
(* services/keeper: the job queue (jobQueue.ts), the advisory lock around  *)
(* each run (lock.ts) and the process around both (index.ts), in several   *)
(* keeper instances that share one database and one signing account.       *)
(*                                                                         *)
(* A run may never settle: a stalled socket is a promise nobody resolves.  *)
(* The deadline then abandons it, which frees the lane and the job's name  *)
(* in this process; the run itself goes on, and so does its lock, because  *)
(* the lock is released in the run's own finally.  A process that exits or *)
(* dies closes its sessions, and with them its locks.                      *)
(***************************************************************************)
EXTENDS Services, Sequences, Functions

CONSTANTS
    Keepers,     \* keeper instances
    Jobs,        \* job names
    LOCK_SCOPE   \* KEEPER_LOCK_SCOPE: "job" unless it is set to "global"

ASSUME KeeperQueueAssumption ==
    /\ LOCK_SCOPE \in {"job", "global"}
    /\ None \notin Keepers \X Jobs

VARIABLES
    keepers,     \* per instance: "up", "stopping" or "down"
    lane,        \* per instance: the queued jobs, the head being the one that runs
    runs,        \* the runs that have not settled: records [keeper, job, stage, lane]
    locks,       \* per lock key: the instance and job that hold it
    queueFaults  \* processes killed

queueVars == <<keepers, lane, runs, locks, queueFaults>>

(* getLockKey *)
LockKey(j) == IF LOCK_SCOPE = "global" THEN "global" ELSE j

LockKeys == {LockKey(j) : j \in Jobs}

QueueInit ==
    /\ keepers = [k \in Keepers |-> "up"]
    /\ lane = [k \in Keepers |-> <<>>]
    /\ runs = {}
    /\ locks = [x \in LockKeys |-> None]
    /\ queueFaults = 0

InFlight(k) == Range(lane[k])

(* The run at the head of the lane; abandoned ones have lane = FALSE. *)
Heads(k) == {r \in runs : r.keeper = k /\ r.lane}

-----------------------------------------------------------------------------
(* A cron tick: queued unless a job of this name is queued or running, or  *)
(* the process is shutting down.                                           *)
Tick(k, j) ==
    /\ keepers[k] = "up"
    /\ j \notin InFlight(k)
    /\ lane' = [lane EXCEPT ![k] = Append(@, j)]
    /\ UNCHANGED <<keepers, runs, locks, queueFaults>>

(* The lane's promise chain reaches the job: fn() is called.  A process    *)
(* that is stopping still runs what is queued.                             *)
StartRun(k) ==
    /\ keepers[k] # "down"
    /\ lane[k] # <<>>
    /\ Heads(k) = {}
    /\ runs' = runs \cup {[keeper |-> k, job |-> Head(lane[k]), stage |-> "acquire", lane |-> TRUE]}
    /\ UNCHANGED <<keepers, lane, locks, queueFaults>>

(* A settled run leaves, and when it was the lane's the next may start. *)
Settle(r) ==
    /\ runs' = runs \ {r}
    /\ lane' = IF r.lane THEN [lane EXCEPT ![r.keeper] = Tail(@)] ELSE lane

(* pg_try_advisory_lock: the lock, or the tick is skipped. *)
AcquireLock(r) ==
    LET key == LockKey(r.job)
    IN  /\ r.stage = "acquire"
        /\ \/ /\ locks[key] = None
              /\ locks' = [locks EXCEPT ![key] = <<r.keeper, r.job>>]
              /\ runs' = (runs \ {r}) \cup {[r EXCEPT !.stage = "working"]}
              /\ UNCHANGED lane
           \/ /\ locks[key] # None
              /\ Settle(r)
              /\ UNCHANGED locks
        /\ UNCHANGED <<keepers, queueFaults>>

(* The query for the lock throws: the tick is skipped as well. *)
AcquireFails(r) ==
    /\ r.stage = "acquire"
    /\ queueFaults < MaxFaults
    /\ queueFaults' = queueFaults + 1
    /\ Settle(r)
    /\ UNCHANGED <<keepers, locks>>

(* The job returns or throws; either way the lock goes back. *)
FinishRun(r) ==
    /\ r.stage = "working"
    /\ Settle(r)
    /\ locks' = [locks EXCEPT ![LockKey(r.job)] = None]
    /\ UNCHANGED <<keepers, queueFaults>>

(* Mutant: abandoning a run also gives its lock back. *)
AbandonUnlocks(r) ==
    /\ r.lane
    /\ runs' = (runs \ {r}) \cup {[r EXCEPT !.lane = FALSE]}
    /\ lane' = [lane EXCEPT ![r.keeper] = Tail(@)]
    /\ locks' = IF r.stage = "working" THEN [locks EXCEPT ![LockKey(r.job)] = None]
                ELSE locks
    /\ UNCHANGED <<keepers, queueFaults>>

(* Mutant: the deadline covers only the wait for the lock. *)
AbandonBeforeWork(r) ==
    /\ r.lane
    /\ r.stage = "acquire"
    /\ runs' = (runs \ {r}) \cup {[r EXCEPT !.lane = FALSE]}
    /\ lane' = [lane EXCEPT ![r.keeper] = Tail(@)]
    /\ UNCHANGED <<keepers, locks, queueFaults>>

(* withDeadline: the lane moves on, the run does not stop. *)
Abandon(r) ==
    /\ r.lane
    /\ runs' = (runs \ {r}) \cup {[r EXCEPT !.lane = FALSE]}
    /\ lane' = [lane EXCEPT ![r.keeper] = Tail(@)]
    /\ UNCHANGED <<keepers, locks, queueFaults>>

RunStep(r) == AcquireLock(r) \/ AcquireFails(r) \/ FinishRun(r) \/ Abandon(r)

-----------------------------------------------------------------------------
(* shutdown: no more ticks, then exit once the lane is empty or the grace  *)
(* period is over; a second signal and a crash do not wait at all.         *)
Stop(k) ==
    /\ keepers[k] = "up"
    /\ keepers' = [keepers EXCEPT ![k] = "stopping"]
    /\ UNCHANGED <<lane, runs, locks, queueFaults>>

ProcessEnds(k) ==
    /\ keepers' = [keepers EXCEPT ![k] = "down"]
    /\ lane' = [lane EXCEPT ![k] = <<>>]
    /\ runs' = {r \in runs : r.keeper # k}
    /\ locks' = [x \in DOMAIN locks |->
                     IF locks[x] # None /\ locks[x][1] = k THEN None ELSE locks[x]]

Exit(k) ==
    /\ keepers[k] = "stopping"
    /\ ProcessEnds(k)
    /\ UNCHANGED queueFaults

Killed(k) ==
    /\ keepers[k] = "up"
    /\ queueFaults < MaxFaults
    /\ queueFaults' = queueFaults + 1
    /\ ProcessEnds(k)

Restart(k) ==
    /\ keepers[k] = "down"
    /\ keepers' = [keepers EXCEPT ![k] = "up"]
    /\ UNCHANGED <<lane, runs, locks, queueFaults>>

QueueNext ==
    \/ \E k \in Keepers :
           \/ \E j \in Jobs : Tick(k, j)
           \/ StartRun(k) \/ Stop(k) \/ Exit(k) \/ Killed(k) \/ Restart(k)
    \/ \E r \in runs : RunStep(r)

(* The lane starts what is next and every run is held to its deadline.     *)
(* Nothing says that a run ever settles by itself.                         *)
QueueFairness ==
    \A k \in Keepers :
        /\ WF_queueVars(StartRun(k))
        /\ WF_queueVars(\E r \in Heads(k) : Abandon(r))

QueueSpec == QueueInit /\ [][QueueNext]_queueVars /\ QueueFairness

-----------------------------------------------------------------------------
(* Properties *)

Working == {r \in runs : r.stage = "working"}

(* No job runs twice at the same time, in one keeper or in two: not when   *)
(* a run is abandoned and its name queued again, not across a restart.     *)
OneRunPerJob ==
    \A r, q \in Working : r.job = q.job => r = q

(* The lane never jams: a queued job is run, skipped or abandoned, even    *)
(* when nothing that runs ever settles, so its name is free again and      *)
(* again and cron can queue the next run.                                  *)
LaneNeverJams ==
    \A k \in Keepers, j \in Jobs : []<>(j \notin InFlight(k))

=============================================================================
