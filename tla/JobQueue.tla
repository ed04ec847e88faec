------------------------------ MODULE JobQueue ------------------------------
(***************************************************************************)
(* The BullMQ queue "image-processing": QueueService adds jobs to it with  *)
(* the options of src/queue/queue.service.ts, ImageProcessingWorker takes  *)
(* them with the options of src/queue/image-processing.worker.ts.  Redis   *)
(* and the scripts of BullMQ that move a job between its lists are not in  *)
(* this repository: what they do to a job is modelled from the options the *)
(* code passes (attempts, backoff, concurrency) and marked external in the *)
(* map.  What a job computes is left to the module that extends this one.  *)
(***************************************************************************)
EXTENDS Naturals

CONSTANTS
  Jobs,          \* the jobs that may be added; one per call of Queue.add
  Slots,         \* the concurrent runs of the one Worker ("concurrency: 2")
  Attempts,      \* "attempts: 3": failed runs after which a job is given up
  MaxStalled,    \* BullMQ's maxStalledCount, which the code leaves at 1
  MaxCrashes,    \* bound: crashes of the process in one behaviour
  MaxLostLocks,  \* bound: locks of live runs lost in one behaviour
  MaxCloses,     \* bound: orderly shutdowns in one behaviour
  NoJob, NoSlot

ASSUME QueueAssumption ==
  /\ Attempts \in Nat \ {0}
  /\ MaxStalled \in Nat
  /\ MaxCrashes \in Nat
  /\ MaxLostLocks \in Nat
  /\ MaxCloses \in Nat
  /\ NoJob \notin Jobs
  /\ NoSlot \notin Slots

VARIABLES
  jobState,         \* the list of the queue a job is in
  attemptsMade,     \* failed runs recorded for a job
  attemptsStarted,  \* runs started for a job
  stalledCounter,   \* times a job was found active without a lock
  lock,             \* the slot whose token holds the lock of a job
  running,          \* the job a slot is executing
  process,          \* the NestJS process that holds queue and worker
  crashes,          \* crashes so far
  lostLocks,        \* locks of live runs lost so far
  closes            \* orderly shutdowns so far

queueVars == <<jobState, attemptsMade, attemptsStarted, stalledCounter, lock,
               running, process, crashes, lostLocks, closes>>

Pending  == {"wait", "active", "delayed"}
Terminal == {"completed", "failed"}

QInit ==
  /\ jobState = [j \in Jobs |-> "absent"]
  /\ attemptsMade = [j \in Jobs |-> 0]
  /\ attemptsStarted = [j \in Jobs |-> 0]
  /\ stalledCounter = [j \in Jobs |-> 0]
  /\ lock = [j \in Jobs |-> NoSlot]
  /\ running = [s \in Slots |-> NoJob]
  /\ process = "up"
  /\ crashes = 0
  /\ lostLocks = 0
  /\ closes = 0

-----------------------------------------------------------------------------
(* QueueService.                                                           *)

\* enqueueImageProcessingJob: Queue.add without a jobId, so every call makes
\* a new job.  Once onModuleDestroy has closed the queue the call throws.
Enqueue(j) ==
  /\ process = "up"
  /\ jobState[j] = "absent"
  /\ jobState' = [jobState EXCEPT ![j] = "wait"]
  /\ UNCHANGED <<attemptsMade, attemptsStarted, stalledCounter, lock, running,
                 process, crashes, lostLocks, closes>>

-----------------------------------------------------------------------------
(* The Worker: one loop per slot.                                          *)

\* A slot fetches a job and takes its lock.  The list is first-in first-out;
\* any waiting job may be next here, since two slots and retries reorder it.
Claim(s, j) ==
  /\ process = "up"
  /\ running[s] = NoJob
  /\ jobState[j] = "wait"
  /\ jobState' = [jobState EXCEPT ![j] = "active"]
  /\ attemptsStarted' = [attemptsStarted EXCEPT ![j] = @ + 1]
  /\ lock' = [lock EXCEPT ![j] = s]
  /\ running' = [running EXCEPT ![s] = j]
  /\ UNCHANGED <<attemptsMade, stalledCounter, process, crashes, lostLocks, closes>>

HoldsLock_Unchecked(s) == TRUE

\* A finish script refuses a caller whose token is not the one on the lock.
HoldsLock(s) == lock[running[s]] = s

\* The processor resolved: the job moves to the completed list.
Complete(s) ==
  /\ running[s] # NoJob
  /\ HoldsLock(s)
  /\ jobState' = [jobState EXCEPT ![running[s]] = "completed"]
  /\ lock' = [lock EXCEPT ![running[s]] = NoSlot]
  /\ running' = [running EXCEPT ![s] = NoJob]
  /\ UNCHANGED <<attemptsMade, attemptsStarted, stalledCounter, process,
                 crashes, lostLocks, closes>>

MayRetry_Forever(j) == TRUE

\* A failed run is followed by another one while attempts remain.
MayRetry(j) == attemptsMade[j] + 1 < Attempts

\* The processor threw: back off (delayed list) or give up (failed list).
Fail(s) ==
  LET j == running[s] IN
  /\ j # NoJob
  /\ HoldsLock(s)
  /\ attemptsMade' = [attemptsMade EXCEPT ![j] = @ + 1]
  /\ jobState' = [jobState EXCEPT ![j] =
                    IF MayRetry(j) THEN "delayed" ELSE "failed"]
  /\ lock' = [lock EXCEPT ![j] = NoSlot]
  /\ running' = [running EXCEPT ![s] = NoJob]
  /\ UNCHANGED <<attemptsStarted, stalledCounter, process, crashes, lostLocks, closes>>

\* The run ended, either way, after its lock was lost: the script refuses
\* the result ("Missing lock") and only the slot becomes free.
LostFinish(s) ==
  /\ running[s] # NoJob
  /\ ~HoldsLock(s)
  /\ running' = [running EXCEPT ![s] = NoJob]
  /\ UNCHANGED <<jobState, attemptsMade, attemptsStarted, stalledCounter,
                 lock, process, crashes, lostLocks, closes>>

-----------------------------------------------------------------------------
(* What Redis and BullMQ do to a job on their own.                         *)

\* The exponential backoff of a delayed job is over.
Promote(j) ==
  /\ process = "up"
  /\ jobState[j] = "delayed"
  /\ jobState' = [jobState EXCEPT ![j] = "wait"]
  /\ UNCHANGED <<attemptsMade, attemptsStarted, stalledCounter, lock, running,
                 process, crashes, lostLocks, closes>>

HasOwner_NoRenewal(j) == FALSE

HasOwner_NoExpiry(j) == TRUE

\* The run whose token is on the lock still exists and renews it.
HasOwner(j) == lock[j] # NoSlot /\ running[lock[j]] = j

\* The lock of a run that no longer exists is not renewed and expires.
ExpireLock(j) ==
  /\ lock[j] # NoSlot
  /\ ~HasOwner(j)
  /\ lock' = [lock EXCEPT ![j] = NoSlot]
  /\ UNCHANGED <<jobState, attemptsMade, attemptsStarted, stalledCounter,
                 running, process, crashes, lostLocks, closes>>

\* The renewal of a live run's lock came too late (a blocked event loop, a
\* partition from Redis): the run goes on without a lock.
LoseLock(j) ==
  /\ lostLocks < MaxLostLocks
  /\ HasOwner(j)
  /\ lock' = [lock EXCEPT ![j] = NoSlot]
  /\ lostLocks' = lostLocks + 1
  /\ UNCHANGED <<jobState, attemptsMade, attemptsStarted, stalledCounter,
                 running, process, crashes, closes>>

MayRestall_Forever(j) == TRUE

MayRestall(j) == stalledCounter[j] < MaxStalled

\* The stalled checker: an active job without a lock runs again, or has
\* "stalled more than allowable limit" and fails.
RecoverStalled(j) ==
  /\ process = "up"
  /\ jobState[j] = "active"
  /\ lock[j] = NoSlot
  /\ stalledCounter' = [stalledCounter EXCEPT ![j] = @ + 1]
  /\ jobState' = [jobState EXCEPT ![j] =
                    IF MayRestall(j) THEN "wait" ELSE "failed"]
  /\ UNCHANGED <<attemptsMade, attemptsStarted, lock, running, process,
                 crashes, lostLocks, closes>>

-----------------------------------------------------------------------------
(* The process.                                                            *)

Crash ==
  /\ process \in {"up", "closing"}
  /\ crashes < MaxCrashes
  /\ process' = "down"
  /\ running' = [s \in Slots |-> NoJob]
  /\ crashes' = crashes + 1
  /\ UNCHANGED <<jobState, attemptsMade, attemptsStarted, stalledCounter,
                 lock, lostLocks, closes>>

\* enableShutdownHooks: a signal starts onModuleDestroy of both providers.
BeginClose ==
  /\ process = "up"
  /\ closes < MaxCloses
  /\ process' = "closing"
  /\ closes' = closes + 1
  /\ UNCHANGED <<jobState, attemptsMade, attemptsStarted, stalledCounter,
                 lock, running, crashes, lostLocks>>

Drained_NotAwaited == TRUE

Drained == \A s \in Slots : running[s] = NoJob

\* "await this.worker.close()" returns once no run is left.
FinishClose ==
  /\ process = "closing"
  /\ Drained
  /\ process' = "down"
  /\ running' = [s \in Slots |-> NoJob]
  /\ UNCHANGED <<jobState, attemptsMade, attemptsStarted, stalledCounter,
                 lock, crashes, lostLocks, closes>>

\* onModuleInit of the next process makes a new Worker on the same queue.
Restart ==
  /\ process = "down"
  /\ process' = "up"
  /\ UNCHANGED <<jobState, attemptsMade, attemptsStarted, stalledCounter,
                 lock, running, crashes, lostLocks, closes>>

-----------------------------------------------------------------------------

\* Steps of the queue that are not steps of a run.
Housekeeping(j) ==
  Promote(j) \/ ExpireLock(j) \/ LoseLock(j) \/ RecoverStalled(j)

Lifecycle == BeginClose \/ FinishClose \/ Restart

Finish(s) == Complete(s) \/ Fail(s) \/ LostFinish(s)

QNext ==
  \/ \E j \in Jobs : Enqueue(j) \/ Housekeeping(j)
  \/ \E s \in Slots, j \in Jobs : Claim(s, j)
  \/ \E s \in Slots : Finish(s)
  \/ Crash
  \/ Lifecycle

QSafeSpec == QInit /\ [][QNext]_queueVars

(***************************************************************************)
(* A run ends (every request it waits for has a timeout or a connection    *)
(* error), a free slot fetches, timers of Redis and of the stalled checker *)
(* fire, an orderly shutdown ends and somebody starts the process again.   *)
(* Nothing makes a job arrive, a lock get lost or the process stop.        *)
(***************************************************************************)
QFairness ==
  /\ \A s \in Slots : WF_queueVars(Finish(s))
  /\ WF_queueVars(\E s \in Slots, j \in Jobs : Claim(s, j))
  /\ \A j \in Jobs : /\ WF_queueVars(Promote(j))
                     /\ WF_queueVars(ExpireLock(j))
                     /\ WF_queueVars(RecoverStalled(j))
  /\ WF_queueVars(FinishClose)
  /\ WF_queueVars(Restart)

QSpec == QSafeSpec /\ QFairness

-----------------------------------------------------------------------------
(* Properties.                                                             *)

\* The types of the queue's state; attemptsMade never passes "attempts".
QTypeOK ==
  /\ jobState \in [Jobs -> Pending \union Terminal \union {"absent"}]
  /\ attemptsMade \in [Jobs -> 0 .. Attempts]
  /\ attemptsStarted \in [Jobs -> Nat]
  /\ stalledCounter \in [Jobs -> 0 .. MaxStalled + 1]
  /\ lock \in [Jobs -> Slots \union {NoSlot}]
  /\ running \in [Slots -> Jobs \union {NoJob}]
  /\ process \in {"up", "closing", "down"}
  /\ crashes \in 0 .. MaxCrashes
  /\ lostLocks \in 0 .. MaxLostLocks
  /\ closes \in 0 .. MaxCloses

\* However failures, lost locks, crashes and restarts interleave, a photo is
\* processed at most attempts + maxStalledCount times ("attempts: 3" alone
\* suggests three).
ExecutionBound ==
  \A j \in Jobs : attemptsStarted[j] <= Attempts + MaxStalled

\* A job is charged with a stall only for a crash or a lost lock: an orderly
\* shutdown, which waits for the runs, never costs a job part of its budget.
StallsNeedIncidents ==
  \A j \in Jobs : stalledCounter[j] <= crashes + lostLocks

\* Two slots execute the same job at the same time only after a lock was lost;
\* crashes and restarts alone never lead there.
OneRunPerJob ==
  (\E s, t \in Slots : s # t /\ running[s] = running[t] /\ running[s] # NoJob)
    => lostLocks > 0

\* A completed or failed job stays so: the late result of a run that lost
\* its lock cannot bring it back or change its outcome.
TerminalIsFinal ==
  [][\A j \in Jobs : jobState[j] \in Terminal => jobState'[j] = jobState[j]]_queueVars

\* Every job that was added ends up completed or failed.
JobsSettle ==
  \A j \in Jobs : (jobState[j] = "wait") ~> (jobState[j] \in Terminal)

-----------------------------------------------------------------------------
(* The inductive invariant behind the safety properties.                   *)

\* A lock is only ever held on an active job.
LockedIsActive == \A j \in Jobs : lock[j] # NoSlot => jobState[j] = "active"

\* Every started run is accounted for: it failed, it stalled, or it is the
\* one that is active or has completed the job.
Accounted ==
  \A j \in Jobs :
    attemptsStarted[j] = attemptsMade[j] + stalledCounter[j]
      + (IF jobState[j] \in {"active", "completed"} THEN 1 ELSE 0)

\* Only a failed job has used up its attempts or its tolerated stalls, and
\* never both.
WithinBudget ==
  \A j \in Jobs :
    /\ jobState[j] # "failed" =>
         attemptsMade[j] < Attempts /\ stalledCounter[j] <= MaxStalled
    /\ attemptsMade[j] < Attempts \/ stalledCounter[j] <= MaxStalled

Orphaned(j) == jobState[j] = "active" /\ ~HasOwner(j)

\* An active job nobody executes was orphaned by an incident that has not
\* been charged to it yet.
Blamed ==
  \A j \in Jobs :
    stalledCounter[j] + (IF Orphaned(j) THEN 1 ELSE 0) <= crashes + lostLocks

\* As long as no lock was lost, whoever executes a job holds its lock.
RunsOwnTheirJob ==
  lostLocks = 0 => \A s \in Slots : running[s] # NoJob => HoldsLock(s)

\* No run of a job starts before the job is added.
AddedFirst == \A j \in Jobs : jobState[j] = "absent" => attemptsStarted[j] = 0

QInv ==
  /\ QTypeOK /\ LockedIsActive /\ Accounted /\ WithinBudget /\ Blamed
  /\ RunsOwnTheirJob /\ AddedFirst

=============================================================================
