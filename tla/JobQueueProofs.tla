--------------------------- MODULE JobQueueProofs ---------------------------
(***************************************************************************)
(* Safety of the queue for every number of jobs, slots, attempts and       *)
(* faults.  The invariant QInv is inductive; each lemma below shows that   *)
(* a step preserves one of its conjuncts, action by action.                *)
(***************************************************************************)
EXTENDS JobQueue, TLAPS

\* The initial state satisfies every conjunct.
LEMMA InitInv == ASSUME QInit PROVE QInv
<1> USE QueueAssumption DEF QInit
<1>1. QTypeOK
  BY DEF QTypeOK
<1>2. LockedIsActive /\ Accounted /\ WithinBudget
  BY DEF LockedIsActive, Accounted, WithinBudget
<1>3. Blamed /\ RunsOwnTheirJob /\ AddedFirst
  BY DEF Blamed, RunsOwnTheirJob, AddedFirst, Orphaned
<1> QED
  BY <1>1, <1>2, <1>3 DEF QInv

\* A step keeps the types; the budgets keep the two counters in range.
LEMMA TypeStep ==
  ASSUME QTypeOK, LockedIsActive, WithinBudget, QNext
  PROVE  QTypeOK'
<1> USE QueueAssumption DEF QTypeOK, Pending, Terminal
<1>1. ASSUME NEW j \in Jobs, Enqueue(j) PROVE QTypeOK'
  BY <1>1 DEF Enqueue
<1>2. ASSUME NEW j \in Jobs, Promote(j) PROVE QTypeOK'
  BY <1>2 DEF Promote
<1>3. ASSUME NEW j \in Jobs, ExpireLock(j) PROVE QTypeOK'
  BY <1>3 DEF ExpireLock
<1>4. ASSUME NEW j \in Jobs, LoseLock(j) PROVE QTypeOK'
  BY <1>4 DEF LoseLock
<1>5. ASSUME NEW j \in Jobs, RecoverStalled(j) PROVE QTypeOK'
  BY <1>5 DEF RecoverStalled, MayRestall, WithinBudget
<1>6. ASSUME NEW s \in Slots, NEW j \in Jobs, Claim(s, j) PROVE QTypeOK'
  BY <1>6 DEF Claim
<1>7. ASSUME NEW s \in Slots, Complete(s) PROVE QTypeOK'
  BY <1>7 DEF Complete, HoldsLock
<1>8. ASSUME NEW s \in Slots, Fail(s) PROVE QTypeOK'
  BY <1>8 DEF Fail, HoldsLock, MayRetry, LockedIsActive, WithinBudget
<1>9. ASSUME NEW s \in Slots, LostFinish(s) PROVE QTypeOK'
  BY <1>9 DEF LostFinish
<1>10. CASE Crash
  BY <1>10 DEF Crash
<1>11. CASE BeginClose
  BY <1>11 DEF BeginClose
<1>12. CASE FinishClose
  BY <1>12 DEF FinishClose
<1>13. CASE Restart
  BY <1>13 DEF Restart
<1> QED
  BY <1>1, <1>2, <1>3, <1>4, <1>5, <1>6, <1>7,
     <1>8, <1>9, <1>10, <1>11, <1>12, <1>13
     DEF QNext, Housekeeping, Finish, Lifecycle

\* A job stops being active only when its lock is released.
LEMMA LockStep ==
  ASSUME QTypeOK, LockedIsActive, QNext
  PROVE  LockedIsActive'
<1> USE QueueAssumption DEF QTypeOK, LockedIsActive
<1>1. ASSUME NEW j \in Jobs, Enqueue(j) PROVE LockedIsActive'
  BY <1>1 DEF Enqueue
<1>2. ASSUME NEW j \in Jobs, Promote(j) PROVE LockedIsActive'
  BY <1>2 DEF Promote
<1>3. ASSUME NEW j \in Jobs, ExpireLock(j) PROVE LockedIsActive'
  BY <1>3 DEF ExpireLock
<1>4. ASSUME NEW j \in Jobs, LoseLock(j) PROVE LockedIsActive'
  BY <1>4 DEF LoseLock
<1>5. ASSUME NEW j \in Jobs, RecoverStalled(j) PROVE LockedIsActive'
  BY <1>5 DEF RecoverStalled
<1>6. ASSUME NEW s \in Slots, NEW j \in Jobs, Claim(s, j) PROVE LockedIsActive'
  BY <1>6 DEF Claim
<1>7. ASSUME NEW s \in Slots, Complete(s) PROVE LockedIsActive'
  BY <1>7 DEF Complete, HoldsLock
<1>8. ASSUME NEW s \in Slots, Fail(s) PROVE LockedIsActive'
  BY <1>8 DEF Fail, HoldsLock
<1>9. ASSUME NEW s \in Slots, LostFinish(s) PROVE LockedIsActive'
  BY <1>9 DEF LostFinish
<1>10. CASE Crash
  BY <1>10 DEF Crash
<1>11. CASE BeginClose
  BY <1>11 DEF BeginClose
<1>12. CASE FinishClose
  BY <1>12 DEF FinishClose
<1>13. CASE Restart
  BY <1>13 DEF Restart
<1> QED
  BY <1>1, <1>2, <1>3, <1>4, <1>5, <1>6, <1>7,
     <1>8, <1>9, <1>10, <1>11, <1>12, <1>13
     DEF QNext, Housekeeping, Finish, Lifecycle

\* Each started run is charged to exactly one of the two counters when it
\* fails or stalls.
LEMMA AccountStep ==
  ASSUME QTypeOK, LockedIsActive, Accounted, QNext
  PROVE  Accounted'
<1> USE QueueAssumption DEF QTypeOK, Accounted
<1>1. ASSUME NEW j \in Jobs, Enqueue(j) PROVE Accounted'
  BY <1>1 DEF Enqueue
<1>2. ASSUME NEW j \in Jobs, Promote(j) PROVE Accounted'
  BY <1>2 DEF Promote
<1>3. ASSUME NEW j \in Jobs, ExpireLock(j) PROVE Accounted'
  BY <1>3 DEF ExpireLock
<1>4. ASSUME NEW j \in Jobs, LoseLock(j) PROVE Accounted'
  BY <1>4 DEF LoseLock
<1>5. ASSUME NEW j \in Jobs, RecoverStalled(j) PROVE Accounted'
  BY <1>5 DEF RecoverStalled
<1>6. ASSUME NEW s \in Slots, NEW j \in Jobs, Claim(s, j) PROVE Accounted'
  BY <1>6 DEF Claim
<1>7. ASSUME NEW s \in Slots, Complete(s) PROVE Accounted'
  BY <1>7 DEF Complete, HoldsLock, LockedIsActive
<1>8. ASSUME NEW s \in Slots, Fail(s) PROVE Accounted'
  BY <1>8 DEF Fail, HoldsLock, MayRetry, LockedIsActive
<1>9. ASSUME NEW s \in Slots, LostFinish(s) PROVE Accounted'
  BY <1>9 DEF LostFinish
<1>10. CASE Crash
  BY <1>10 DEF Crash
<1>11. CASE BeginClose
  BY <1>11 DEF BeginClose
<1>12. CASE FinishClose
  BY <1>12 DEF FinishClose
<1>13. CASE Restart
  BY <1>13 DEF Restart
<1> QED
  BY <1>1, <1>2, <1>3, <1>4, <1>5, <1>6, <1>7,
     <1>8, <1>9, <1>10, <1>11, <1>12, <1>13
     DEF QNext, Housekeeping, Finish, Lifecycle

\* The last attempt and the last tolerated stall both fail the job.
LEMMA BudgetStep ==
  ASSUME QTypeOK, LockedIsActive, WithinBudget, QNext
  PROVE  WithinBudget'
<1> USE QueueAssumption DEF QTypeOK, WithinBudget
<1>1. ASSUME NEW j \in Jobs, Enqueue(j) PROVE WithinBudget'
  BY <1>1 DEF Enqueue
<1>2. ASSUME NEW j \in Jobs, Promote(j) PROVE WithinBudget'
  BY <1>2 DEF Promote
<1>3. ASSUME NEW j \in Jobs, ExpireLock(j) PROVE WithinBudget'
  BY <1>3 DEF ExpireLock
<1>4. ASSUME NEW j \in Jobs, LoseLock(j) PROVE WithinBudget'
  BY <1>4 DEF LoseLock
<1>5. ASSUME NEW j \in Jobs, RecoverStalled(j) PROVE WithinBudget'
  BY <1>5 DEF RecoverStalled, MayRestall
<1>6. ASSUME NEW s \in Slots, NEW j \in Jobs, Claim(s, j) PROVE WithinBudget'
  BY <1>6 DEF Claim
<1>7. ASSUME NEW s \in Slots, Complete(s) PROVE WithinBudget'
  BY <1>7 DEF Complete, HoldsLock, LockedIsActive
<1>8. ASSUME NEW s \in Slots, Fail(s) PROVE WithinBudget'
  BY <1>8 DEF Fail, HoldsLock, MayRetry, LockedIsActive
<1>9. ASSUME NEW s \in Slots, LostFinish(s) PROVE WithinBudget'
  BY <1>9 DEF LostFinish
<1>10. CASE Crash
  BY <1>10 DEF Crash
<1>11. CASE BeginClose
  BY <1>11 DEF BeginClose
<1>12. CASE FinishClose
  BY <1>12 DEF FinishClose
<1>13. CASE Restart
  BY <1>13 DEF Restart
<1> QED
  BY <1>1, <1>2, <1>3, <1>4, <1>5, <1>6, <1>7,
     <1>8, <1>9, <1>10, <1>11, <1>12, <1>13
     DEF QNext, Housekeeping, Finish, Lifecycle

\* Only a crash or a lost lock orphans a job, and recovering it uses that
\* incident up; an orderly shutdown finds no run to orphan.
LEMMA BlameStep ==
  ASSUME QTypeOK, LockedIsActive, Blamed, QNext
  PROVE  Blamed'
<1> USE QueueAssumption DEF QTypeOK, Blamed, Orphaned, HasOwner
<1>1. ASSUME NEW j \in Jobs, Enqueue(j) PROVE Blamed'
  BY <1>1 DEF Enqueue
<1>2. ASSUME NEW j \in Jobs, Promote(j) PROVE Blamed'
  BY <1>2 DEF Promote
<1>3. ASSUME NEW j \in Jobs, ExpireLock(j) PROVE Blamed'
  BY <1>3 DEF ExpireLock
<1>4. ASSUME NEW j \in Jobs, LoseLock(j) PROVE Blamed'
  BY <1>4 DEF LoseLock
<1>5. ASSUME NEW j \in Jobs, RecoverStalled(j) PROVE Blamed'
  BY <1>5 DEF RecoverStalled
<1>6. ASSUME NEW s \in Slots, NEW j \in Jobs, Claim(s, j) PROVE Blamed'
  BY <1>6 DEF Claim
<1>7. ASSUME NEW s \in Slots, Complete(s) PROVE Blamed'
  BY <1>7 DEF Complete, HoldsLock
<1>8. ASSUME NEW s \in Slots, Fail(s) PROVE Blamed'
  BY <1>8 DEF Fail, HoldsLock
<1>9. ASSUME NEW s \in Slots, LostFinish(s) PROVE Blamed'
  BY <1>9 DEF LostFinish, HoldsLock
<1>10. CASE Crash
  BY <1>10 DEF Crash
<1>11. CASE BeginClose
  BY <1>11 DEF BeginClose
<1>12. CASE FinishClose
  BY <1>12 DEF FinishClose, Drained
<1>13. CASE Restart
  BY <1>13 DEF Restart
<1> QED
  BY <1>1, <1>2, <1>3, <1>4, <1>5, <1>6, <1>7,
     <1>8, <1>9, <1>10, <1>11, <1>12, <1>13
     DEF QNext, Housekeeping, Finish, Lifecycle

\* Without a lost lock a job is claimed by one slot at a time.
LEMMA OwnerStep ==
  ASSUME QTypeOK, LockedIsActive, RunsOwnTheirJob, QNext
  PROVE  RunsOwnTheirJob'
<1> USE QueueAssumption DEF QTypeOK, RunsOwnTheirJob, HoldsLock
<1>1. ASSUME NEW j \in Jobs, Enqueue(j) PROVE RunsOwnTheirJob'
  BY <1>1 DEF Enqueue
<1>2. ASSUME NEW j \in Jobs, Promote(j) PROVE RunsOwnTheirJob'
  BY <1>2 DEF Promote
<1>3. ASSUME NEW j \in Jobs, ExpireLock(j) PROVE RunsOwnTheirJob'
  BY <1>3 DEF ExpireLock, HasOwner
<1>4. ASSUME NEW j \in Jobs, LoseLock(j) PROVE RunsOwnTheirJob'
  BY <1>4 DEF LoseLock, HasOwner
<1>5. ASSUME NEW j \in Jobs, RecoverStalled(j) PROVE RunsOwnTheirJob'
  BY <1>5 DEF RecoverStalled
<1>6. ASSUME NEW s \in Slots, NEW j \in Jobs, Claim(s, j) PROVE RunsOwnTheirJob'
  BY <1>6 DEF Claim, LockedIsActive
<1>7. ASSUME NEW s \in Slots, Complete(s) PROVE RunsOwnTheirJob'
  BY <1>7 DEF Complete
<1>8. ASSUME NEW s \in Slots, Fail(s) PROVE RunsOwnTheirJob'
  BY <1>8 DEF Fail
<1>9. ASSUME NEW s \in Slots, LostFinish(s) PROVE RunsOwnTheirJob'
  BY <1>9 DEF LostFinish
<1>10. CASE Crash
  BY <1>10 DEF Crash
<1>11. CASE BeginClose
  BY <1>11 DEF BeginClose
<1>12. CASE FinishClose
  BY <1>12 DEF FinishClose
<1>13. CASE Restart
  BY <1>13 DEF Restart
<1> QED
  BY <1>1, <1>2, <1>3, <1>4, <1>5, <1>6, <1>7,
     <1>8, <1>9, <1>10, <1>11, <1>12, <1>13
     DEF QNext, Housekeeping, Finish, Lifecycle

\* Only a job that was added is claimed.
LEMMA AddedStep ==
  ASSUME QTypeOK, LockedIsActive, AddedFirst, QNext
  PROVE  AddedFirst'
<1> USE QueueAssumption DEF QTypeOK, AddedFirst
<1>1. ASSUME NEW j \in Jobs, Enqueue(j) \/ Housekeeping(j) PROVE AddedFirst'
  BY <1>1 DEF Enqueue, Housekeeping, Promote, ExpireLock, LoseLock, RecoverStalled
<1>2. ASSUME NEW s \in Slots, NEW j \in Jobs, Claim(s, j) PROVE AddedFirst'
  BY <1>2 DEF Claim
<1>3. ASSUME NEW s \in Slots, Finish(s) PROVE AddedFirst'
  BY <1>3 DEF Finish, Complete, Fail, LostFinish
<1>4. CASE Crash \/ Lifecycle
  BY <1>4 DEF Crash, Lifecycle, BeginClose, FinishClose, Restart
<1> QED
  BY <1>1, <1>2, <1>3, <1>4 DEF QNext

-----------------------------------------------------------------------------

\* One step, or a stutter, preserves the whole invariant.
LEMMA InvStep ==
  ASSUME QInv, [QNext]_queueVars
  PROVE  QInv'
<1>1. CASE QNext
  <2> USE <1>1 DEF QInv
  <2>1. QTypeOK'
    BY TypeStep
  <2>2. LockedIsActive'
    BY LockStep
  <2>3. Accounted'
    BY AccountStep
  <2>4. WithinBudget'
    BY BudgetStep
  <2>5. Blamed'
    BY BlameStep
  <2>6. RunsOwnTheirJob'
    BY OwnerStep
  <2>7. AddedFirst'
    BY AddedStep
  <2> QED
    BY <2>1, <2>2, <2>3, <2>4, <2>5, <2>6, <2>7
<1>2. CASE UNCHANGED queueVars
  BY <1>2 DEF queueVars, QInv, AddedFirst, QTypeOK, LockedIsActive, Accounted,
              WithinBudget, Blamed, RunsOwnTheirJob, Orphaned, HasOwner,
              HoldsLock
<1> QED
  BY <1>1, <1>2

\* The invariant of the queue holds in every reachable state, for any number
\* of jobs, slots, attempts, tolerated stalls, crashes and lost locks.
THEOREM InvariantHolds == QSafeSpec => []QInv
<1>1. QInit => QInv
  BY InitInv
<1>2. QInv /\ [QNext]_queueVars => QInv'
  BY InvStep
<1> QED
  BY <1>1, <1>2, PTL DEF QSafeSpec

\* Type correctness: in particular a job never fails more often than
\* "attempts" nor stalls more often than maxStalledCount + 1.
THEOREM TypeCorrect == QSafeSpec => []QTypeOK
<1>1. QInv => QTypeOK
  BY DEF QInv
<1> QED
  BY <1>1, InvariantHolds, PTL

\* A run that has started failed, stalled, or is the last one so far.
LEMMA BoundFollows ==
  ASSUME QInv
  PROVE  ExecutionBound
<1> SUFFICES ASSUME NEW j \in Jobs
             PROVE  attemptsStarted[j] <= Attempts + MaxStalled
  BY DEF ExecutionBound
<1> USE QueueAssumption DEF QInv, QTypeOK
<1>1. CASE jobState[j] = "failed"
  BY <1>1 DEF Accounted, WithinBudget
<1>2. CASE jobState[j] # "failed"
  <2>1. attemptsStarted[j] <= attemptsMade[j] + stalledCounter[j] + 1
    BY DEF Accounted
  <2> QED
    BY <1>2, <2>1 DEF WithinBudget
<1> QED
  BY <1>1, <1>2

\* A photo is processed at most attempts + maxStalledCount times.
THEOREM ExecutionsBounded == QSafeSpec => []ExecutionBound
BY BoundFollows, InvariantHolds, PTL

\* An orderly shutdown never costs a job part of its budget of stalls.
THEOREM StallsAreBlamed == QSafeSpec => []StallsNeedIncidents
<1>1. QInv => StallsNeedIncidents
  <2> SUFFICES ASSUME QInv, NEW j \in Jobs
               PROVE  stalledCounter[j] <= crashes + lostLocks
    BY DEF StallsNeedIncidents
  <2>1. CASE Orphaned(j)
    BY <2>1, QueueAssumption DEF QInv, QTypeOK, Blamed
  <2>2. CASE ~Orphaned(j)
    BY <2>2, QueueAssumption DEF QInv, QTypeOK, Blamed
  <2> QED
    BY <2>1, <2>2
<1> QED
  BY <1>1, InvariantHolds, PTL

\* Two slots execute the same job only after a lock was lost.
THEOREM RunsExclusive == QSafeSpec => []OneRunPerJob
<1>1. QInv => OneRunPerJob
  BY QueueAssumption
  DEF QInv, QTypeOK, RunsOwnTheirJob, HoldsLock, OneRunPerJob
<1> QED
  BY <1>1, InvariantHolds, PTL

\* The late result of a run that lost its lock never changes an outcome.
THEOREM OutcomesFinal == QSafeSpec => TerminalIsFinal
<1> DEFINE Kept ==
      \A j \in Jobs : jobState[j] \in Terminal => jobState'[j] = jobState[j]
<1>1. QInv /\ [QNext]_queueVars => [Kept]_queueVars
  <2> SUFFICES ASSUME QInv, QNext PROVE Kept
    BY DEF queueVars
  <2> USE DEF QInv, QTypeOK, Terminal
  <2>1. ASSUME NEW j \in Jobs, Enqueue(j) \/ Housekeeping(j) PROVE Kept
    BY <2>1 DEF Enqueue, Housekeeping, Promote, ExpireLock, LoseLock,
                RecoverStalled
  <2>2. ASSUME NEW s \in Slots, NEW j \in Jobs, Claim(s, j) PROVE Kept
    BY <2>2 DEF Claim
  <2>3. ASSUME NEW s \in Slots, Finish(s) PROVE Kept
    BY <2>3, QueueAssumption
    DEF Finish, Complete, Fail, LostFinish, HoldsLock, LockedIsActive
  <2>4. CASE Crash \/ Lifecycle
    BY <2>4 DEF Crash, Lifecycle, BeginClose, FinishClose, Restart
  <2> QED
    BY <2>1, <2>2, <2>3, <2>4 DEF QNext
<1> QED
  BY <1>1, InvariantHolds, PTL DEF QSafeSpec, TerminalIsFinal

=============================================================================
