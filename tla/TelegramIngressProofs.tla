------------------------ MODULE TelegramIngressProofs ------------------------
(***************************************************************************)
(* No photo is lost between Telegram and the queue: IngressInv holds in    *)
(* every reachable state of TelegramIngress, for any number of updates,    *)
(* concurrent requests and faults.                                         *)
(***************************************************************************)
EXTENDS TelegramIngress, FiniteSetTheorems, TLAPS

LEMMA IngressInitInv ==
  ASSUME IngressInit
  PROVE  IngressInv
BY IngressAssumption
DEF IngressInit, IngressInv, IngressTypeOK, SettledIsQueued, AckedPhotoQueued,
    Kinds, Reasons

\* What answering and releasing a request does to Telegram and the requests:
\* only a 2xx that is heard changes the update's state, from pending to acked.
LEMMA AnswerReleases ==
  ASSUME IngressTypeOK, NEW r \in Requests, phase[r] # "idle",
         NEW ok \in BOOLEAN, Answer(r, ok), Release(r)
  PROVE  /\ \A u \in Updates :
              \/ telegram'[u] = telegram[u]
              \/ ok /\ u = update[r] /\ telegram'[u] = "acked"
         /\ telegram' \in [Updates -> {"unsent", "pending", "acked", "dropped"}]
         /\ update' \in [Requests -> Updates \union {NoUpdate}]
         /\ phase' \in [Requests -> {"idle", "arrived", "adding", "added", "greeting"}]
         /\ open' \in [Requests -> BOOLEAN]
         /\ waiting' \in [Requests -> BOOLEAN]
         /\ phase'[r] = "idle" /\ update'[r] = NoUpdate /\ ~waiting'[r]
         /\ \A s \in Requests \ {r} :
              /\ phase'[s] = phase[s]
              /\ update'[s] = update[s]
              /\ waiting'[s] = waiting[s]
BY DEF IngressTypeOK, Answer, Release

\* An answer in which a run of the handler ends preserves the invariant, if
\* a photo is acknowledged only with a job in the queue.
LEMMA EndStep ==
  ASSUME IngressInv, NEW r \in Requests, phase[r] # "idle",
         NEW ok \in BOOLEAN, Answer(r, ok), Release(r),
         ok /\ kind[update[r]] = "photo" => jobs[update[r]] > 0,
         UNCHANGED <<kind, jobs, process>>,
         refusing' \subseteq Reasons, muted' \subseteq Updates,
         faults' \in 0 .. MaxFaults
  PROVE  IngressInv'
<1> USE DEF IngressInv
<1>1. IngressTypeOK'
  BY AnswerReleases DEF IngressTypeOK
<1>2. SettledIsQueued'
  <2> SUFFICES ASSUME NEW s \in Requests
               PROVE  /\ phase'[s] = "added" => jobs'[update'[s]] > 0
                      /\ phase'[s] = "greeting" => kind'[update'[s]] # "photo"
                      /\ phase'[s] # "idle" => telegram'[update'[s]] # "unsent"
    BY DEF SettledIsQueued
  <2>1. CASE s = r
    BY <2>1, AnswerReleases
  <2>2. CASE s # r
    <3>1. /\ phase'[s] = phase[s] /\ update'[s] = update[s]
          /\ phase[s] # "idle" => update[s] \in Updates
      BY <2>2, AnswerReleases DEF IngressTypeOK
    <3>2. /\ phase[s] = "added" => jobs[update[s]] > 0
          /\ phase[s] = "greeting" => kind[update[s]] # "photo"
          /\ phase[s] # "idle" => telegram[update[s]] # "unsent"
      BY DEF SettledIsQueued
    <3> QED
      BY <3>1, <3>2, AnswerReleases
  <2> QED
    BY <2>1, <2>2
<1>3. AckedPhotoQueued'
  BY AnswerReleases DEF AckedPhotoQueued
<1> QED
  BY <1>1, <1>2, <1>3

LEMMA IngressInvStep ==
  ASSUME IngressInv, [IngressNext]_ingressVars
  PROVE  IngressInv'
<1> USE IngressAssumption DEF IngressInv, guardVars
<1>1. ASSUME NEW u \in Updates, NEW k \in Kinds, Send(u, k) PROVE IngressInv'
  BY <1>1 DEF Send, requestVars, IngressTypeOK, SettledIsQueued, AckedPhotoQueued
<1>2. ASSUME NEW r \in Requests, NEW u \in Updates, Deliver(r, u) PROVE IngressInv'
  BY <1>2 DEF Deliver, IngressTypeOK, SettledIsQueued, AckedPhotoQueued
<1>3. ASSUME NEW r \in Requests, Route(r) PROVE IngressInv'
  <2>1. CASE kind[update[r]] \in Ignored
    <3>1. CASE Answer(r, IgnoredOk) /\ Release(r)
      BY <1>3, <2>1, <3>1, EndStep
      DEF Route, Ignored, Queued, IgnoredOk, IngressTypeOK
    <3> QED
      BY <1>3, <2>1, <3>1 DEF Route, Ignored, Queued, Greeted
  <2>2. CASE kind[update[r]] \notin Ignored
    BY <1>3, <2>2
    DEF Route, Ignored, Queued, Greeted, IngressTypeOK, SettledIsQueued,
        AckedPhotoQueued
  <2> QED
    BY <2>1, <2>2
<1>4. ASSUME NEW r \in Requests, StoreJob(r) PROVE IngressInv'
  <2>1. /\ update[r] \in Updates
        /\ \A u \in Updates : jobs'[u] \in Nat /\ jobs'[u] >= jobs[u]
        /\ jobs'[update[r]] > 0
        /\ jobs' \in [Updates -> Nat]
    BY <1>4 DEF StoreJob, JobsPerPhoto, IngressTypeOK
  <2>2. IngressTypeOK'
    BY <1>4, <2>1 DEF StoreJob, IngressTypeOK
  <2>3. SettledIsQueued'
    BY <1>4, <2>1 DEF StoreJob, IngressTypeOK, SettledIsQueued
  <2>4. AckedPhotoQueued'
    BY <1>4, <2>1 DEF StoreJob, IngressTypeOK, AckedPhotoQueued
  <2> QED
    BY <2>2, <2>3, <2>4
<1>5. ASSUME NEW r \in Requests, Finish(r) PROVE IngressInv'
  <2>1. faults' \in 0 .. MaxFaults /\ refusing' \subseteq Reasons /\ muted' \subseteq Updates
    BY <1>5 DEF Finish, IngressTypeOK
  <2>2. kind[update[r]] = "photo" => jobs[update[r]] > 0
    BY <1>5 DEF Finish, Settled, SettledIsQueued
  <2> QED
    BY <1>5, <2>1, <2>2, EndStep DEF Finish, Settled
<1>6. ASSUME NEW r \in Requests, Refuse(r) \/ Exceed(r) \/ Throw(r) PROVE IngressInv'
  <2>1. faults' \in 0 .. MaxFaults
    BY <1>6 DEF Refuse, Exceed, Throw, IngressTypeOK
  <2>2. refusing' \subseteq Reasons /\ muted' \subseteq Updates
    <3>1. CASE Exceed(r)
      BY <3>1 DEF Exceed, Reasons, IngressTypeOK
    <3> QED
      BY <1>6, <3>1 DEF Refuse, Throw, IngressTypeOK
  <2>3. /\ phase[r] # "idle" /\ Answer(r, FALSE) /\ Release(r)
        /\ UNCHANGED <<kind, jobs, process>>
    BY <1>6 DEF Refuse, Exceed, Throw, ErrorOk
  <2> HIDE DEF IngressInv
  <2> QED
    BY <2>1, <2>2, <2>3, EndStep
<1>7. ASSUME NEW r \in Requests, GiveUpWaiting(r) \/ ResendAdd(r) PROVE IngressInv'
  <2>1. CASE GiveUpWaiting(r)
    BY <2>1
    DEF GiveUpWaiting, GoesWrong, IngressTypeOK, SettledIsQueued, AckedPhotoQueued
  <2>2. CASE ResendAdd(r)
    BY <2>2
    DEF ResendAdd, GoesWrong, IngressTypeOK, SettledIsQueued, AckedPhotoQueued
  <2> QED
    BY <1>7, <2>1, <2>2
<1>8. ASSUME NEW r \in Requests, HandlerTimeout(r) PROVE IngressInv'
  BY <1>8
  DEF HandlerTimeout, Answer, GoesWrong, IngressTypeOK, SettledIsQueued,
      AckedPhotoQueued
<1>9. CASE RegisterWebhook
  BY <1>9
  DEF RegisterWebhook, Reasons, requestVars, IngressTypeOK, SettledIsQueued, AckedPhotoQueued
<1>10. CASE Crash
  BY <1>10
  DEF Crash, GoesWrong, IngressTypeOK, SettledIsQueued, AckedPhotoQueued
<1>11. CASE Restart \/ UNCHANGED ingressVars
  BY <1>11
  DEF Restart, Reasons, ingressVars, requestVars, IngressTypeOK, SettledIsQueued,
      AckedPhotoQueued
<1> QED
  BY <1>1, <1>2, <1>3, <1>4, <1>5, <1>6, <1>7, <1>8, <1>9, <1>10, <1>11
  DEF IngressNext, Handle, Disturb

\* The invariant of the ingress, whatever fails.
THEOREM IngressInvariant == IngressSafeSpec => []IngressInv
<1>1. IngressInit => IngressInv
  BY IngressInitInv
<1>2. IngressInv /\ [IngressNext]_ingressVars => IngressInv'
  BY IngressInvStep
<1> QED
  BY <1>1, <1>2, PTL DEF IngressSafeSpec

\* A photo Telegram need not deliver again has a job in the queue.
THEOREM NoPhotoLost == IngressSafeSpec => []AckedPhotoQueued
<1>1. IngressInv => AckedPhotoQueued
  BY DEF IngressInv
<1> QED
  BY <1>1, IngressInvariant, PTL

-----------------------------------------------------------------------------
(* How often a photo is queued.                                            *)

\* The sum that JobsAccounted bounds is one of natural numbers.
LEMMA AddersFinite ==
  ASSUME IngressTypeOK, NEW u \in Updates
  PROVE  IsFiniteSet(Adders(u)) /\ Cardinality(Adders(u)) \in Nat
BY IngressAssumption, FS_Subset, FS_CardinalityType DEF Adders

\* A step that takes nothing from an update but runs and a delivery keeps the
\* account; so does any step that goes wrong and adds no run.
LEMMA AccountKept ==
  ASSUME IngressTypeOK, NEW u \in Updates, Accounted(u),
         jobs'[u] = jobs[u], Adders(u)' \subseteq Adders(u),
         \/ faults' = faults + 1
         \/ faults' = faults /\ (Due(u)' => Due(u))
  PROVE  Accounted(u)'
<1>1. Cardinality(Adders(u))' <= Cardinality(Adders(u))
  BY AddersFinite, FS_Subset
<1>2. Cardinality(Adders(u))' \in Nat /\ Cardinality(Adders(u)) \in Nat
  <2>1. IsFiniteSet(Adders(u))'
    BY AddersFinite, FS_Subset
  <2> QED
    BY <2>1, AddersFinite, FS_CardinalityType
<1>3. jobs[u] \in Nat /\ faults \in Nat
  BY IngressAssumption DEF IngressTypeOK
<1> QED
  BY <1>1, <1>2, <1>3 DEF Accounted

\* When run r leaves the updates other than its own alone, so does the step.
LEMMA OthersKept ==
  ASSUME IngressTypeOK, NEW r \in Requests, NEW u \in Updates,
         update[r] # u, update'[r] # u,
         telegram'[u] = telegram[u],
         \A s \in Requests \ {r} :
           /\ phase'[s] = phase[s]
           /\ update'[s] = update[s]
           /\ waiting'[s] = waiting[s]
  PROVE  Adders(u)' = Adders(u) /\ Due(u)' = Due(u)
BY DEF Adders, Due

\* An answer in which a run ends takes its delivery from the account, or turns
\* the run into a delivery that is due.
LEMMA EndAccount ==
  ASSUME IngressInv, JobsAccounted, NEW r \in Requests, phase[r] # "idle",
         NEW ok \in BOOLEAN, Answer(r, ok), Release(r), UNCHANGED <<jobs, faults>>,
         ok \/ phase[r] \in {"arrived", "adding", "greeting"}
  PROVE  JobsAccounted'
<1> USE DEF IngressInv
<1>1. ASSUME NEW s \in Requests, waiting'[s] PROVE open'[s]
  <2>1. s # r /\ waiting[s]
    BY <1>1, AnswerReleases
  <2> QED
    BY <2>1 DEF JobsAccounted, Release, IngressTypeOK
<1>2. ASSUME NEW u \in Updates PROVE Accounted(u)'
  <2>1. Adders(u)' \subseteq Adders(u)
    BY AnswerReleases DEF Adders
  <2>2. CASE u # update[r]
    <3>1. Due(u)' = Due(u)
      BY <2>2, AnswerReleases, IngressAssumption, OthersKept
    <3> QED
      BY <2>1, <3>1, AccountKept DEF JobsAccounted, IngressTypeOK
  <2>3. CASE u = update[r] /\ ok
    <3>1. CASE waiting[r]
      <4>1. telegram'[u] \notin {"unsent", "pending"}
        BY <2>3, <3>1 DEF Answer, JobsAccounted, SettledIsQueued, IngressTypeOK
      <4> QED
        BY <2>1, <4>1, AccountKept DEF JobsAccounted, Due
    <3>2. CASE ~waiting[r]
      <4>1. Due(u)' => Due(u)
        BY <3>2, AnswerReleases DEF Due, IngressTypeOK
      <4> QED
        BY <2>1, <4>1, AccountKept DEF JobsAccounted
    <3> QED
      BY <3>1, <3>2
  <2>4. CASE u = update[r] /\ phase[r] \in {"arrived", "adding", "greeting"}
    <3>1. Adders(u)' = Adders(u) \ {r} /\ r \in Adders(u)
      BY <2>4, AnswerReleases DEF Adders
    <3>2. Cardinality(Adders(u))' = Cardinality(Adders(u)) - 1
      BY <3>1, AddersFinite, FS_RemoveElement
    <3>3. jobs[u] \in Nat /\ faults \in Nat
      BY IngressAssumption DEF IngressTypeOK
    <3> QED
      BY <3>2, <3>3, AddersFinite DEF JobsAccounted, Accounted
  <2> QED
    BY <2>2, <2>3, <2>4
<1> QED
  BY <1>1, <1>2 DEF JobsAccounted

\* Every step keeps the account.
LEMMA AccountStep ==
  ASSUME IngressInv, JobsAccounted, [IngressNext]_ingressVars
  PROVE  JobsAccounted'
<1> USE DEF IngressInv, guardVars
<1>1. ASSUME NEW v \in Updates, NEW k \in Kinds, Send(v, k) PROVE JobsAccounted'
  <2>1. ASSUME NEW u \in Updates PROVE Accounted(u)'
    <3>1. Adders(u)' = Adders(u)
      BY <1>1 DEF Send, requestVars, Adders
    <3>2. Due(u)' => Due(u)
      BY <1>1 DEF Send, requestVars, Due, IngressTypeOK
    <3> QED
      BY <1>1, <3>1, <3>2, AccountKept DEF Send, JobsAccounted
  <2> QED
    BY <1>1, <2>1 DEF Send, requestVars, JobsAccounted
<1>2. ASSUME NEW r \in Requests, NEW v \in Updates, Deliver(r, v) PROVE JobsAccounted'
  <2>1. /\ update[r] = NoUpdate /\ ~waiting[r]
        /\ update'[r] = v /\ phase'[r] = "arrived" /\ waiting'[r]
        /\ \A s \in Requests \ {r} :
             /\ phase'[s] = phase[s] /\ update'[s] = update[s]
             /\ waiting'[s] = waiting[s]
        /\ UNCHANGED <<telegram, jobs, faults>>
    BY <1>2 DEF Deliver, IngressTypeOK
  <2>2. ASSUME NEW u \in Updates PROVE Accounted(u)'
    <3>1. CASE u = v
      <4>1. Due(u)
        BY <1>2, <3>1 DEF Deliver, Due
      <4>2. ~Due(u)'
        BY <2>1, <3>1 DEF Due
      <4>3. Adders(u)' = Adders(u) \union {r} /\ r \notin Adders(u)
        BY <2>1, <3>1, IngressAssumption DEF Adders
      <4>4. Cardinality(Adders(u))' = Cardinality(Adders(u)) + 1
        BY <4>3, AddersFinite, FS_AddElement
      <4> QED
        BY <2>1, <4>1, <4>2, <4>4, AddersFinite, IngressAssumption
        DEF JobsAccounted, Accounted, IngressTypeOK
    <3>2. CASE u # v
      <4>1. Adders(u)' = Adders(u) /\ Due(u)' = Due(u)
        BY <2>1, <3>2, IngressAssumption, OthersKept
      <4> QED
        BY <2>1, <4>1, AccountKept DEF JobsAccounted
    <3> QED
      BY <3>1, <3>2
  <2> QED
    BY <1>2, <2>2 DEF Deliver, IngressTypeOK, JobsAccounted
<1>3. ASSUME NEW r \in Requests, Route(r) PROVE JobsAccounted'
  <2>1. CASE Answer(r, IgnoredOk) /\ Release(r)
    BY <1>3, <2>1, EndAccount DEF Route, IgnoredOk
  <2>2. CASE /\ phase' \in {[phase EXCEPT ![r] = "adding"], [phase EXCEPT ![r] = "greeting"]}
             /\ UNCHANGED <<telegram, update, open, waiting>>
    <3>1. UNCHANGED <<jobs, faults>> /\ phase[r] = "arrived"
      BY <1>3 DEF Route
    <3>2. ASSUME NEW u \in Updates PROVE Accounted(u)'
      <4>1. Adders(u)' \subseteq Adders(u)
        BY <2>2, <3>1 DEF Adders, IngressTypeOK
      <4>2. Due(u)' = Due(u)
        BY <2>2 DEF Due
      <4> QED
        BY <3>1, <4>1, <4>2, AccountKept DEF JobsAccounted
    <3> QED
      BY <2>2, <3>2 DEF JobsAccounted
  <2> QED
    BY <1>3, <2>1, <2>2 DEF Route
<1>4. ASSUME NEW r \in Requests, StoreJob(r) PROVE JobsAccounted'
  <2>1. /\ phase[r] = "adding" /\ update[r] \in Updates
        /\ phase' = [phase EXCEPT ![r] = "added"]
        /\ jobs' = [jobs EXCEPT ![update[r]] = @ + 1]
        /\ UNCHANGED <<telegram, update, open, waiting, faults>>
    BY <1>4 DEF StoreJob, JobsPerPhoto, IngressTypeOK
  <2>2. ASSUME NEW u \in Updates PROVE Accounted(u)'
    <3>1. Due(u)' = Due(u)
      BY <2>1 DEF Due
    <3>2. CASE u = update[r]
      <4>1. Adders(u)' = Adders(u) \ {r} /\ r \in Adders(u)
        BY <2>1, <3>2 DEF Adders, IngressTypeOK
      <4>2. Cardinality(Adders(u))' = Cardinality(Adders(u)) - 1
        BY <4>1, AddersFinite, FS_RemoveElement
      <4>3. jobs'[u] = jobs[u] + 1 /\ jobs[u] \in Nat /\ faults \in Nat
        BY <2>1, <3>2, IngressAssumption DEF IngressTypeOK
      <4> QED
        BY <2>1, <3>1, <4>2, <4>3, AddersFinite DEF JobsAccounted, Accounted
    <3>3. CASE u # update[r]
      <4>1. Adders(u)' = Adders(u) /\ jobs'[u] = jobs[u]
        BY <2>1, <3>3 DEF Adders, IngressTypeOK
      <4> QED
        BY <2>1, <3>1, <4>1, AccountKept DEF JobsAccounted
    <3> QED
      BY <3>2, <3>3
  <2> QED
    BY <2>1, <2>2 DEF JobsAccounted
<1>5. ASSUME NEW r \in Requests, Finish(r) PROVE JobsAccounted'
  BY <1>5, EndAccount DEF Finish, Settled
<1>6. ASSUME NEW r \in Requests, Refuse(r) \/ Exceed(r) \/ Throw(r) PROVE JobsAccounted'
  <2>1. /\ phase[r] \in {"arrived", "adding", "greeting"}
        /\ Answer(r, FALSE) /\ Release(r)
        /\ UNCHANGED <<jobs, faults>>
    BY <1>6 DEF Refuse, Exceed, Throw, ErrorOk
  <2> HIDE DEF IngressInv
  <2> QED
    BY <2>1, EndAccount
<1>7. ASSUME NEW r \in Requests, ResendAdd(r) PROVE JobsAccounted'
  <2>1. /\ phase[r] = "added" /\ phase' = [phase EXCEPT ![r] = "adding"]
        /\ faults' = faults + 1
        /\ UNCHANGED <<telegram, update, open, waiting, jobs>>
    BY <1>7 DEF ResendAdd, GoesWrong
  <2>2. ASSUME NEW u \in Updates PROVE Accounted(u)'
    <3>1. Due(u)' = Due(u)
      BY <2>1 DEF Due
    <3>2. CASE u = update[r]
      <4>1. Adders(u)' = Adders(u) \union {r} /\ r \notin Adders(u)
        BY <2>1, <3>2 DEF Adders, IngressTypeOK
      <4>2. Cardinality(Adders(u))' = Cardinality(Adders(u)) + 1
        BY <4>1, AddersFinite, FS_AddElement
      <4> QED
        BY <2>1, <3>1, <4>2, AddersFinite, IngressAssumption
        DEF JobsAccounted, Accounted, IngressTypeOK
    <3>3. CASE u # update[r]
      <4>1. Adders(u)' = Adders(u)
        BY <2>1, <3>3 DEF Adders, IngressTypeOK
      <4> QED
        BY <2>1, <4>1, AccountKept DEF JobsAccounted
    <3> QED
      BY <3>2, <3>3
  <2> QED
    BY <2>1, <2>2 DEF JobsAccounted
<1>8. ASSUME NEW r \in Requests, GiveUpWaiting(r) \/ HandlerTimeout(r) PROVE JobsAccounted'
  <2>1. /\ waiting' = [waiting EXCEPT ![r] = FALSE] /\ faults' = faults + 1
        /\ open' \in {open, [open EXCEPT ![r] = FALSE]}
        /\ UNCHANGED <<phase, update, jobs>>
    BY <1>8 DEF GiveUpWaiting, HandlerTimeout, Answer, GoesWrong
  <2>2. ASSUME NEW u \in Updates PROVE Accounted(u)'
    <3>1. Adders(u)' = Adders(u)
      BY <2>1 DEF Adders
    <3> QED
      BY <2>1, <3>1, AccountKept DEF JobsAccounted
  <2>3. ASSUME NEW s \in Requests, waiting'[s] PROVE open'[s]
    BY <2>1, <2>3 DEF JobsAccounted, IngressTypeOK
  <2> QED
    BY <2>2, <2>3 DEF JobsAccounted
<1>9. CASE RegisterWebhook
  <2>1. ASSUME NEW u \in Updates PROVE Accounted(u)'
    <3>1. Adders(u)' = Adders(u)
      BY <1>9 DEF RegisterWebhook, requestVars, Adders
    <3>2. Due(u)' => Due(u)
      BY <1>9 DEF RegisterWebhook, requestVars, Due
    <3> QED
      BY <1>9, <3>1, <3>2, AccountKept DEF RegisterWebhook, JobsAccounted
  <2> QED
    BY <1>9, <2>1 DEF RegisterWebhook, requestVars, JobsAccounted
<1>10. CASE Crash
  <2>1. ASSUME NEW u \in Updates PROVE Accounted(u)'
    <3>1. Adders(u)' = {}
      BY <1>10 DEF Crash, Adders
    <3> QED
      BY <1>10, <3>1, AccountKept DEF Crash, GoesWrong, JobsAccounted
  <2> QED
    BY <1>10, <2>1 DEF Crash, JobsAccounted
<1>11. CASE Restart \/ UNCHANGED ingressVars
  <2>1. UNCHANGED <<telegram, requestVars, jobs, faults>>
    BY <1>11 DEF Restart, ingressVars
  <2> QED
    BY <2>1 DEF requestVars, JobsAccounted, Accounted, Adders, Due
<1> QED
  BY <1>1, <1>2, <1>3, <1>4, <1>5, <1>6, <1>7, <1>8, <1>9, <1>10, <1>11
  DEF IngressNext, Handle, Disturb

\* A photo is queued once, and once more at most for each thing that went wrong.
THEOREM ExtraJobsAreFaults == IngressSafeSpec => []ExtraJobsNeedFaults
<1>1. IngressInit => JobsAccounted
  <2> SUFFICES ASSUME IngressInit, NEW u \in Updates PROVE Accounted(u)
    BY DEF IngressInit, JobsAccounted
  <2>1. Cardinality(Adders(u)) = 0
    <3>1. Adders(u) = {}
      BY DEF IngressInit, Adders
    <3> QED
      BY <3>1, FS_EmptySet
  <2> QED
    BY <2>1 DEF IngressInit, Accounted
<1>2. IngressInv /\ JobsAccounted /\ [IngressNext]_ingressVars => JobsAccounted'
  BY AccountStep
<1>3. IngressInv /\ JobsAccounted => ExtraJobsNeedFaults
  <2> SUFFICES ASSUME IngressInv, JobsAccounted, NEW u \in Updates
               PROVE  jobs[u] <= 1 + faults
    BY DEF ExtraJobsNeedFaults
  <2> QED
    BY AddersFinite, IngressAssumption
    DEF IngressInv, IngressTypeOK, JobsAccounted, Accounted
<1> QED
  BY <1>1, <1>2, <1>3, IngressInvariant, PTL DEF IngressSafeSpec

=============================================================================
