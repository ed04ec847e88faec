------------------------------ MODULE SmokeTest ------------------------------
(***************************************************************************)
(* The smoke test against a deployment: the script waits for the backend,  *)
(* posts a photo to the webhook and polls GET /transactions until a row of *)
(* its user is there or its time is up, while the backend starts, dies and *)
(* is throttled, the worker takes its time and others migrate the database.*)
(***************************************************************************)
EXTENDS Throttle, Schema

CONSTANTS
  PollInterval,    \* POLL_INTERVAL_MS
  HealthInterval,  \* HEALTH_POLL_INTERVAL_MS
  HealthTimeout,   \* timeout of a probe
  TimeoutMs,       \* SMOKE_TIMEOUT_MS
  WaitForBackend,  \* SMOKE_WAIT_FOR_BACKEND_MS
  Lags,            \* how far the clock of the database may be behind
  MaxRuns,         \* bound: runs of the script
  LastStart,       \* bound: the time after which none begins
  MaxCrashes,      \* bound: crashes of the backend
  MaxOthers        \* bound: requests of others from the script's address

ASSUME SmokeAssumption ==
  /\ PollInterval \in Nat \ {0} /\ HealthInterval \in Nat \ {0}
  /\ HealthTimeout \in Nat \ {0}
  /\ TimeoutMs \in Nat /\ WaitForBackend \in Nat
  /\ Lags \subseteq Nat
  /\ Handlers = {"health", "webhook", "list", "summary"}
  /\ LastStart \in Nat
  /\ LastStart + TimeoutMs <= MaxClock /\ LastStart + WaitForBackend < MaxClock
  /\ MaxRuns \in Nat /\ MaxCrashes \in Nat /\ MaxOthers \in Nat

VARIABLES
  serving,    \* the backend listens
  lag,        \* how far the clock of the database is behind the script's
  phase,      \* the await the script is at
  startTime, wakeAt,
  reason,     \* why it failed
  job,        \* the photo of this run
  createdAt,  \* of its row
  seen,       \* the answer under way shows a row that the script takes
  overlooked, \* history: the table was read for the script when the row was there
  runs, crashes, others

scriptVars == <<phase, startTime, wakeAt, reason, seen, overlooked, runs>>
rowVars == <<job, createdAt>>
hostVars == <<serving, lag, crashes, others>>
smokeVars == <<throttleVars, schemaVars, scriptVars, rowVars, hostVars>>

Migrated == Has(catalog, "transactions")

SmokeInit ==
  /\ ThrottleInit
  /\ SchemaInit
  /\ serving \in BOOLEAN
  /\ lag \in Lags
  /\ phase = "idle"
  /\ startTime = 0 /\ wakeAt = 0
  /\ reason = "none"
  /\ job = "none"
  /\ createdAt = 0
  /\ seen = FALSE
  /\ overlooked = FALSE
  /\ runs = 0 /\ crashes = 0 /\ others = 0

-----------------------------------------------------------------------------
(* The script.                                                             *)

\* A timer of the script; the last ones fire when the clock stops.
Due == now >= wakeAt \/ now = MaxClock

Ended == phase \in {"idle", "passed", "failed"}

Fails(why) == phase' = "failed" /\ reason' = why

Run ==
  /\ Ended
  /\ runs < MaxRuns
  /\ now <= LastStart
  /\ runs' = runs + 1
  /\ phase' = "probe"
  /\ startTime' = now
  /\ wakeAt' = now + HealthTimeout
  /\ reason' = "none"
  /\ job' = "none"
  /\ createdAt' = 0
  /\ seen' = FALSE
  /\ overlooked' = FALSE
  /\ UNCHANGED <<throttleVars, schemaVars, hostVars>>

\* Probes until the backend answers.
AfterProbe_NoDeadline ==
  phase' = "rest" /\ wakeAt' = now + HealthInterval /\ UNCHANGED reason

\* The deadline is looked at after a probe, not during one.
AfterProbe ==
  IF now > startTime + WaitForBackend \/ WaitForBackend = 0
    THEN Fails("unreachable") /\ UNCHANGED wakeAt
    ELSE phase' = "rest" /\ wakeAt' = now + HealthInterval /\ UNCHANGED reason

ProbeFails ==
  /\ phase = "probe"
  /\ ~serving \/ Due
  /\ AfterProbe
  /\ UNCHANGED <<throttleVars, schemaVars, rowVars, hostVars, startTime, seen,
                 overlooked, runs>>

ProbeAnswered ==
  /\ phase = "probe"
  /\ serving
  /\ Count("health")
  /\ IF Admits("health") THEN phase' = "post" /\ UNCHANGED <<wakeAt, reason>>
     ELSE AfterProbe
  /\ UNCHANGED <<now, schemaVars, rowVars, hostVars, startTime, seen, overlooked, runs>>

ProbeAgain ==
  /\ phase = "rest"
  /\ Due
  /\ phase' = "probe"
  /\ wakeAt' = now + HealthTimeout
  /\ UNCHANGED <<throttleVars, schemaVars, rowVars, hostVars, startTime, reason,
                 seen, overlooked, runs>>

\* The head of the loop.
NextPoll ==
  IF now - startTime < TimeoutMs THEN phase' = "list" /\ UNCHANGED reason
  ELSE Fails("timeout")

\* A 200 of the webhook means that the photo has its job; the worker may be
\* done with it before the answer arrives.
PostServed ==
  /\ phase = "post"
  /\ serving
  /\ Count("webhook")
  /\ IF Admits("webhook")
       THEN \/ phase' = "accepted" /\ job' = "queued" /\ UNCHANGED reason
            \/ Fails("refused") /\ UNCHANGED job
       ELSE Fails("throttled") /\ UNCHANGED job
  /\ UNCHANGED <<now, schemaVars, hostVars, createdAt, startTime, wakeAt, seen,
                 overlooked, runs>>

\* startTime is taken when the photo has been posted.
StartTime_AfterPost == startTime' = now

\* startTime is taken once, when the script begins.
StartTime == UNCHANGED startTime

PostAnswered ==
  /\ phase = "accepted"
  /\ NextPoll
  /\ StartTime
  /\ UNCHANGED <<throttleVars, schemaVars, rowVars, hostVars, wakeAt, seen,
                 overlooked, runs>>

\* The rows of its user that are not older than the run.
Matches == job = "saved" /\ createdAt >= startTime

\* The backend reads the table; the answer arrives later.
ListRead ==
  /\ phase = "list"
  /\ serving
  /\ Count("list")
  /\ IF ~Admits("list") THEN Fails("throttled") /\ UNCHANGED <<seen, overlooked>>
     ELSE IF ~Migrated THEN Fails("error") /\ UNCHANGED <<seen, overlooked>>
     ELSE /\ phase' = "answer"
          /\ seen' = Matches
          /\ overlooked' = (job = "saved")
          /\ UNCHANGED reason
  /\ UNCHANGED <<now, schemaVars, rowVars, hostVars, startTime, wakeAt, runs>>

Sleep == wakeAt' = now + PollInterval

ListAnswered ==
  /\ phase = "answer"
  /\ IF seen THEN phase' = "summary" /\ UNCHANGED wakeAt
     ELSE phase' = "sleep" /\ Sleep
  /\ UNCHANGED <<throttleVars, schemaVars, rowVars, hostVars, startTime, reason,
                 seen, overlooked, runs>>

PollAgain ==
  /\ phase = "sleep"
  /\ Due
  /\ NextPoll
  /\ UNCHANGED <<throttleVars, schemaVars, rowVars, hostVars, startTime, wakeAt,
                 seen, overlooked, runs>>

SummaryAnswered ==
  /\ phase = "summary"
  /\ serving
  /\ Count("summary")
  /\ IF ~Admits("summary") THEN Fails("throttled")
     ELSE IF ~Migrated THEN Fails("error")
     ELSE phase' = "passed" /\ UNCHANGED reason
  /\ UNCHANGED <<now, schemaVars, rowVars, hostVars, startTime, wakeAt, seen,
                 overlooked, runs>>

\* Nobody listens.
RequestRefused ==
  /\ phase \in {"post", "list", "summary"}
  /\ ~serving
  /\ Fails("refused")
  /\ UNCHANGED <<throttleVars, schemaVars, rowVars, hostVars, startTime, wakeAt,
                 seen, overlooked, runs>>

-----------------------------------------------------------------------------
(* The deployment.                                                         *)

\* The insert takes its time from the database.
Save ==
  /\ job = "queued"
  /\ serving /\ Migrated
  /\ job' = "saved"
  /\ createdAt' = now - lag
  /\ UNCHANGED <<throttleVars, schemaVars, scriptVars, hostVars>>

\* A reading without a date, a service that is down, a database without tables.
GiveUpJob ==
  /\ job = "queued"
  /\ job' = "lost"
  /\ UNCHANGED <<throttleVars, schemaVars, scriptVars, hostVars, createdAt>>

StartBackend ==
  /\ ~serving
  /\ serving' = TRUE
  /\ ForgetHits
  /\ UNCHANGED <<now, schemaVars, scriptVars, rowVars, lag, crashes, others>>

\* A request that is under way fails with it.
CrashBackend ==
  /\ serving
  /\ crashes < MaxCrashes
  /\ serving' = FALSE
  /\ crashes' = crashes + 1
  /\ CASE phase = "probe" -> AfterProbe
       [] phase \in {"post", "accepted", "list", "answer", "summary"} -> Fails("refused") /\ UNCHANGED wakeAt
       [] OTHER -> UNCHANGED <<phase, reason, wakeAt>>
  /\ UNCHANGED <<throttleVars, schemaVars, rowVars, lag, others, startTime, seen,
                 overlooked, runs>>

OtherRequest(h) ==
  /\ serving
  /\ others < MaxOthers
  /\ others' = others + 1
  /\ Count(h)
  /\ UNCHANGED <<now, schemaVars, scriptVars, rowVars, serving, lag, crashes>>

TimePasses == Tick \/ \E h \in Handlers : Forget(h)

Frame == UNCHANGED <<scriptVars, rowVars, hostVars>>

ScriptStep ==
  \/ ProbeFails \/ ProbeAnswered \/ ProbeAgain
  \/ PostServed \/ PostAnswered
  \/ ListRead \/ ListAnswered \/ PollAgain
  \/ SummaryAnswered \/ RequestRefused

SmokeNext ==
  \/ Run \/ ScriptStep
  \/ Save \/ GiveUpJob
  \/ StartBackend \/ CrashBackend
  \/ \E h \in Handlers : OtherRequest(h)
  \/ TimePasses /\ UNCHANGED schemaVars /\ Frame
  \/ SchemaNext /\ UNCHANGED throttleVars /\ Frame

SmokeSafeSpec == SmokeInit /\ [][SmokeNext]_smokeVars

\* What the script does by itself: only its probe has a timeout, so it waits for
\* the answers to its other requests as long as they take.
ScriptTimers == ProbeAnswered \/ ProbeFails \/ ProbeAgain \/ PollAgain

\* Timers fire.
SmokeSpec ==
  /\ SmokeSafeSpec
  /\ WF_smokeVars(ScriptTimers)
  /\ WF_smokeVars(TimePasses /\ UNCHANGED schemaVars /\ Frame)

-----------------------------------------------------------------------------
(* Properties.                                                             *)

Requesting == phase \in {"post", "accepted", "list", "answer", "summary"}

\* The script ends, whatever becomes of the photo, and whether or not the backend
\* ever listens: nothing but a request that is never answered can hold it.
SmokeEnds == (phase = "probe") ~> (Ended \/ []Requesting)

\* A verdict of a timeout means that the row was not there when the table was
\* last read for the script, or is older than the script by the clock of the
\* database; never that the row was overlooked.
TimeoutMeansNoRow ==
  reason = "timeout" /\ lag = 0 => ~overlooked

\* A run that is alone at its address polls Limit times, PollInterval apart,
\* before the throttler refuses it.
PollsHaveTheirTime ==
  reason = "throttled" /\ runs = 1 /\ others = 0 => now >= startTime + Limit * PollInterval

\* README.md:35, "SMOKE_TIMEOUT_MS (overall smoke test timeout)": with a backend
\* that answers, the script gives the photo up when that time has passed.
GivesUpAtTimeout ==
  phase = "failed" /\ crashes = 0 /\ others = 0 /\ job # "none" /\ Migrated
    => now - startTime >= TimeoutMs

=============================================================================
