--------------------------- MODULE TelegramIngress ---------------------------
(***************************************************************************)
(* How an update reaches the queue: Telegram delivers it to                *)
(* POST /telegram/webhook/:secret until it gets a 2xx answer, Telegraf     *)
(* routes it to a handler of TelegramUpdateHandler, and the handler of a   *)
(* photo awaits Queue.add.  Telegram, Telegraf and ioredis are external;   *)
(* they are modelled from how the code uses them: a webhook answered when  *)
(* handleUpdate resolves, Telegraf's default handlerTimeout, a connection  *)
(* with maxRetriesPerRequest null, which sends an unanswered command       *)
(* again.  An exception in a handler is logged by GlobalExceptionFilter    *)
(* and thrown on, so that the webhook answers with an error.               *)
(* The throttler's counts are those of Throttle; here any request may be   *)
(* the one that exceeds a limit, and a block lasts as long as the process. *)
(***************************************************************************)
EXTENDS Naturals, FiniteSets

CONSTANTS
  Updates,    \* the updates users may cause
  Requests,   \* webhook requests the process may be serving at once
  NoUpdate,
  MaxFaults   \* bound: answers and replies that are lost or late, and stops of the process

ASSUME IngressAssumption ==
  /\ NoUpdate \notin Updates
  /\ IsFiniteSet(Requests)
  /\ MaxFaults \in Nat

VARIABLES
  telegram,  \* what Telegram knows of an update
  kind,      \* what the update is, fixed when it is sent
  update,    \* the update a request carries
  phase,     \* the await the handler of a request is at
  open,      \* the handler's HTTP response has not been written
  waiting,   \* Telegram still waits for that response
  jobs,      \* the jobs added to the queue for an update
  process,
  refusing,  \* why the webhook refuses every request
  muted,     \* updates whose sender has exceeded the limit of their handler
  faults     \* things that went wrong so far

requestVars == <<update, phase, open, waiting>>
guardVars == <<refusing, muted>>
ingressVars == <<telegram, kind, requestVars, jobs, process, guardVars, faults>>

\* A photo without a sender is a channel's; "other" has no handler.
Kinds == {"photo", "photoWithoutSender", "editedPhoto", "text", "start", "other"}

\* The webhook's own limit was exceeded; the secret in the URL that Telegram has
\* is not the one the process was started with.
Reasons == {"limit", "secret"}

IngressInit ==
  /\ telegram = [u \in Updates |-> "unsent"]
  /\ kind = [u \in Updates |-> "other"]
  /\ update = [r \in Requests |-> NoUpdate]
  /\ phase = [r \in Requests |-> "idle"]
  /\ open = [r \in Requests |-> FALSE]
  /\ waiting = [r \in Requests |-> FALSE]
  /\ jobs = [u \in Updates |-> 0]
  /\ process = "up"
  /\ refusing \in {{}, {"secret"}}
  /\ muted = {}
  /\ faults = 0

GoesWrong ==
  /\ faults < MaxFaults
  /\ faults' = faults + 1

-----------------------------------------------------------------------------
(* Telegram.                                                               *)

Send(u, k) ==
  /\ telegram[u] = "unsent"
  /\ telegram' = [telegram EXCEPT ![u] = "pending"]
  /\ kind' = [kind EXCEPT ![u] = k]
  /\ UNCHANGED <<requestVars, jobs, process, guardVars, faults>>

\* A pending update is delivered, again if need be, but not while Telegram
\* waits for the answer to an earlier delivery of it.
Deliver(r, u) ==
  /\ process = "up"
  /\ telegram[u] = "pending"
  /\ phase[r] = "idle"
  /\ \A s \in Requests : update[s] = u => ~waiting[s]
  /\ update' = [update EXCEPT ![r] = u]
  /\ phase' = [phase EXCEPT ![r] = "arrived"]
  /\ open' = [open EXCEPT ![r] = TRUE]
  /\ waiting' = [waiting EXCEPT ![r] = TRUE]
  /\ UNCHANGED <<telegram, kind, jobs, process, guardVars, faults>>

\* Telegram closes the connection before the answer, or the answer is lost.
GiveUpWaiting(r) ==
  /\ waiting[r]
  /\ GoesWrong
  /\ waiting' = [waiting EXCEPT ![r] = FALSE]
  /\ UNCHANGED <<telegram, kind, update, phase, open, jobs, process, guardVars>>

\* setup-telegram-webhook.ts registers the webhook with
\* drop_pending_updates: true, and with the secret of its own environment.
RegisterWebhook ==
  /\ telegram' = [u \in Updates |->
                    IF telegram[u] = "pending" THEN "dropped" ELSE telegram[u]]
  /\ \E fits \in BOOLEAN :
       refusing' = IF fits THEN refusing \ {"secret"} ELSE refusing \union {"secret"}
  /\ UNCHANGED <<kind, requestVars, jobs, process, muted, faults>>

-----------------------------------------------------------------------------
(* The webhook's handler.                                                  *)

\* The response is written; a 2xx settles the update if Telegram hears it.
Answer(r, ok) ==
  /\ waiting' = [waiting EXCEPT ![r] = FALSE]
  /\ telegram' =
       IF ok /\ open[r] /\ waiting[r] /\ telegram[update[r]] = "pending"
       THEN [telegram EXCEPT ![update[r]] = "acked"] ELSE telegram

Release(r) ==
  /\ update' = [update EXCEPT ![r] = NoUpdate]
  /\ phase' = [phase EXCEPT ![r] = "idle"]
  /\ open' = [open EXCEPT ![r] = FALSE]

ErrorOk_Swallowed == TRUE

\* What a guard or a handler throws reaches handleWebhook, although
\* GlobalExceptionFilter returns outside of HTTP: the answer is an error.
ErrorOk == FALSE

\* All kinds for which a handler, and with it a guard, is registered.
Handled == Kinds \ {"other"}

Refused(u) == refusing # {} \/ u \in muted

\* ContextAwareThrottlerGuard refuses the webhook or the sender, or
\* handleWebhook the secret.
Refuse(r) ==
  /\ phase[r] = "arrived"
  /\ Refused(update[r])
  /\ Answer(r, ErrorOk) /\ Release(r)
  /\ UNCHANGED <<kind, jobs, process, guardVars, faults>>

\* A request too many for the address that Telegram has, or for the sender.
\* The block would end at the sum of a time and a text.
Exceed(r) ==
  /\ phase[r] = "arrived"
  /\ \/ /\ "limit" \notin refusing
        /\ refusing' = refusing \union {"limit"}
        /\ UNCHANGED muted
     \/ /\ ~Refused(update[r])
        /\ kind[update[r]] \in Handled
        /\ muted' = muted \union {update[r]}
        /\ UNCHANGED refusing
  /\ Answer(r, ErrorOk) /\ Release(r)
  /\ UNCHANGED <<kind, jobs, process, faults>>

Greeted == {"text", "start"}

\* handlePhotoMessage reads context.message, which an edited message has not,
\* and context.from, which a channel's has not: it returns without a word.
Queued == {"photo"}

Ignored == Kinds \ (Greeted \union Queued)

IgnoredOk_Thrown == FALSE

\* Handlers return early, and Telegraf passes by what has no handler:
\* handleUpdate resolves all the same.
IgnoredOk == TRUE

Route(r) ==
  LET k == kind[update[r]] IN
  /\ phase[r] = "arrived"
  /\ ~Refused(update[r])
  /\ \/ /\ k \in Queued
        /\ phase' = [phase EXCEPT ![r] = "adding"]
        /\ UNCHANGED <<telegram, update, open, waiting>>
     \/ /\ k \in Greeted
        /\ phase' = [phase EXCEPT ![r] = "greeting"]
        /\ UNCHANGED <<telegram, update, open, waiting>>
     \/ /\ k \in Ignored
        /\ Answer(r, IgnoredOk) /\ Release(r)
  /\ UNCHANGED <<kind, jobs, process, guardVars, faults>>

JobsPerPhoto_EverySize == 2

\* Only the largest of a photo's sizes is queued.
JobsPerPhoto == 1

\* Redis executes the add; its reply is on the way.
StoreJob(r) ==
  /\ phase[r] = "adding"
  /\ jobs' = [jobs EXCEPT ![update[r]] = @ + JobsPerPhoto]
  /\ phase' = [phase EXCEPT ![r] = "added"]
  /\ UNCHANGED <<telegram, kind, update, open, waiting, process, guardVars, faults>>

\* The connection breaks before the reply: ioredis sends the add again.
ResendAdd(r) ==
  /\ phase[r] = "added"
  /\ GoesWrong
  /\ phase' = [phase EXCEPT ![r] = "adding"]
  /\ UNCHANGED <<telegram, kind, update, open, waiting, jobs, process, guardVars>>

Settled_NotAwaited(r) == phase[r] \in {"adding", "added", "greeting"}

\* What the handler awaits is there.
Settled(r) == phase[r] \in {"added", "greeting"}

\* handleUpdate resolves: 200, unless the response was written before.
Finish(r) ==
  /\ Settled(r)
  /\ Answer(r, TRUE) /\ Release(r)
  /\ UNCHANGED <<kind, jobs, process, guardVars, faults>>

\* Queue.add or the reply throws, and may do so whenever it is tried: a Redis
\* that is full, a user who has blocked the bot.
Throw(r) ==
  /\ phase[r] \in {"adding", "greeting"}
  /\ Answer(r, ErrorOk) /\ Release(r)
  /\ UNCHANGED <<kind, jobs, process, guardVars, faults>>

\* Telegraf's handlerTimeout: the webhook answers 500 while the handler is
\* left to itself; an add that waits for Redis still comes.
HandlerTimeout(r) ==
  /\ open[r]
  /\ phase[r] \in {"adding", "added", "greeting"}
  /\ GoesWrong
  /\ Answer(r, FALSE)
  /\ open' = [open EXCEPT ![r] = FALSE]
  /\ UNCHANGED <<kind, update, phase, jobs, process, guardVars>>

\* The process dies or is stopped.
Crash ==
  /\ process = "up"
  /\ GoesWrong
  /\ process' = "down"
  /\ update' = [r \in Requests |-> NoUpdate]
  /\ phase' = [r \in Requests |-> "idle"]
  /\ open' = [r \in Requests |-> FALSE]
  /\ waiting' = [r \in Requests |-> FALSE]
  /\ UNCHANGED <<telegram, kind, jobs, guardVars>>

\* The throttler's storage was in memory; the environment may have changed.
Restart ==
  /\ process = "down"
  /\ process' = "up"
  /\ refusing' \in {{}, {"secret"}}
  /\ muted' = {}
  /\ UNCHANGED <<telegram, kind, requestVars, jobs, faults>>

Handle(r) ==
  \/ Refuse(r) \/ Route(r) \/ StoreJob(r) \/ Finish(r)

Disturb(r) ==
  \/ GiveUpWaiting(r) \/ Exceed(r) \/ ResendAdd(r) \/ Throw(r)
  \/ HandlerTimeout(r)

IngressNext ==
  \/ \E u \in Updates, k \in Kinds : Send(u, k)
  \/ \E r \in Requests, u \in Updates : Deliver(r, u)
  \/ \E r \in Requests : Handle(r) \/ Disturb(r)
  \/ RegisterWebhook
  \/ Crash
  \/ Restart

IngressSafeSpec == IngressInit /\ [][IngressNext]_ingressVars

\* Telegram goes on delivering, the event loop and Redis go on, and somebody
\* starts the process again.  Nothing makes a user send or anything go wrong.
IngressFairness ==
  /\ \A u \in Updates : WF_ingressVars(\E r \in Requests : Deliver(r, u))
  /\ \A r \in Requests : WF_ingressVars(Handle(r))
  /\ WF_ingressVars(Restart)

IngressSpec == IngressSafeSpec /\ IngressFairness

-----------------------------------------------------------------------------
(* Properties.                                                             *)

\* The types of the ingress's state; a free request carries no update and is
\* not waited for.
IngressTypeOK ==
  /\ telegram \in [Updates -> {"unsent", "pending", "acked", "dropped"}]
  /\ kind \in [Updates -> Kinds]
  /\ update \in [Requests -> Updates \union {NoUpdate}]
  /\ phase \in [Requests -> {"idle", "arrived", "adding", "added", "greeting"}]
  /\ open \in [Requests -> BOOLEAN]
  /\ waiting \in [Requests -> BOOLEAN]
  /\ jobs \in [Updates -> Nat]
  /\ process \in {"up", "down"}
  /\ refusing \subseteq Reasons
  /\ muted \subseteq Updates
  /\ faults \in 0 .. MaxFaults
  /\ \A r \in Requests : phase[r] = "idle" => update[r] = NoUpdate /\ ~waiting[r]
  /\ \A r \in Requests : phase[r] # "idle" => update[r] \in Updates

\* No photo is lost between Telegram and the queue: when Telegram has been
\* told that it need not deliver a photo again, a job for it is in the queue,
\* whatever timed out, crashed or was delivered twice before.
AckedPhotoQueued ==
  \A u \in Updates :
    telegram[u] = "acked" /\ kind[u] = "photo" => jobs[u] > 0

\* A photo is queued more than once only when something went wrong, and once
\* more at most for each thing that did; refusals and exceptions, however many,
\* cost nothing, since they come before the add.  (No jobId: the queue accepts every
\* repetition; only the look-up in processImageJob can flag its row.)
ExtraJobsNeedFaults == \A u \in Updates : jobs[u] <= 1 + faults

\* The handler of u throws.
Thrown(u) == \E r \in Requests : update[r] = u /\ Throw(r)

\* Telegram's retries are heard: a photo that was sent is queued in the end,
\* whatever becomes of other updates.  It is not if somebody runs the set-up
\* script, which drops it, if the throttler or the secret is against it for
\* good, or if Redis rejects its add each time.
PhotoReachesQueue ==
  \A u \in Updates :
    \/ []<><<Thrown(u)>>_ingressVars
    \/ (telegram[u] = "pending" /\ kind[u] = "photo")
         ~> (jobs[u] > 0 \/ telegram[u] = "dropped" \/ []Refused(u))

\* No update is delivered for ever, the kinds without a handler included, but
\* one whose handler throws each time, and those that are refused for good.
UpdatesSettle ==
  \A u \in Updates :
    \/ []<><<Thrown(u)>>_ingressVars
    \/ (telegram[u] = "pending")
         ~> (telegram[u] \in {"acked", "dropped"} \/ []Refused(u))

\* What telegram.update.ts says of its handler of edited messages, that it
\* covers media edits: a photo put into an edited message is queued.
EditedPhotoQueued ==
  \A u \in Updates :
    telegram[u] = "acked" /\ kind[u] = "editedPhoto" => jobs[u] > 0

-----------------------------------------------------------------------------
(* The inductive invariant behind AckedPhotoQueued.                        *)

\* A handler that is about to answer 200 has its job, or needed none.
SettledIsQueued ==
  \A r \in Requests :
    /\ phase[r] = "added" => jobs[update[r]] > 0
    /\ phase[r] = "greeting" => kind[update[r]] # "photo"
    /\ phase[r] # "idle" => telegram[update[r]] # "unsent"

IngressInv == IngressTypeOK /\ SettledIsQueued /\ AckedPhotoQueued

\* The runs of the handler that may still add a job for u, or throw.
Adders(u) ==
  {r \in Requests : update[r] = u /\ phase[r] \in {"arrived", "adding", "greeting"}}

\* u may be delivered once more although nothing goes wrong.
Due(u) ==
  /\ telegram[u] \in {"unsent", "pending"}
  /\ \A r \in Requests : update[r] = u => ~waiting[r]

\* Jobs, runs that may add one and a delivery that is due: together one more
\* at most than things went wrong.
Accounted(u) ==
  jobs[u] + Cardinality(Adders(u)) + (IF Due(u) THEN 1 ELSE 0) <= 1 + faults

JobsAccounted ==
  /\ \A r \in Requests : waiting[r] => open[r]
  /\ \A u \in Updates : Accounted(u)

=============================================================================
