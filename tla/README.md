# A TLA+ model of birr-track-backend

The backend receives photos of payment receipts from a Telegram bot, queues
one job per photo, reads the receipt with an OCR service, regular expressions
and, if need be, an LLM, and stores one row per receipt in PostgreSQL. Clients
list, sum, export and edit the rows, and hear of new ones over a socket.

This directory models what is hard to test there: redelivered updates, two
concurrent runs with retries and stalled jobs, a duplicate look-up that is not
atomic with its insert, an audit trail written from a reading that may be out
of date, a service that goes on working for callers who have left, dates and
amounts read by two programs, a list that moves under the client that pages
through it, a migration that several may run, and a smoke test that runs
against all of this with timeouts and a throttler of its own.
TLC checks the models on small instances; the TLA+ proof system (TLAPS) proves
the safety results for every value of the constants. Paths below are relative
to the repository.

## 1. Inventory

| Component | State | Operations | What makes it correct |
|---|---|---|---|
| Telegram ingress: `src/telegram` | none of its own; Telegram keeps an update until it gets a 2xx | webhook POST, handlers for photo, text, start, edited message | a photo that Telegram may forget has been queued; faults alone queue it twice; every update is settled unless it is refused for good or its handler never stops throwing |
| Queue and worker: `src/queue` | in Redis: a job's list, failed attempts, stalls, lock; in the process: the job each of two slots runs | add, claim, complete, fail, retry with backoff, expiry and loss of locks, recovery of stalled jobs, crash, orderly shutdown, restart | bounded number of runs; outcomes are final; one run at a time unless a lock is lost; every job settles |
| Receipt processing: `src/processing/processing.service.ts` | local variables of a run, kept over its awaits | getFile, download, OCR, parse, findDuplicate, create, emit | no completed photo without event or reason; retries are recognised; one row per run |
| Parsing: `src/processing/parsing.service.ts` | none | regular expressions, date extraction, merge with the LLM | nothing incomplete is saved; retries agree on what was read; a date or an amount is a printed one; lower lines of a receipt do not change its key |
| OCR/LLM service: `ocr-service` (Python), with its clients `ocr.service.ts`, `llm.service.ts` | two singletons; the requests its event loop has not answered | start, /ocr, /llm/extract, crash | one model is loaded; a late answer decides nothing; abandoned work is bounded; requests leave |
| Parser of the LLM's answer: `ocr-service/app/services/parser.py` | none | find a JSON object, normalise amount, date, confidence | takes a whole object or none; agrees with the backend's expressions |
| Transactions: `src/transactions` | tables `transactions` and `edit_logs` | create, POST, PATCH, list, summary, export | a flag has a reason; concurrent edits merge; the trail can be replayed; paging loses no row; totals and reports contain what the pages have shown |
| Event gateway: `src/websocket` | sockets | emit | part of "completed means announced" |
| Guard and filter: `src/shared`, `app.module.ts` | the throttler's counters and blocks, in memory | count, refuse, forget; log and rethrow | refused and failed updates are delivered again; nobody is refused before the limit |
| Set-up script: `src/scripts/setup-telegram-webhook.ts` | none | register the webhook | pending updates are dropped only by it |
| Smoke test: `src/scripts/smoke-test-e2e.ts` | the variables of one run | probe, post, poll, ask for the summary | it ends; "timed out" means that there is no row |
| Schema: `src/database`, the entities (`businesses` too) | tables, indexes, keys; the record of migrations | migrate, revert | the tables are there as the entities need them, or none is; only a rival's commit makes a statement fail |
| Health check, bootstrap, configuration, logging | — | — | the health check is in the smoke test; the rest is wiring and pure I/O |

How they interact: Telegram → webhook → Telegraf handler → `Queue.add` (Redis)
→ worker slot → Telegram (file), OCR service, LLM service → database → socket.
PATCH and POST write the same table from outside, the list reads it. Nothing
but Redis and PostgreSQL survives a crash. Every `await` is a point where
another request, the other slot or a crash may come in between; the two
services are asked with a timeout of 30 s, Redis without any limit
(`maxRetriesPerRequest: null`).

The hazards, each at its line and with the properties that watch it, are in
`PROJECT.json`.

## 2. Modules

| Module | Models | Extends |
|---|---|---|
| `JobQueue` | `queue.service.ts`, `image-processing.worker.ts`, BullMQ as they use it | — |
| `ReceiptPipeline` | `processing.service.ts`, `parse`, `create`, `findDuplicate`, POST, the effect of PATCH on keys | `JobQueue` |
| `ReceiptPromise` | abstract specification: what the sender of a photo may rely on | — |
| `TelegramIngress` | `src/telegram`, Telegram, Telegraf and ioredis as they are used | — |
| `EditAudit` | `TransactionsService.update` with `edit_logs` | — |
| `ReaderService` | `ocr-service/app`: start-up, routes, singletons; the two clients of the backend | — |
| `ReceiptDate` | `extractTimestampFromText` and the four expressions; `_normalize_timestamp` | — |
| `ReceiptText` | `parseWithRegex`: amount, transaction id, bank; `_normalize_amount` | `ReceiptDate` |
| `LlmAnswer` | `_extract_json_dict`, `_find_balanced_json_object` against what an LLM writes before it is cut off | — |
| `PagedList` | `findAll` and the walk of a client through its pages, `getSummary`, `export` | — |
| `Schema` | the migration `InitialSchema`, up and down, as TypeORM runs it; what the entities expect | — |
| `Throttle` | the throttler's counters for one address, and the clock | — |
| `SmokeTest` | `smoke-test-e2e.ts` with the backend, the worker and the schema under it | `Throttle`, `Schema` |
| `MCReceiptPipeline`, `MCEditAudit`, `MCReceiptDate`, `MCReceipts`, `MCPagedList`, `MCSmokeTest` | values of constants, symmetry and restrictions for TLC | |
| `JobQueueProofs`, `ReceiptPipelineProofs`, `TelegramIngressProofs`, `EditAuditProofs`, `ReaderServiceProofs`, `ReceiptProofs`, `PagedListProofs`, `SmokeTestProofs` | theorems | |

Names that end in an underscore and a word (`MayRetry_Forever`) are plausible
mistakes in the definition before the underscore. Nothing uses them; putting
one in the place of its original makes TLC find the property violated that
`PROJECT.json` pairs it with.

### JobQueue

`jobState`, `attemptsMade`, `attemptsStarted`, `stalledCounter` and `lock` are
what Redis keeps of a job; `running` is the job each slot of the one `Worker`
(`concurrency: 2`) executes; `process` is the NestJS process. `Enqueue` is
`enqueueImageProcessingJob`, `Claim` a slot fetching a job, `Complete`, `Fail`
and `LostFinish` the end of a run, `Promote` the end of a backoff,
`RecoverStalled` BullMQ's stalled checker, `BeginClose`/`FinishClose` the two
`onModuleDestroy`. BullMQ (5.72) is not in the repository. Its behaviour is
taken from the options the code passes: no `jobId`, `attempts: 3`, exponential
backoff, and defaults for everything else (one tolerated stall). The list is
modelled as a set, since two slots and retries reorder it anyway.
`removeOnComplete`/`removeOnFail` prune settled jobs and are left out.

### ReceiptPipeline

Each slot has a `phase`, the await its run is at, and the local variables of
`processImageJob`. Getting the file path, the download and the OCR are one
phase, because they change nothing but the run itself. What the regular
expressions find in a photo (`RegexRead`) and what the LLM may answer for it
(`LlmRead`, a set: it need not answer twice alike; the empty set: it refuses,
as it does an empty text, `min_length=1`) are constants. `ledger` is the table
in insertion order. `Throw` may happen at every await; a statement whose
connection dies has either committed (then `Insert` comes first and `Throw`
at "inserted") or not. The fields `job`, `attempt`, `slot`, `held`,
`announced` of a row and the variable `skipped` are history: they are written
for the properties and never read by an action. `Patch` is the effect of a
PATCH on a row's key; its inner life is the subject of `EditAudit`.

### TelegramIngress

A request is one delivery of an update. `phase` is where its handler is,
`open` says that its response is still to be written and `waiting` that
Telegram still waits for it. The interesting cases come from these three going
apart: Telegram gives up while the handler works on; Telegraf's
`handlerTimeout` answers 500 while the add is still on its way to Redis; ioredis
sends an add again whose reply was lost. An exception in a handler passes
through `GlobalExceptionFilter`, which outside HTTP logs it and returns
nothing; Nest's handler for non-HTTP contexts then throws it on, Telegraf
rethrows, and the webhook answers with an error. `refusing` is why the process
refuses every update, `muted` the updates whose sender it refuses. Both begin
with a request that exceeds a limit, the webhook's or the sender's (`Exceed`),
which may be any request, and last until the process is started again: the end
of a block is computed from a text (`app.module.ts:27`) and is never reached. The
process may also run with another secret than the one Telegram has been told,
until either is changed (`Restart`, `RegisterWebhook`). A refusal (`Refuse`) and an
exception (`Throw`, a Redis that is full or a user who has blocked the bot)
may come again and again, as often as Telegram delivers the update. The bound
`MaxFaults` is on what is left: answers that are lost or late, updates that users
send twice, handlers that time out, and stops of the process.

### EditAudit

A PATCH reads the row (`Read`, outside the transaction), writes a log row per
changed field (`LogField`), updates the row (`Update`, which waits for the lock
of a transaction that has updated it) and commits. Values are the texts that
`readFieldValue` compares; `Canon` gives the text that a stored text comes
back as (100 is read back as 100.00), and `Stored` what null becomes (a null
date is the epoch). PostgreSQL is external and runs at READ COMMITTED, its
default, which the code does not change. `commits` and `overtaken` are
history.

### ReaderService

`stage` and `attempt` are the backend's view of a job: idle before an attempt
and during a backoff, waiting for a service, or ended. A call is a job, an
attempt and a service; `phase` is what the Python process does with it. Both
routes are coroutines without an `await` between reading the body and
computing, so `LoopFree` guards every step of the event loop, and `file.close()`
in the `finally` of `/ocr` is the one place where a finished call lets others
in front (`FinishOcr`, `ReplyOcr`). `GiveUp` is the timeout of 30 s or a broken
connection: the backend goes on, the call stays in the service, and a retry
queues behind it. `Drop` is what starlette does about a client that has gone
before its body was read, which it may or may not notice. The LLM is made by the
first request (`Load`), after failures by the next (`FailToLoad`); a refusal,
a fallback of nulls and an incomplete answer are different things to the
backend (`AfterAnswer`).

### ReceiptDate

A text is the sequence of the dates printed in it; of a printed date the form,
the numbers, the clock, its separator and a mark glued to its last digit are
kept, because these are what the four expressions tell apart. `Stops` and
`ClockRead` are the backtracking of the optional groups before `\b`: with a
letter behind the last digit the expression gives the clock's digits back.
`ExtractTimestamp` is the `??` chain over the first match of each form
(`String.match` without `g`). `IsReasonableYMD` includes the round trip through
`Date.UTC`, which moves a 31st of a short month into the next.
`NormalizeTimestamp` is the Python service's reading of the same print:
`datetime.fromisoformat` of Python 3.10 and the formats of `TIMESTAMP_FORMATS`.

### ReceiptText

A text is a sequence of tokens with white space between them. A figure is made
of runs of digits and the separator before each, because `amountRegex` is about
widths: `GroupsFrom` is how far back its groups of three reach, `HeadDigits` and
`Cents` what the bounded repetitions cut off, and a date with dots is digits
with dots to it (`Figures`). Of other tokens the number of characters counts
that `[A-Za-z0-9-]{6,}` may take (`run`). `IdHits` includes the word
"Reference", of which the alternative `ref` leaves "erence", an identifier.
Amounts are decimal numbers as `Decimal` gives them: digits and places without
trailing zeros, so that 1250 and 1250.00 are one. `NormalizeAmount` is what the
Python service makes of the same runs. Minus signs, and letters glued to a
figure, are not among the tokens.

### LlmAnswer

The output grows token by token: words of the model's own, the object
(`Decide`, `Continue`), words again; each state is an output that
`max_tokens` may have cut off. `Read` is a reader of JSON objects with keys,
numbers, texts and objects in them; it stands for `json.loads`. `Scan` is the
loop of `_find_balanced_json_object`, with its two flags and its depth.

### PagedList

A page is an OFFSET into the listed rows, ordered by `createdAt` descending and
by nothing else, so `FirstOf` is the set of all answers that PostgreSQL may
give. `createdAt` is the beginning of the inserting transaction, and
transactions become visible in another order (`BeginInsert`, `CommitInsert`).
`getManyAndCount` of TypeORM sends a second statement for the total, and omits
it for a page that is neither full nor empty (`TellsTotal`); rows may arrive
between the two. Between its pages the client may ask for the summary or the
export, which run the same filter as one statement each (`Report`).
`throughout`, `arrivals` and `left` are history.

### Schema

`Up` and `Down` are the statements of the migration as data, in the code's
order. TypeORM runs a migration in one transaction and decides before it opens
it whether there is anything to do (`Migrate`); so two deployers may both start
the same migration. `catalog` is what is committed and `draft` what the open
transaction sees. A statement waits for an open transaction that has made or
dropped the same object (`Waits`), and is refused where its object is there
already or is missing (`Executable`). `recorded` is TypeORM's table of
migrations, written with the changes. The four entities are records of the
columns that an insert supplies, leaves to the database or may leave null.

### Throttle and SmokeTest

A request is counted under its route. A count is taken back by a timer
`THROTTLER_TTL` after it was made; the request that exceeds the limit blocks
the route. The end of a block is `Date.now() + blockDuration`, the latter being
the text of the environment (`config.get` returns a string): the two are joined
to a number far beyond any clock, so a block ends with the process only.
A restart forgets the counters. `phase` is the `await` the script is
at; the request to the webhook and the poll have a served and an answered half,
because the worker may save the row, or time may pass, in between. `startTime`
is taken once, before the wait for the backend, and bounds both the polls and
the rows that the script accepts. The row's `createdAt` comes from the clock of
the database, which may be behind (`lag`). Requests other than the probe have
no timeout: they end by an answer, or with the backend.

## 3. Runs

| Run | Configuration | What it shows |
|---|---|---|
| `queue` | 2 jobs, 2 slots, the code's options (3 attempts, 1 tolerated stall), 2 crashes, 2 lost locks, 1 shutdown, fairness | at most attempts + stalls runs of a job; a stall is charged only for a crash or a lost lock, never for a shutdown; one run per job unless a lock was lost; outcomes are final; every added job settles; the inductive invariant |
| `pipeline` | two photos of one receipt (the date of one is left to the LLM, which reads it right, wrong or not at all), 2 attempts; 1 lost lock, or 1 POST and 1 PATCH meanwhile | a slot does not race with itself; a flag always has an older row as its reason; retries agree on what the expressions have read; the pipeline implements `ReceiptPromise`; the inductive invariant, with one row per run and "completed means announced" in it |
| `pipeline_live` | a photo without text and one without a date, 1 crash, 1 shutdown, fairness | every accepted photo is settled (`ReceiptPromise` with its fairness); a retry after a crash finds and flags what the earlier run has saved |
| `ingress` | 2 updates of any kind, 2 requests, 3 faults, fairness | no acknowledged photo is lost; a photo is queued at most once more per lost answer, timeout, resend or stop; every photo is queued and every update settled, unless the set-up script drops it, it is refused from some time on, or its handler throws again and again; an update that suffers this holds up no other |
| `ingress_edited` | 1 update, no fault | **violated**, see below |
| `edits` | 6 concurrent requests for a row: three that can be stored, a null amount, an empty body, an unknown row; fairness | the last commit wins per field; the trail replays unless a request was overtaken; no log row without its change; every request ends |
| `reader` | 1 job with its 3 attempts, 2 crashes or failed starts, fairness | a job ends by the answers of its own last attempt; abandoned calls are bounded; one model per process (part of the inductive invariant); every call leaves the service |
| `receipts` | all texts of up to 3 out of 37 printed dates, or up to 4 out of 19 dates, figures, labels, banks and words; the outputs of an LLM with one of 6 objects, up to 2 tokens before and after it, cut off anywhere | timestamps are days of the calendar made of one printed date, and text further down changes them only through the order of the forms; the amount is the first printed number with cents; lower lines change neither amount nor identifier, but for "Reference"; the two programs never read one print as two dates, nor a regular figure as two amounts; of an answer of the LLM the whole object is taken or nothing |
| `date_first_valid` | all texts of up to 2 out of 10 prints | **violated**, see below |
| `list` | 5 rows, 2 to a page though the client asks for 3, 1 edit of a timestamp, 1 summary or export | a row that was there all along is on some page; repeats need arrivals; total, summary and export contain what the pages before them have shown |
| `smoke` | 1 run of the script; limit 2 in 4 ticks, polls 1 tick apart, timeouts of 2 and 4; 2 deployers with 3 commands and 1 lost connection before the script, and 2 incidents (commands, a crash, a foreign request) during it; fairness | the schema is whole or absent; a statement is refused only when a rival has committed; "timed out" never passes a row by when the clocks agree; a script alone at its address gets its share of polls before the throttler refuses one; the script ends, unless a request without a timeout is never answered |
| `smoke_timeout` | the same without incidents | **violated**, see below |

The bounds. Two of each actor is where their interleavings begin. Two attempts
and one stall let each kind of retry happen and the budget be used up; `queue`
and `reader` have the code's three. Lost locks, crashes and other writers are
explored apart from each other in the pipeline, because together they are too many states
for a run of minutes (`LockOrWriters` in `MCReceiptPipeline`); `queue` has all the incidents, and the proofs need no
bound. One job is enough for `reader`: its three attempts are what competes
in the service, and a second job adds calls that behave like abandoned ones.
The printed dates of `receipts` are two of each form, whole and broken, and the numbers at
the limits of calendar and day; three of them are enough for a form to come before, between
and behind two others. Five rows make three pages of which the last is short,
with rows left to arrive. The figures of `receipts` are grouped as usual, badly, with
decimal commas and without cents; four tokens are a label and its run with
something above and below. The objects have braces, fences and quotes in their
texts, and an object inside. In `smoke` the proportions count: the limit is
reached well before the timeout, as in `.env.example`, the clock stops after
the last timeout, and a count can expire during a run. Nobody but deployers sees an open
transaction, so `MCSmokeTest` lets the rest of the system rest while one is under way; what
can happen to two deployers happens before the script begins, and others'
commands and requests fall into its pauses.
Symmetry is used for slots and rows in runs without liveness
only. `CHECK_DEADLOCK FALSE` is everywhere because the systems may rest: all
jobs are settled, all edits have been answered, all pages were read.

### Fairness

* A run ends: each request it waits for is answered, refused or timed out
  (`timeout: 30000`), a statement is executed or its connection breaks.
* A free slot fetches, timers of BullMQ fire, an orderly shutdown ends.
* A process that stopped is started again, by whoever deploys it; the Python
  service too.
* Telegram goes on delivering, and a request is answered in the end: by a 200, by
  a refusal or by an exception. That it is not refused each time, or that the
  handler does not throw each time, is not assumed: `PhotoReachesQueue` and
  `UpdatesSettle` name both as exceptions. The faults that are bounded (lost and
  late answers, resends, stops) are those that do not last.
* A statement that waits for no lock is executed.
* An engine of the Python service returns from what it is given.
* The timers of the smoke test and of the throttler fire, and its probe, which has
  a timeout, is answered or given up (`SmokeSpec`, `ScriptTimers`). Its other
  requests have none, and may wait for ever: `SmokeEnds` says so. A statement of
  a migration is executed (`MCSmokeSpec`, since the script rests meanwhile).

All of it is weak fairness, per slot, job, request, call, update or script.
Nothing makes a user send, a fault happen, an operator act, or the process stop.

### What was found

1. `src/telegram/telegram.update.ts:27` says that the handler of edited messages is
   there to "cover caption/media edits". It calls `handlePhotoMessage`, which
   reads `context.message`; an edited message has `context.editedMessage` only,
   so the handler returns at once, the webhook answers 200, and the photo is not
   queued. Run `ingress_edited` shows it in four steps.
2. `src/processing/parsing.service.ts:70` says "First valid date wins". Each
   form is matched once: if its first match is not a date (a 31-Feb, a clock of
   24:10), a valid date of the same form further down is not read
   (`date_first_valid`).
3. `README.md:35` calls `SMOKE_TIMEOUT_MS` the "overall smoke test timeout". With the
   values of `.env.example` (10 requests in 60 s, a poll every 3 s) the eleventh
   poll is answered 429 after 30 s, axios throws, and the test fails: a receipt
   that takes longer is never waited for, whatever the timeout (`smoke_timeout`).

Three documents differ from the code in ways that need no run.
A comment at `src/app.module.ts:27` calls `THROTTLER_TTL` "the number of milliseconds
that each request will last in storage". It is handed on as text, which is also
the length of a block by default: once a route or a sender has been refused, every request
is, until the process is restarted (`Exceed`, `Refuse`).
`ocr-service/README.md:83` says "OCR and LLM models are initialized once at service
startup", while the LLM is made inside the first `/llm/extract`, whose caller may
have given up by then (`main.py:37`, `Load` of `ReaderService`). A comment at `parser.py:78`
says "locate the first balanced JSON object"; what is located begins at the first brace,
and if that one is not closed no later object is found.

Behaviour that no document promises against, and that the models include: two
slots may both save equal receipts as originals (`OneOriginalPerSlot` is as
much as holds); a photo can be processed four times, not three; an overtaken
PATCH can change a row without a log row; setting an amount to what it is
leaves a log row, since '100.00' is compared with '100'; a null date in a PATCH
becomes 1970; a failure of the LLM completes the job without a row; a text
without a letter fails it; rows of one `createdAt` may hide each other between
pages; a mark glued to a clock ("14:30:00Z") makes the backend drop its seconds; a
date with dots above the figures is read as an amount (15.03.2026 as 15.03); a
word of six letters behind "Transaction", or the end of "Reference", is taken
for the transaction id; a figure with commas and without cents is 1.25 instead
of 1250 when the LLM quotes it as a text; a smoke test whose database clock is behind
does not take its own row; more than `THROTTLER_LIMIT` updates in a
`THROTTLER_TTL` close the webhook until a restart, and Telegram's repetitions of
what was refused change nothing about it; an update whose answer cannot be sent, because the user has
blocked the bot, is delivered again and again, each time counted by the throttler.

## 4. Proofs

Every theorem is of the form `Spec => []P` or `Spec => [][A]_v`, for any sets
of jobs, slots, requests, updates, rows, printed dates, tokens, objects of an LLM and
deployers, and any bounds. The assumptions are the `ASSUME`s of the modules, which TLC
evaluates on every run: sizes are natural numbers, "no job" is not a job, tables have the
right shape, three digits are no more than 999, what the LLM means to write is one JSON
object, an interval is not zero. Every safety property that a passing run checks is
the statement of a theorem.

* `JobQueueProofs`. `QInv` adds to the types: a lock is only on an active job;
  the runs that were started are those that failed, stalled, or are under way
  or have completed (`Accounted`); only a failed job has used up a budget;
  an active job that nobody runs has an incident to blame; without lost locks a
  runner holds its lock. `ExecutionBound` needs the accounting, since
  `attemptsStarted` is bounded by no guard. From it follow all of the
  queue's safety properties, and `TerminalIsFinal` because only active jobs
  have locks.
* `ReceiptPipelineProofs`. Every step of the pipeline is a step of the queue
  or leaves it alone (`PipelineIsQueue`), so the queue's theorems carry over
  and `QInv` may be used. `PipelineInv` says in addition what is true between
  a run's awaits: a hit of the look-up stays a hit, because rows are never
  deleted (`HitsStay`); a miss cannot have been inserted since by the same
  slot, nor by another run of the job unless a lock was lost (`MissesStay`);
  runs of a job have different numbers and a run with a row is past its insert
  (`RunsNumbered`, `RowsNumbered`); a run about to return was announced or
  found nothing (`RunsTold`). None of the properties is inductive without them.
  `PipelineKeepsPromise` is the refinement: under the mapping of `Promise` an
  insert is the promise's save, an end of the job its settling, and every other
  step a stutter; that a new row stays within a job's bound needs
  `ExecutionBound` of the queue, whose invariant therefore says that a job that
  runs was added (`AddedFirst`). `RetriesDoAgree` needs that what a run holds,
  and what was saved, was read from the job's one text (`ReadFromText`).
* `TelegramIngressProofs`. A handler about to answer 200 for a photo has its
  job (`SettledIsQueued`), whatever else timed out. `ExtraJobsAreFaults` keeps
  an account for each update (`JobsAccounted`): jobs, handlers that may still
  add one and deliveries still due are never more than one plus its faults. A
  refusal or an exception turns a delivery into one that is due, and costs
  nothing, so that the bound holds however many there are. It
  assumes that there are finitely many requests, to count them.
* `EditAuditProofs`. A row's lock is held by the request about to commit and
  its draft was made from what is still the committed row (`LocksHeld`).
  `TrailCanBeReplayed` follows a request's log rows from its reading to its
  commit (`TrailInv`): what it logs as old is what it read, and that is the
  committed row unless another request has committed since, which is what
  `overtaken` records. It assumes that the rows it starts from are in the
  database's form, as the database returns no others.
* `ReaderServiceProofs`. `ReaderInv` says that a job's attempts are made one
  after the other and ask their services in order (`CallsInOrder`), that the
  answer fits the call and the stage the answers (`AnswersFit`,
  `BlankIsRefused`, `StageFits`), and that the loop computes for one call
  (`OneAtATime`), without which two requests could load two models.
  `AbandonedWork` counts: a job's calls that are still in the service are at
  most one per attempt.
* `ReceiptProofs`, dates. `ExtractTimestamp` returns the reading of one printed
  date, or null; the range checks and the round trip make it a day of the
  calendar (`DateTypeCorrect`). `EarlierDatesDecide` rests on a lemma on what
  one more print does to the first match of each form. The agreement of the
  two programs needs the absence of a mark.
* `ReceiptProofs`, the other fields. A text of tokens shows its dates to `ReceiptDate`
  (`TextImplementsDates`, a refinement), so that the theorems on dates hold of
  whole receipts. `LaterTextDecidesLittle` rests on what one more token does to the first
  figure, the first label and the set of banks; the case that remains open is
  a label that was the last token, and only "reference" had an identifier by then.
* `ReceiptProofs`, amounts. `amountRegex` matches a regular figure as a whole
  (`RegularIsMatched`): its groups reach back to the first run, and neither of
  its bounded repetitions cuts anything off. The two programs put the same runs
  together in different orders (`RegularIsNormalized`), and `Decimal` removes
  the zeros of each alike. `AmountIsAsPrinted` then needs that the figures
  without cents are those the expression passes over (`AmountsAreFigures`), and
  that a date printed without dots is no figure.
* `ReceiptProofs`, the LLM's answer. `json.loads` and `_find_balanced_json_object`
  are two machines that read the same symbols. Both are folds, which the
  lemmas `ReadOn`, `ScanOn` and `DropOn` turn by one symbol; what holds of every
  prefix of a text follows from `Counting` and `Appending`, an induction stated of
  the set of lengths, or of sequences, for which it holds. `ScannerFollows`
  says that on a JSON object the scanner's depth and its two flags are those of the
  reader, so that it is balanced at the last brace and not before
  (`BalancesOfAnswer`), whatever the texts of the object contain; and removing fences does not
  change what can be read (`DropKeepsReading`). `AnswerInv` says where in the output the
  object is and how much of it has been written.
* `PagedListProofs`. The rank of a row is the number of listed rows that are
  not younger. A row that has been there all along is shown, or its rank lies
  beyond the pages read (`Ahead`); a row that was shown keeps a rank within
  them as long as nothing arrives (`Behind`). A page takes the ranks between
  two offsets, so nothing can slip from ahead to behind unseen. `PagesListed`
  is what totals and reports are compared with.

* `SmokeTestProofs`, the schema. `SchemaInv` says that the committed catalog has no
  table, or is what all of `Up` makes of nothing, as `recorded` says
  (`CatalogRecorded`); the open transaction's draft is what its statements so
  far have made of it (`OwnerGoesOn`), and every other deployer has at most a
  statement without effect behind it (`OthersAtStart`), since the next waits for the
  owner's locks; a
  deployer whose decision no longer fits has been overtaken
  (`StaleIsOvertaken`). The twelve and six statements are followed one by one. From the other
  properties it takes nothing: "whole or absent" alone is not inductive, as
  it says nothing of a draft. `SmokeImplementsSchema` carries the result to the whole system.
* `SmokeTestProofs`, the script. `RowIsTaken`: with the clocks together a row is
  not older than the run it belongs to, and a poll that was served after the row
  was saved is answered with it. `PollsPaid` is an account: while the script is
  alone, each poll that still counts at the throttler has cost one interval,
  but for the poll that is being answered.

Model-checked only: everything under fairness (`JobsSettle`,
`KeepsPromiseFairly`, `PhotoReachesQueue`, `UpdatesSettle`, `EditsEnd`,
`CallsLeave`, `SmokeEnds`), which is out of the prover's reach, as is ENABLED. The
three properties that are violated are refuted by their runs. The induction
theorems of the library take an operator as a parameter, which the provers
cannot instantiate; the inductions that the proofs need are therefore stated of
sets, and no module declares a RECURSIVE operator.

## 5. Not modelled

The wording of messages, the layout of the spreadsheet, image preprocessing
(numerical), the model's inference, wiring, logging and the reading of the
environment. The shapes of OCR results (`ocr_result_normalize.py`): a sequence of
type tests over the output of one library version, without state. Lengths and
precisions of columns, and the rounding of amounts that have more than two
places (`toFixed(2)`, `numeric(14,2)`): `amountRegex` gives two at most, and
binary fractions are not decimal numbers. The zone of a timestamp that the LLM
returns without one. The summary sums flagged duplicates like any other row, so
what it adds up is the set of rows that `Report` keeps. Delivery of events to
clients is not promised. The counts behind the throttler's refusals of
updates (by the webhook's caller and by the sender) are those of `Throttle`; in
`TelegramIngress` any request may be the one that exceeds them.

## 6. Plan

Done, the most important behaviour first: `JobQueue`, `ReceiptPipeline` with
`ReceiptPromise`, `TelegramIngress`, `EditAudit`, `ReaderService`,
`ReceiptDate`, `PagedList`, `ReceiptText`, `LlmAnswer`, `Throttle`, `Schema`,
`SmokeTest`, with their runs and the theorems above. What is left, in this order:

1. `EndToEnd`: `TelegramIngress` composed with `ReceiptPipeline`; rows per photo
   bounded by deliveries times runs.
2. `OcrLines`: the normalisation of the OCR engine's results.
3. The amounts of POST and of the LLM, with the rounding of `toFixed(2)` as a
   choice between neighbouring cents.
