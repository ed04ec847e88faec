---------------------------- MODULE ReaderService ----------------------------
(***************************************************************************)
(* The Python service that reads receipts, and the two clients the backend *)
(* has for it.  An attempt of a job asks /ocr and, when the rules do not   *)
(* find everything in the text, /llm/extract; it waits 30 s for each.      *)
(* Both routes are coroutines that never await while they compute, in one  *)
(* uvicorn process: one request is worked on at a time, the others queue,  *)
(* and a request whose client has gone is worked on like any other.  The   *)
(* OCR engine is made before the service listens, the LLM by the first     *)
(* request that needs it.                                                  *)
(***************************************************************************)
EXTENDS Naturals, FiniteSets

CONSTANTS
  Jobs,
  Attempts,   \* runs a job is given: DEFAULT_JOB_OPTIONS.attempts
  MaxFaults   \* bound: crashes and failed starts in one behaviour

ASSUME ReaderAssumption ==
  /\ Attempts \in Nat \ {0}
  /\ MaxFaults \in Nat

VARIABLES
  stage,    \* what the job waits for, or how it ended
  attempt,  \* attempts the job has begun
  phase,    \* how far the service is with a call
  answer,   \* what the service makes of a call
  server,
  loaded,   \* _SERVICE_INSTANCE of llm_service.py is set
  models,   \* LLMs that this process of the service has made
  faults

jobVars == <<stage, attempt>>
callVars == <<phase, answer>>
modelVars == <<loaded, models>>
readerVars == <<jobVars, callVars, server, modelVars, faults>>

Services == {"ocr", "llm"}
Calls == Jobs \X (1..Attempts) \X Services

\* The text or the fields: complete, in part, nothing at all.  A refusal is any
\* status but 200; the fallback is a 200 without a single field.
OcrAnswers == {"full", "part", "blank", "refused"}
Fallback == "fallback"
LlmAnswers == {"full", "part", Fallback, "refused"}
NoAnswer == "none"

InService == {"queued", "loading", "running", "closing"}
Computing == {"loading", "running"}

ReaderInit ==
  /\ stage = [j \in Jobs |-> "idle"]
  /\ attempt = [j \in Jobs |-> 0]
  /\ phase = [c \in Calls |-> "unsent"]
  /\ answer = [c \in Calls |-> NoAnswer]
  /\ server = "down"
  /\ loaded = FALSE
  /\ models = 0
  /\ faults = 0

GoesWrong ==
  /\ faults < MaxFaults
  /\ faults' = faults + 1

-----------------------------------------------------------------------------
(* The backend's side of an attempt.                                       *)

\* Goes on to the LLM without a text.
AfterFailure_AsksLlm(a) == IF a = Attempts THEN "failed" ELSE "unread"

AfterFailure(a) == IF a = Attempts THEN "failed" ELSE "idle"

\* axios connects at once, and is refused while nobody listens.
Send(j, a, service) ==
  IF server = "up"
    THEN /\ stage' = [stage EXCEPT ![j] = service]
         /\ phase' = [phase EXCEPT ![<<j, a, service>>] = "queued"]
    ELSE /\ stage' = [stage EXCEPT ![j] = AfterFailure(a)]
         /\ UNCHANGED phase

\* A first attempt, or one after the backoff.
AskOcr(j) ==
  /\ stage[j] = "idle"
  /\ attempt[j] < Attempts
  /\ attempt' = [attempt EXCEPT ![j] = @ + 1]
  /\ Send(j, attempt[j] + 1, "ocr")
  /\ UNCHANGED <<answer, server, modelVars, faults>>

AskLlm(j) ==
  /\ stage[j] = "unread"
  /\ Send(j, attempt[j], "llm")
  /\ UNCHANGED <<attempt, answer, server, modelVars, faults>>

\* The call the job waits for.
Current(j) == <<j, attempt[j], stage[j]>>

\* Takes the answer to whatever attempt of the job.
Awaited_AnyAttempt(j, c) == c[1] = j /\ c[3] = stage[j]

Awaited(j, c) == c = Current(j)

\* What the job does with an answer: a text that lacks a field is shown to
\* the LLM, a receipt that still lacks one is skipped, a refusal throws.
AfterAnswer(j, c) ==
  CASE answer[c] = "full"     -> "saved"
    [] answer[c] = "refused"  -> AfterFailure(attempt[j])
    [] OTHER                  -> IF c[3] = "ocr" THEN "unread" ELSE "skipped"

Hear(j, c) ==
  /\ stage[j] \in Services
  /\ Awaited(j, c)
  /\ phase[c] = "answered"
  /\ stage' = [stage EXCEPT ![j] = AfterAnswer(j, c)]
  /\ UNCHANGED <<attempt, callVars, server, modelVars, faults>>

\* The timeout of 30 s, or a connection that breaks; the answer may be on
\* its way.
GiveUp(j) ==
  /\ stage[j] \in Services
  /\ stage' = [stage EXCEPT ![j] = AfterFailure(attempt[j])]
  /\ UNCHANGED <<attempt, callVars, server, modelVars, faults>>

-----------------------------------------------------------------------------
(* The service.                                                            *)

\* A file that is being closed keeps everybody else waiting.
LoopFree_ClosingToo == \A c \in Calls : phase[c] \notin Computing \cup {"closing"}

LoopFree == \A c \in Calls : phase[c] \notin Computing

Abandoned(c) == stage[c[1]] \notin Services \/ c # Current(c[1])

Answered(c, a) ==
  /\ phase' = [phase EXCEPT ![c] = "answered"]
  /\ answer' = [answer EXCEPT ![c] = a]

Moved(c, p) ==
  /\ phase' = [phase EXCEPT ![c] = p]
  /\ UNCHANGED answer

\* A disconnected client is noticed only if the body has not been read yet.
Drop(c) ==
  /\ server = "up"
  /\ LoopFree
  /\ phase[c] = "queued"
  /\ Abandoned(c)
  /\ Moved(c, "dropped")
  /\ UNCHANGED <<jobVars, server, modelVars, faults>>

ServeOcr(c) ==
  /\ server = "up"
  /\ LoopFree
  /\ c[3] = "ocr"
  /\ phase[c] = "queued"
  /\ Moved(c, "running")
  /\ UNCHANGED <<jobVars, server, modelVars, faults>>

\* file.close() in the finally clause is an await: another request may be
\* worked on before the answer leaves.
FinishOcr(c, a) ==
  /\ c[3] = "ocr"
  /\ phase[c] = "running"
  /\ phase' = [phase EXCEPT ![c] = "closing"]
  /\ answer' = [answer EXCEPT ![c] = a]
  /\ UNCHANGED <<jobVars, server, modelVars, faults>>

ReplyOcr(c) ==
  /\ LoopFree
  /\ phase[c] = "closing"
  /\ Moved(c, "answered")
  /\ UNCHANGED <<jobVars, server, modelVars, faults>>

\* An empty text never reaches the route.
TextOf(c) == answer[<<c[1], c[2], "ocr">>]

Valid(c) == TextOf(c) # "blank"

RefuseBlank(c) ==
  /\ server = "up"
  /\ LoopFree
  /\ c[3] = "llm"
  /\ phase[c] = "queued"
  /\ ~Valid(c)
  /\ Answered(c, "refused")
  /\ UNCHANGED <<jobVars, server, modelVars, faults>>

\* Makes a service per request.
Available_Never == FALSE

\* get_llm_service; the lock is free, since the loop is.
Available == loaded

ServeLlm(c) ==
  /\ server = "up"
  /\ LoopFree
  /\ c[3] = "llm"
  /\ phase[c] = "queued"
  /\ Valid(c)
  /\ Moved(c, IF Available THEN "running" ELSE "loading")
  /\ UNCHANGED <<jobVars, server, modelVars, faults>>

MakeModel == models' = models + 1

Load(c) ==
  /\ phase[c] = "loading"
  /\ MakeModel
  /\ loaded' = TRUE
  /\ Moved(c, "running")
  /\ UNCHANGED <<jobVars, server, faults>>

\* No file at LLM_MODEL_PATH, or a constructor that raises: the route answers
\* with the fallback, and the next request tries again.
FailToLoad(c) ==
  /\ phase[c] = "loading"
  /\ Answered(c, Fallback)
  /\ UNCHANGED <<jobVars, server, modelVars, faults>>

\* Every exception of the inference or of the parser ends in the fallback too.
FinishLlm(c, a) ==
  /\ c[3] = "llm"
  /\ phase[c] = "running"
  /\ Answered(c, a)
  /\ UNCHANGED <<jobVars, server, modelVars, faults>>

-----------------------------------------------------------------------------
(* Its process.                                                            *)

Start ==
  /\ server = "down"
  /\ server' = "starting"
  /\ UNCHANGED <<jobVars, callVars, modelVars, faults>>

\* lifespan: get_ocr_service() first, then the routes; the LLM is not made.
LoadedAtStart == FALSE

Ready ==
  /\ server = "starting"
  /\ server' = "up"
  /\ loaded' = LoadedAtStart
  /\ UNCHANGED <<jobVars, callVars, models, faults>>

\* PaddleOCR cannot be made: uvicorn exits.
FailToStart ==
  /\ server = "starting"
  /\ GoesWrong
  /\ server' = "down"
  /\ UNCHANGED <<jobVars, callVars, modelVars>>

Crash ==
  /\ server = "up"
  /\ GoesWrong
  /\ server' = "down"
  /\ loaded' = FALSE
  /\ models' = 0
  /\ phase' = [c \in Calls |-> IF phase[c] \in InService THEN "lost" ELSE phase[c]]
  /\ UNCHANGED <<jobVars, answer>>

-----------------------------------------------------------------------------

Backend(j) ==
  \/ AskOcr(j)
  \/ AskLlm(j)
  \/ \E c \in Calls : Hear(j, c)
  \/ GiveUp(j)

Work(c) ==
  \/ ServeOcr(c)
  \/ \E a \in OcrAnswers : FinishOcr(c, a)
  \/ ReplyOcr(c)
  \/ RefuseBlank(c)
  \/ ServeLlm(c)
  \/ Load(c)
  \/ FailToLoad(c)
  \/ \E a \in LlmAnswers \ {"refused"} : FinishLlm(c, a)

ReaderNext ==
  \/ \E j \in Jobs : Backend(j)
  \/ \E c \in Calls : Work(c) \/ Drop(c)
  \/ Start
  \/ Ready
  \/ FailToStart
  \/ Crash

ReaderSafeSpec == ReaderInit /\ [][ReaderNext]_readerVars

(***************************************************************************)
(* Timers and backoffs of the backend run out, whatever the service does.  *)
(* The engines return from what they are given, and the service is started *)
(* again after a crash.                                                    *)
(***************************************************************************)
ReaderSpec ==
  /\ ReaderSafeSpec
  /\ \A j \in Jobs : WF_readerVars(Backend(j))
  /\ \A c \in Calls : WF_readerVars(Work(c))
  /\ WF_readerVars(Start)
  /\ WF_readerVars(Ready)

-----------------------------------------------------------------------------
(* Properties.                                                             *)

Stages == {"idle", "ocr", "unread", "llm", "saved", "skipped", "failed"}
Phases == InService \cup {"unsent", "answered", "dropped", "lost"}

\* The types of the variables; a call that has not been sent has no answer,
\* and only a service that listens has calls.
ReaderTypeOK ==
  /\ stage \in [Jobs -> Stages]
  /\ attempt \in [Jobs -> 0..Attempts]
  /\ phase \in [Calls -> Phases]
  /\ answer \in [Calls -> OcrAnswers \cup LlmAnswers \cup {NoAnswer}]
  /\ server \in {"down", "starting", "up"}
  /\ loaded \in BOOLEAN
  /\ models \in Nat
  /\ faults \in 0..MaxFaults
  /\ \A c \in Calls : phase[c] = "unsent" => answer[c] = NoAnswer
  /\ \A c \in Calls : phase[c] \in InService => server = "up"

\* A job ends by what its own last attempt was answered, though answers to the
\* attempts before may still arrive: a saved receipt was read completely, by
\* the rules or with the LLM, and a skipped one was lacking after both.  So a
\* text without any letter is neither saved nor skipped: its job fails.
LastAttemptDecides ==
  \A j \in Jobs :
    LET text == answer[<<j, attempt[j], "ocr">>]
        fields == answer[<<j, attempt[j], "llm">>]
    IN  /\ stage[j] = "saved" => text = "full" \/ (text = "part" /\ fields = "full")
        /\ stage[j] = "skipped" => text = "part" /\ fields \in {"part", "fallback"}

\* However requests and failed loads follow each other, a process of the
\* service makes the LLM at most once, and /llm/extract runs on no other.
OneModelPerProcess ==
  /\ models = IF loaded THEN 1 ELSE 0
  /\ \A c \in Calls : c[3] = "llm" /\ phase[c] = "running" => loaded

\* Retries pile work up on a service that nobody cancels, but no faster than
\* the backend gives up: an attempt has one call in the service at a time, and
\* all of them but the awaited one are abandoned.
LeftBehind(j) == {c \in Calls : c[1] = j /\ phase[c] \in InService /\ Abandoned(c)}

AbandonedWorkBounded ==
  \A j \in Jobs :
    Cardinality(LeftBehind(j)) <= IF stage[j] \in Services THEN attempt[j] - 1 ELSE attempt[j]

\* The inductive invariant behind the safety properties: attempts are made one
\* after the other and each asks its services in order, a text that an
\* LLM call was made for stays what it is, and the loop works on one call.
CallsInOrder ==
  /\ \A j \in Jobs : stage[j] # "idle" => attempt[j] # 0
  /\ \A c \in Calls : c[2] > attempt[c[1]] => phase[c] = "unsent"
  /\ \A j \in Jobs : stage[j] \in {"ocr", "unread"} =>
       phase[<<j, attempt[j], "llm">>] = "unsent"
  /\ \A j \in Jobs, a \in 1..Attempts : phase[<<j, a, "llm">>] # "unsent" =>
       /\ phase[<<j, a, "ocr">>] = "answered"
       /\ answer[<<j, a, "ocr">>] \in {"part", "blank"}

AnswersFit ==
  /\ \A c \in Calls : c[3] = "ocr" =>
       /\ phase[c] # "loading"
       /\ phase[c] \in {"closing", "answered"} => answer[c] \in OcrAnswers
  /\ \A c \in Calls : c[3] = "llm" =>
       /\ phase[c] # "closing"
       /\ phase[c] = "answered" => answer[c] \in LlmAnswers

BlankIsRefused ==
  \A c \in Calls : c[3] = "llm" /\ TextOf(c) = "blank" =>
    phase[c] \notin Computing /\ answer[c] \in {NoAnswer, "refused"}

StageFits ==
  \A j \in Jobs :
    LET ocr == <<j, attempt[j], "ocr">>
        llm == <<j, attempt[j], "llm">>
    IN  /\ stage[j] \in {"unread", "llm"} =>
             phase[ocr] = "answered" /\ answer[ocr] \in {"part", "blank"}
        /\ stage[j] = "saved" =>
             /\ phase[ocr] = "answered"
             /\ answer[ocr] = "full" \/
                  (answer[ocr] = "part" /\ phase[llm] = "answered" /\ answer[llm] = "full")
        /\ stage[j] = "skipped" =>
             /\ phase[ocr] = "answered" /\ answer[ocr] = "part"
             /\ phase[llm] = "answered" /\ answer[llm] \in {"part", "fallback"}

OneAtATime ==
  /\ \A c, d \in Calls : phase[c] \in Computing /\ phase[d] \in Computing => c = d
  /\ \A c \in Calls : phase[c] = "loading" => ~loaded
  /\ server # "up" => ~loaded

ReaderInv ==
  /\ ReaderTypeOK
  /\ CallsInOrder
  /\ AnswersFit
  /\ BlankIsRefused
  /\ StageFits
  /\ OneAtATime
  /\ OneModelPerProcess

\* A request that has reached the service leaves it, whoever still waits.
CallsLeave == \A c \in Calls : phase[c] \in InService ~> phase[c] \notin InService

=============================================================================
