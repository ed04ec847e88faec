--------------------------- MODULE ReceiptPipeline ---------------------------
(***************************************************************************)
(* What a job of the queue computes: ProcessingService.processImageJob,    *)
(* from the photo of a receipt to a row of "transactions" and the event    *)
(* 'transaction:new', together with the two other writers of the table     *)
(* (POST and PATCH /transactions).  A run gives up its turn at every       *)
(* await; one phase stands for each await that reads or writes shared      *)
(* state, and one ("fetch") for the three requests before them (getFile,   *)
(* the download and the OCR), which change nothing but the run itself.     *)
(***************************************************************************)
EXTENDS JobQueue, Sequences

CONSTANTS
  Values,      \* what a field of a receipt can hold
  NoValue,     \* null
  RegexRead,   \* what the regular expressions find in the text of a photo
  LlmRead,     \* the answers the LLM may give for it; none: it refuses (422)
  Typed,       \* the readings a client may POST
  Nothing,     \* an unset local variable of a run
  MaxPosts,    \* bound: POST requests in one behaviour
  MaxEdits     \* bound: PATCH requests that change a key in one behaviour

KeyFields == {"amount", "transactionId", "timestamp"}

Fields == KeyFields \union {"bankName"}

Readings == [Fields -> Values \union {NoValue}]

ASSUME PipelineAssumption ==
  /\ NoValue \notin Values
  /\ RegexRead \in [Jobs -> Readings]
  /\ LlmRead \in [Jobs -> SUBSET Readings]
  /\ Typed \subseteq [Fields -> Values]
  /\ MaxPosts \in Nat
  /\ MaxEdits \in Nat

VARIABLES
  phase,      \* the await a slot's run is at
  parsed,     \* its local variable "parsed"
  duplicate,  \* its local variable "duplicate", as a Boolean
  created,    \* its local variable "transaction": a position in the ledger
  attempt,    \* which of its job's runs it is (history)
  ledger,     \* the table "transactions" in the order of the inserts
  skipped,    \* the runs <<job, attempt>> that saved nothing (history)
  posts, edits

runVars  == <<phase, parsed, duplicate, created, attempt>>
dataVars == <<ledger, skipped, posts, edits>>
vars     == <<queueVars, runVars, dataVars>>

PipelineInit ==
  /\ QInit
  /\ phase = [s \in Slots |-> "idle"]
  /\ parsed = [s \in Slots |-> Nothing]
  /\ duplicate = [s \in Slots |-> FALSE]
  /\ created = [s \in Slots |-> 0]
  /\ attempt = [s \in Slots |-> 0]
  /\ ledger = <<>>
  /\ skipped = {}
  /\ posts = 0
  /\ edits = 0

-----------------------------------------------------------------------------
(* ParsingService.parse.                                                   *)

AllFields(r) == \A f \in Fields : r[f] # NoValue

Merge_LlmFirst(regex, llm) ==
  [f \in Fields |-> IF llm[f] # NoValue THEN llm[f] ELSE regex[f]]

\* "regexParsed.x ?? llmParsed.x" for each of the four fields.
Merge(regex, llm) ==
  [f \in Fields |-> IF regex[f] # NoValue THEN regex[f] ELSE llm[f]]

\* A ParsedTransaction; its confidence is named, not computed with.
Parsed(r, c) == [reading |-> r, confidence |-> c]

KeyOf(r) == [f \in KeyFields |-> r[f]]

-----------------------------------------------------------------------------
(* A run of the worker.                                                    *)

ClearRun(s) ==
  /\ phase' = [phase EXCEPT ![s] = "idle"]
  /\ parsed' = [parsed EXCEPT ![s] = Nothing]
  /\ duplicate' = [duplicate EXCEPT ![s] = FALSE]
  /\ created' = [created EXCEPT ![s] = 0]
  /\ attempt' = [attempt EXCEPT ![s] = 0]

Start(s, j) ==
  /\ Claim(s, j)
  /\ phase' = [phase EXCEPT ![s] = "fetch"]
  /\ attempt' = [attempt EXCEPT ![s] = attemptsStarted'[j]]
  /\ UNCHANGED <<parsed, duplicate, created, dataVars>>

\* The text has arrived: with all four fields found the LLM is not asked.
ReadText(s) ==
  LET regex == RegexRead[running[s]] IN
  /\ phase[s] = "fetch"
  /\ \/ /\ AllFields(regex)
        /\ parsed' = [parsed EXCEPT ![s] = Parsed(regex, "0.92")]
        /\ phase' = [phase EXCEPT ![s] = "findDuplicate"]
     \/ /\ ~AllFields(regex)
        /\ phase' = [phase EXCEPT ![s] = "llm"]
        /\ UNCHANGED parsed
  /\ UNCHANGED <<queueVars, duplicate, created, attempt, dataVars>>

\* The LLM is asked for what is missing.  If that completes the reading the
\* run goes on; if a critical field is still null it returns without saving.
AskLlm(s) ==
  LET j == running[s] IN
  /\ phase[s] = "llm"
  /\ \E answer \in LlmRead[j] :
       LET merged == Merge(RegexRead[j], answer) IN
       \/ /\ AllFields(merged)
          /\ parsed' = [parsed EXCEPT ![s] = Parsed(merged, "0.78")]
          /\ phase' = [phase EXCEPT ![s] = "findDuplicate"]
          /\ UNCHANGED skipped
       \/ /\ ~AllFields(merged)
          /\ parsed' = [parsed EXCEPT ![s] = Parsed(merged, "0.55")]
          /\ phase' = [phase EXCEPT ![s] = "return"]
          /\ skipped' = skipped \union {<<j, attempt[s]>>}
  /\ UNCHANGED <<queueVars, duplicate, created, attempt, ledger, posts, edits>>

SameReceipt_NoTimestamp(key, row) ==
  \A f \in KeyFields \ {"timestamp"} : row.key[f] = key[f]

\* The WHERE clause of TransactionsService.findDuplicate.
SameReceipt(key, row) == row.key = key

FindDuplicate(s) ==
  LET key == KeyOf(parsed[s].reading) IN
  /\ phase[s] = "findDuplicate"
  /\ duplicate' = [duplicate EXCEPT ![s] =
                     \E i \in DOMAIN ledger : SameReceipt(key, ledger[i])]
  /\ phase' = [phase EXCEPT ![s] = "insert"]
  /\ UNCHANGED <<queueVars, parsed, created, attempt, dataVars>>

\* A row: what is stored of it here, and its history.  "held" collects every
\* key the row has had; job, attempt and slot tell which run made it (a row
\* that was POSTed has none) and "announced" whether its event was emitted.
Row(j, a, s, r, flag) ==
  [job |-> j, attempt |-> a, slot |-> s, reading |-> r, key |-> KeyOf(r),
   held |-> {KeyOf(r)}, isDuplicate |-> flag, announced |-> FALSE]

NewRow_Unflagged(s) ==
  Row(running[s], attempt[s], s, parsed[s].reading, FALSE)

NewRow(s) ==
  Row(running[s], attempt[s], s, parsed[s].reading, duplicate[s])

AfterInsert_SaveAgain == "insert"

AfterInsert == "inserted"

\* TransactionsService.create, committed.
Insert(s) ==
  /\ phase[s] = "insert"
  /\ ledger' = Append(ledger, NewRow(s))
  /\ created' = [created EXCEPT ![s] = Len(ledger) + 1]
  /\ phase' = [phase EXCEPT ![s] = AfterInsert]
  /\ UNCHANGED <<queueVars, parsed, duplicate, attempt, skipped, posts, edits>>

\* The saved row is back: emit its event and resolve, without an await.
Announce(s) ==
  /\ phase[s] = "inserted"
  /\ ledger' = [ledger EXCEPT ![created[s]].announced = TRUE]
  /\ phase' = [phase EXCEPT ![s] = "return"]
  /\ UNCHANGED <<queueVars, parsed, duplicate, created, attempt, skipped,
                 posts, edits>>

Resolved(s) == phase[s] = "return"

Resolve(s) ==
  /\ Resolved(s)
  /\ Complete(s) \/ LostFinish(s)
  /\ ClearRun(s)
  /\ UNCHANGED dataVars

Rejected(s) == Fail(s) \/ LostFinish(s)

\* Every await may throw: a request is refused or times out, the file cannot
\* be read, the database fails, or its answer is lost after the commit.
Throw(s) ==
  /\ phase[s] \in {"fetch", "llm", "findDuplicate", "insert", "inserted"}
  /\ Rejected(s)
  /\ ClearRun(s)
  /\ UNCHANGED dataVars

RunStep(s) ==
  \/ ReadText(s) \/ AskLlm(s) \/ FindDuplicate(s) \/ Insert(s) \/ Announce(s)
  \/ Resolve(s) \/ Throw(s)

-----------------------------------------------------------------------------
(* The other writers of the table, and what ends every run at once.        *)

\* createForInternalTesting: the client chooses the flag, nothing is looked
\* up and nothing is emitted.
Post(r, flag) ==
  /\ process # "down"
  /\ posts < MaxPosts
  /\ ledger' = Append(ledger, Row(NoJob, 0, NoSlot, r, flag))
  /\ posts' = posts + 1
  /\ UNCHANGED <<queueVars, runVars, skipped, edits>>

\* PATCH /transactions/:id may change every field of the key; isDuplicate is
\* not an editable field and no row's flag is computed again.
Patch(i, key) ==
  /\ process # "down"
  /\ edits < MaxEdits
  /\ ledger' = [ledger EXCEPT ![i].key = key, ![i].held = @ \union {key}]
  /\ edits' = edits + 1
  /\ UNCHANGED <<queueVars, runVars, skipped, posts>>

\* The process dies with the local variables of its runs.
CrashAll ==
  /\ Crash
  /\ phase' = [s \in Slots |-> "idle"]
  /\ parsed' = [s \in Slots |-> Nothing]
  /\ duplicate' = [s \in Slots |-> FALSE]
  /\ created' = [s \in Slots |-> 0]
  /\ attempt' = [s \in Slots |-> 0]
  /\ UNCHANGED dataVars

\* Steps of the queue that no run notices.
QueueStep ==
  /\ (\E j \in Jobs : Enqueue(j) \/ Housekeeping(j)) \/ Lifecycle
  /\ UNCHANGED <<runVars, dataVars>>

PipelineNext ==
  \/ \E s \in Slots, j \in Jobs : Start(s, j)
  \/ \E s \in Slots : RunStep(s)
  \/ \E r \in Typed, flag \in BOOLEAN : Post(r, flag)
  \/ \E i \in DOMAIN ledger, r \in Typed : Patch(i, KeyOf(r))
  \/ CrashAll
  \/ QueueStep

PipelineSafeSpec == PipelineInit /\ [][PipelineNext]_vars

\* The fairness of the queue, with the steps of a run in place of its end:
\* each request it waits for is answered, refused or times out.
PipelineFairness ==
  /\ \A s \in Slots : WF_vars(RunStep(s))
  /\ WF_vars(\E s \in Slots, j \in Jobs : Start(s, j))
  /\ \A j \in Jobs :
       /\ WF_vars(Promote(j) /\ UNCHANGED <<runVars, dataVars>>)
       /\ WF_vars(ExpireLock(j) /\ UNCHANGED <<runVars, dataVars>>)
       /\ WF_vars(RecoverStalled(j) /\ UNCHANGED <<runVars, dataVars>>)
  /\ WF_vars(FinishClose /\ UNCHANGED <<runVars, dataVars>>)
  /\ WF_vars(Restart /\ UNCHANGED <<runVars, dataVars>>)

PipelineSpec == PipelineSafeSpec /\ PipelineFairness

-----------------------------------------------------------------------------
(* Properties.                                                             *)

Rows == DOMAIN ledger

\* Row i was made by a run, not POSTed.
FromRun(i) == ledger[i].job # NoJob

\* The key under which row i was inserted.
FirstKey(i) == KeyOf(ledger[i].reading)

Unedited(i) == ledger[i].held = {FirstKey(i)}

Phases == {"idle", "fetch", "llm", "findDuplicate", "insert", "inserted", "return"}

Keys == [KeyFields -> Values]

StoredRows ==
  [job : Jobs \union {NoJob}, attempt : Nat, slot : Slots \union {NoSlot},
   reading : [Fields -> Values], key : Keys, held : SUBSET Keys,
   isDuplicate : BOOLEAN, announced : BOOLEAN]

\* The types of the pipeline's state; no saved field is null, whatever the
\* LLM answers and however runs interleave.
PipelineTypeOK ==
  /\ QTypeOK
  /\ phase \in [Slots -> Phases]
  /\ DOMAIN parsed = Slots
  /\ \A s \in Slots : phase[s] \in {"findDuplicate", "insert", "inserted"} =>
       parsed[s].reading \in [Fields -> Values]
  /\ duplicate \in [Slots -> BOOLEAN]
  /\ created \in [Slots -> Nat]
  /\ attempt \in [Slots -> Nat]
  /\ ledger \in Seq(StoredRows)
  /\ skipped \subseteq Jobs \X Nat
  /\ posts \in 0 .. MaxPosts
  /\ edits \in 0 .. MaxEdits

\* A row flagged by the pipeline repeats an older row: at some moment before
\* its insertion that row held the same key.  A race or a retry may leave a
\* repeat unflagged, never flag a receipt that was seen once.
DuplicateHasOriginal ==
  \A k \in Rows : FromRun(k) /\ ledger[k].isDuplicate =>
    \E i \in 1 .. k - 1 : FirstKey(k) \in ledger[i].held

\* Look-up and insertion are not atomic, but one slot cannot race with
\* itself: two unflagged rows with the same key come from different slots,
\* unless the key of the older one has been edited.
OneOriginalPerSlot ==
  \A k \in Rows : \A i \in 1 .. k - 1 :
    /\ FromRun(i) /\ FromRun(k)
    /\ ledger[i].slot = ledger[k].slot
    /\ ~ledger[k].isDuplicate
    /\ Unedited(i)
    => FirstKey(i) # FirstKey(k)

\* A retry after a failed run or a crash finds the row that the earlier run
\* of its job has left: it is flagged, on whatever slot it runs, as long as
\* no lock was lost (two runs of a job at once may both miss each other).
RetryIsFlagged ==
  \A k \in Rows : \A i \in 1 .. k - 1 :
    /\ FromRun(k)
    /\ ledger[i].job = ledger[k].job
    /\ FirstKey(i) = FirstKey(k)
    /\ Unedited(i)
    /\ ~ledger[k].isDuplicate
    => lostLocks > 0

\* One run of a job saves at most one row, even when the answer to its
\* insert is lost; with ExecutionBound this bounds the rows of a photo.
OneRowPerRun ==
  \A k \in Rows : \A i \in 1 .. k - 1 :
    FromRun(k) /\ ledger[i].job = ledger[k].job
      => ledger[i].attempt # ledger[k].attempt

\* The rows a job leaves when it is retried agree in every field the regular
\* expressions have read: only what the LLM supplied may differ.
RetriesAgree ==
  \A i, k \in Rows : \A f \in Fields :
    /\ FromRun(k) /\ ledger[i].job = ledger[k].job
    /\ RegexRead[ledger[k].job][f] # NoValue
    => ledger[i].reading[f] = ledger[k].reading[f]

\* Some run of the job was announced, or found nothing to save.
Told(j) ==
  \/ \E i \in Rows : ledger[i].job = j /\ ledger[i].announced
  \/ \E run \in skipped : run[1] = j

\* No silent loss: a completed job has either a row whose event reached the
\* clients, or a run that found no complete reading.
CompletedIsAnnounced ==
  \A j \in Jobs : jobState[j] = "completed" => Told(j)

-----------------------------------------------------------------------------
(* The pipeline keeps the promise of ReceiptPromise.                       *)

Outcome(j) ==
  CASE jobState[j] = "absent" -> "unknown"
    [] jobState[j] \in Pending -> "pending"
    [] OTHER -> jobState[j]

\* The numbers of the runs of a job that have saved a row.
SavedBy(j) == {ledger[i].attempt : i \in {k \in Rows : ledger[k].job = j}}

Promise == INSTANCE ReceiptPromise WITH
  Photos <- Jobs,
  Budget <- Attempts + MaxStalled,
  outcome <- [j \in Jobs |-> Outcome(j)],
  saved <- [j \in Jobs |-> SavedBy(j)],
  told <- [j \in Jobs |-> Told(j)]

\* Refinement, safety: queue, locks, retries and inserts together behave like
\* ReceiptPromise, whatever fails.
KeepsPromise == Promise!PromiseSafeSpec

\* Refinement with fairness: every accepted photo is settled in the end.
KeepsPromiseFairly == Promise!PromiseSpec

-----------------------------------------------------------------------------
(* The inductive invariant behind the safety properties.                   *)

\* A slot is at some await exactly while it executes a job.
BusyRuns == \A s \in Slots : phase[s] = "idle" <=> running[s] = NoJob

\* The current key of a row is one it has held.
KeysHeld == \A i \in Rows : ledger[i].key \in ledger[i].held

\* Between look-up and insertion a hit stays a hit: rows are never deleted.
HitsStay ==
  \A s \in Slots : phase[s] = "insert" /\ duplicate[s] =>
    \E i \in Rows : KeyOf(parsed[s].reading) \in ledger[i].held

\* Row i, if still unedited, is none that slot s looked for and missed.
NotMissed(s, i) ==
  phase[s] = "insert" /\ ~duplicate[s] /\ Unedited(i) =>
    FirstKey(i) # KeyOf(parsed[s].reading)

\* What a run missed was not inserted by its own slot, nor, unless a lock was
\* lost, by another run of its job.
MissesStay ==
  \A s \in Slots : \A i \in Rows :
    /\ ledger[i].slot = s => NotMissed(s, i)
    /\ lostLocks = 0 /\ ledger[i].job = running[s] => NotMissed(s, i)

\* Two runs of one job have different numbers, and none is beyond the last.
RunsNumbered ==
  \A s \in Slots : running[s] # NoJob =>
    /\ attempt[s] \in 1 .. attemptsStarted[running[s]]
    /\ \A t \in Slots : running[t] = running[s] /\ attempt[t] = attempt[s] => t = s

\* A row's run has started, and is past its insertion.
RowsNumbered ==
  \A i \in Rows : FromRun(i) =>
    /\ ledger[i].attempt \in 1 .. attemptsStarted[ledger[i].job]
    /\ \A s \in Slots :
         running[s] = ledger[i].job /\ attempt[s] = ledger[i].attempt
           => phase[s] \in {"inserted", "return"}

\* A run about to announce knows its row; one about to return has been
\* announced or found nothing.
RunsTold ==
  \A s \in Slots :
    /\ phase[s] = "inserted" =>
         created[s] \in Rows /\ ledger[created[s]].job = running[s]
    /\ phase[s] = "return" => Told(running[s])

\* A reading holds whatever the regular expressions find in the text of job j.
KeepsText(j, reading) ==
  \A f \in Fields : RegexRead[j][f] # NoValue => reading[f] = RegexRead[j][f]

\* So does what a run is about to save, and every row a run has saved.
ReadFromText ==
  /\ \A s \in Slots : phase[s] \in {"findDuplicate", "insert"} =>
       KeepsText(running[s], parsed[s].reading)
  /\ \A i \in Rows : FromRun(i) => KeepsText(ledger[i].job, ledger[i].reading)

PipelineInv ==
  /\ QInv /\ PipelineTypeOK /\ BusyRuns /\ KeysHeld /\ HitsStay /\ MissesStay
  /\ RunsNumbered /\ RowsNumbered /\ RunsTold
  /\ DuplicateHasOriginal /\ OneOriginalPerSlot /\ RetryIsFlagged
  /\ OneRowPerRun /\ CompletedIsAnnounced

=============================================================================
