------------------------ MODULE ReceiptPipelineProofs ------------------------
(***************************************************************************)
(* Safety of the receipt pipeline for every number of photos, slots and    *)
(* faults, every set of values and every answer of the LLM.  Its steps are *)
(* steps of the queue, so the theorems of JobQueueProofs carry over; the   *)
(* rest is about the ledger, whose rows are only ever added or edited.     *)
(***************************************************************************)
EXTENDS ReceiptPipeline, JobQueueProofs, SequenceTheorems

\* A run's step is a step of the queue, or leaves the queue alone.
LEMMA QueueStepRefines ==
  ASSUME PipelineNext
  PROVE  [QNext]_queueVars
<1>1. ASSUME NEW s \in Slots, NEW j \in Jobs, Start(s, j) PROVE QNext
  BY <1>1 DEF Start, QNext
<1>2. ASSUME NEW s \in Slots, RunStep(s) PROVE [QNext]_queueVars
  <2>1. CASE ReadText(s) \/ AskLlm(s) \/ FindDuplicate(s) \/ Insert(s)
             \/ Announce(s)
    BY <2>1 DEF ReadText, AskLlm, FindDuplicate, Insert, Announce
  <2>2. CASE Resolve(s) \/ Throw(s)
    BY <2>2 DEF Resolve, Throw, Rejected, QNext, Finish
  <2> QED
    BY <1>2, <2>1, <2>2 DEF RunStep
<1>3. ASSUME NEW r, NEW flag, Post(r, flag) PROVE UNCHANGED queueVars
  BY <1>3 DEF Post
<1>4. ASSUME NEW i, NEW key, Patch(i, key) PROVE UNCHANGED queueVars
  BY <1>4 DEF Patch
<1>5. CASE CrashAll \/ QueueStep
  BY <1>5 DEF CrashAll, QueueStep, QNext
<1> QED
  BY <1>1, <1>2, <1>3, <1>4, <1>5 DEF PipelineNext

\* Refinement: hiding what its jobs compute, the pipeline is the queue.
THEOREM PipelineIsQueue == PipelineSafeSpec => QSafeSpec
<1>1. PipelineInit => QInit
  BY DEF PipelineInit
<1>2. [PipelineNext]_vars => [QNext]_queueVars
  BY QueueStepRefines DEF vars
<1> QED
  BY <1>1, <1>2, PTL DEF PipelineSafeSpec, QSafeSpec

\* Hence the queue's invariant holds whatever a job computes.
LEMMA QueueInvariant == PipelineSafeSpec => []QInv
BY PipelineIsQueue, InvariantHolds, PTL

-----------------------------------------------------------------------------
(* Types.                                                                  *)

\* Merging a reading with an answer yields a reading; with all four fields
\* present it is one that can be stored.
LEMMA MergeType ==
  ASSUME NEW regex \in Readings, NEW llm \in Readings
  PROVE  Merge(regex, llm) \in Readings
BY DEF Merge, Readings

LEMMA CompleteType ==
  ASSUME NEW r \in Readings, AllFields(r)
  PROVE  r \in [Fields -> Values]
BY DEF Readings, AllFields

LEMMA KeyType ==
  ASSUME NEW r \in [Fields -> Values]
  PROVE  KeyOf(r) \in Keys
BY DEF KeyOf, Keys, Fields

LEMMA RowType ==
  ASSUME NEW j \in Jobs \union {NoJob}, NEW a \in Nat,
         NEW s \in Slots \union {NoSlot}, NEW r \in [Fields -> Values],
         NEW flag \in BOOLEAN
  PROVE  Row(j, a, s, r, flag) \in StoredRows
BY KeyType DEF Row, StoredRows

\* Appending keeps the older rows in their places.
LEMMA AppendRow ==
  ASSUME ledger \in Seq(StoredRows), NEW r \in StoredRows,
         ledger' = Append(ledger, r)
  PROVE  /\ ledger' \in Seq(StoredRows)
         /\ Len(ledger) \in Nat
         /\ Rows = 1 .. Len(ledger)
         /\ Rows' = 1 .. Len(ledger) + 1
         /\ \A i \in Rows : ledger'[i] = ledger[i]
         /\ ledger'[Len(ledger) + 1] = r
BY DEF Rows

\* Replacing an element keeps a sequence's type and its positions.
LEMMA UpdateSeq ==
  ASSUME NEW S, NEW q \in Seq(S), NEW n \in DOMAIN q, NEW e \in S
  PROVE  /\ [q EXCEPT ![n] = e] \in Seq(S)
         /\ DOMAIN [q EXCEPT ![n] = e] = DOMAIN q
<1>1. n \in 1 .. Len(q)
  OBVIOUS
<1> QED
  BY <1>1, ExceptSeq

-----------------------------------------------------------------------------
(* What the four writers do to the ledger.                                 *)

\* A row keeps its place, its origin and its flag, forgets no key and stays
\* announced.
Kept(i) ==
  /\ i \in Rows'
  /\ ledger'[i].job = ledger[i].job
  /\ ledger'[i].attempt = ledger[i].attempt
  /\ ledger'[i].slot = ledger[i].slot
  /\ ledger'[i].reading = ledger[i].reading
  /\ ledger'[i].isDuplicate = ledger[i].isDuplicate
  /\ ledger[i].held \subseteq ledger'[i].held
  /\ ledger[i].announced => ledger'[i].announced

\* What an insertion by a run does to the ledger.
LEMMA InsertedRow ==
  ASSUME QTypeOK, PipelineTypeOK, BusyRuns, NEW s \in Slots, Insert(s)
  PROVE  /\ ledger' \in Seq(StoredRows)
         /\ Len(ledger) \in Nat
         /\ Rows = 1 .. Len(ledger)
         /\ Rows' = 1 .. Len(ledger) + 1
         /\ \A i \in Rows : ledger'[i] = ledger[i]
         /\ ledger'[Len(ledger) + 1] = NewRow(s)
         /\ running[s] \in Jobs
<1>1. running[s] \in Jobs
  BY DEF Insert, BusyRuns, QTypeOK, PipelineTypeOK
<1>2. NewRow(s) \in StoredRows
  BY <1>1, RowType DEF Insert, NewRow, PipelineTypeOK
<1> QED
  BY <1>1, <1>2, AppendRow DEF Insert, PipelineTypeOK

\* What a POST does to the ledger.
LEMMA PostedRow ==
  ASSUME PipelineTypeOK, NEW r \in Typed, NEW flag \in BOOLEAN, Post(r, flag)
  PROVE  /\ ledger' \in Seq(StoredRows)
         /\ Len(ledger) \in Nat
         /\ Rows = 1 .. Len(ledger)
         /\ Rows' = 1 .. Len(ledger) + 1
         /\ \A i \in Rows : ledger'[i] = ledger[i]
         /\ ledger'[Len(ledger) + 1] = Row(NoJob, 0, NoSlot, r, flag)
<1>1. Row(NoJob, 0, NoSlot, r, flag) \in StoredRows
  BY RowType, PipelineAssumption
<1> QED
  BY <1>1, AppendRow DEF Post, PipelineTypeOK

\* What an announcement does: the run's own row is announced.
LEMMA AnnouncedRow ==
  ASSUME PipelineTypeOK, RunsTold, NEW s \in Slots, Announce(s)
  PROVE  /\ ledger' \in Seq(StoredRows)
         /\ Rows' = Rows
         /\ \A i \in Rows : /\ Kept(i)
                            /\ ledger'[i].key = ledger[i].key
                            /\ ledger'[i].held = ledger[i].held
         /\ created[s] \in Rows
         /\ ledger'[created[s]].announced
<1> DEFINE n == created[s]
<1> DEFINE row == [ledger[n] EXCEPT !.announced = TRUE]
<1>1. n \in Rows /\ n \in DOMAIN ledger
  BY DEF Announce, RunsTold, Rows
<1>2. ledger \in Seq(StoredRows) /\ ledger[n] \in StoredRows
  BY <1>1 DEF PipelineTypeOK
<1>3. /\ row \in StoredRows
      /\ row.job = ledger[n].job
      /\ row.attempt = ledger[n].attempt
      /\ row.slot = ledger[n].slot
      /\ row.reading = ledger[n].reading
      /\ row.key = ledger[n].key
      /\ row.held = ledger[n].held
      /\ row.isDuplicate = ledger[n].isDuplicate
      /\ row.announced
  BY <1>2 DEF StoredRows
<1>4. ledger' = [ledger EXCEPT ![n] = row]
  BY DEF Announce
<1> HIDE DEF n, row
<1>5. /\ [ledger EXCEPT ![n] = row] \in Seq(StoredRows)
      /\ DOMAIN [ledger EXCEPT ![n] = row] = DOMAIN ledger
  BY <1>1, <1>2, <1>3, UpdateSeq
<1>6. ledger' \in Seq(StoredRows) /\ Rows' = Rows
  BY <1>4, <1>5, Zenon DEF Rows
<1>7. ledger'[n] = row /\ \A i \in Rows : i # n => ledger'[i] = ledger[i]
  BY <1>1, <1>2, <1>4 DEF Rows
<1> QED
  BY <1>1, <1>3, <1>6, <1>7 DEF Kept, n

\* What a PATCH does: one row gets another key and remembers its old ones.
LEMMA PatchedRow ==
  ASSUME PipelineTypeOK, NEW n \in Rows, NEW r \in Typed, Patch(n, KeyOf(r))
  PROVE  /\ ledger' \in Seq(StoredRows)
         /\ Rows' = Rows
         /\ \A i \in Rows : /\ Kept(i)
                            /\ ledger'[i].announced = ledger[i].announced
                            /\ i # n => ledger'[i] = ledger[i]
         /\ ledger'[n].key \in ledger'[n].held
<1> DEFINE row == [ledger[n] EXCEPT !.key = KeyOf(r), !.held = @ \union {KeyOf(r)}]
<1>1. n \in DOMAIN ledger
  BY DEF Rows
<1>2. ledger \in Seq(StoredRows) /\ ledger[n] \in StoredRows
  BY <1>1 DEF PipelineTypeOK
<1>3. KeyOf(r) \in Keys
  BY KeyType, PipelineAssumption
<1>4. /\ row \in StoredRows
      /\ row.job = ledger[n].job
      /\ row.attempt = ledger[n].attempt
      /\ row.slot = ledger[n].slot
      /\ row.reading = ledger[n].reading
      /\ row.isDuplicate = ledger[n].isDuplicate
      /\ row.announced = ledger[n].announced
      /\ row.held = ledger[n].held \union {KeyOf(r)}
      /\ row.key = KeyOf(r)
  BY <1>2, <1>3 DEF StoredRows
<1>5. ledger' = [ledger EXCEPT ![n] = row]
  BY DEF Patch
<1> HIDE DEF row
<1>6. /\ [ledger EXCEPT ![n] = row] \in Seq(StoredRows)
      /\ DOMAIN [ledger EXCEPT ![n] = row] = DOMAIN ledger
  BY <1>1, <1>2, <1>4, UpdateSeq
<1>7. ledger' \in Seq(StoredRows) /\ Rows' = Rows
  BY <1>5, <1>6, Zenon DEF Rows
<1>8. ledger'[n] = row /\ \A i \in Rows : i # n => ledger'[i] = ledger[i]
  BY <1>1, <1>2, <1>5 DEF Rows
<1> QED
  BY <1>4, <1>7, <1>8 DEF Kept

-----------------------------------------------------------------------------
(* The conjuncts of PipelineInv, step by step.                             *)

\* A step keeps the types; in particular only complete readings are saved.
LEMMA PipelineTypeStep ==
  ASSUME QTypeOK, QTypeOK', PipelineTypeOK, BusyRuns, RunsTold, PipelineNext
  PROVE  PipelineTypeOK'
<1> USE QueueAssumption, PipelineAssumption DEF PipelineTypeOK, Phases
<1>1. ASSUME NEW s \in Slots, NEW j \in Jobs, Start(s, j) PROVE PipelineTypeOK'
  <2>1. attemptsStarted'[j] \in Nat
    BY <1>1 DEF QTypeOK
  <2> QED
    BY <1>1, <2>1 DEF Start, dataVars
<1>2. ASSUME NEW s \in Slots, ReadText(s) PROVE PipelineTypeOK'
  <2>1. CASE AllFields(RegexRead[running[s]])
    <3>1. RegexRead[running[s]] \in [Fields -> Values]
      BY <1>2, <2>1, CompleteType DEF ReadText, BusyRuns, QTypeOK
    <3>2. Parsed(RegexRead[running[s]], "0.92").reading \in [Fields -> Values]
      BY <3>1 DEF Parsed
    <3> QED
      BY <1>2, <2>1, <3>2 DEF ReadText, dataVars
  <2>2. CASE ~AllFields(RegexRead[running[s]])
    BY <1>2, <2>2 DEF ReadText, dataVars
  <2> QED
    BY <2>1, <2>2
<1>3. ASSUME NEW s \in Slots, AskLlm(s) PROVE PipelineTypeOK'
  <2>1. PICK answer \in LlmRead[running[s]] :
         LET merged == Merge(RegexRead[running[s]], answer) IN
         \/ /\ AllFields(merged)
            /\ parsed' = [parsed EXCEPT ![s] = Parsed(merged, "0.78")]
            /\ phase' = [phase EXCEPT ![s] = "findDuplicate"]
            /\ UNCHANGED skipped
         \/ /\ ~AllFields(merged)
            /\ parsed' = [parsed EXCEPT ![s] = Parsed(merged, "0.55")]
            /\ phase' = [phase EXCEPT ![s] = "return"]
            /\ skipped' = skipped \union {<<running[s], attempt[s]>>}
    BY <1>3 DEF AskLlm
  <2> DEFINE merged == Merge(RegexRead[running[s]], answer)
  <2>2. running[s] \in Jobs
    BY <1>3 DEF AskLlm, BusyRuns, QTypeOK
  <2>3. merged \in Readings
    BY <2>2, MergeType
  <2>4. UNCHANGED <<duplicate, created, attempt, ledger, posts, edits>>
    BY <1>3 DEF AskLlm
  <2> HIDE DEF merged
  <2>5. CASE AllFields(merged)
    <3>1. Parsed(merged, "0.78").reading \in [Fields -> Values]
      BY <2>3, <2>5, CompleteType DEF Parsed
    <3>2. /\ parsed' = [parsed EXCEPT ![s] = Parsed(merged, "0.78")]
          /\ phase' = [phase EXCEPT ![s] = "findDuplicate"]
          /\ UNCHANGED skipped
      BY <2>1, <2>5 DEF merged
    <3> QED
      BY <2>4, <3>1, <3>2
  <2>6. CASE ~AllFields(merged)
    <3>1. /\ parsed' = [parsed EXCEPT ![s] = Parsed(merged, "0.55")]
          /\ phase' = [phase EXCEPT ![s] = "return"]
          /\ skipped' = skipped \union {<<running[s], attempt[s]>>}
      BY <2>1, <2>6 DEF merged
    <3> QED
      BY <2>2, <2>4, <3>1
  <2> QED
    BY <2>5, <2>6
<1>4. ASSUME NEW s \in Slots, FindDuplicate(s) PROVE PipelineTypeOK'
  BY <1>4 DEF FindDuplicate, dataVars
<1>5. ASSUME NEW s \in Slots, Insert(s) PROVE PipelineTypeOK'
  <2>2. ledger' \in Seq(StoredRows) /\ Len(ledger) \in Nat
    BY <1>5, InsertedRow
  <2> QED
    BY <1>5, <2>2 DEF Insert, AfterInsert
<1>6. ASSUME NEW s \in Slots, Announce(s) PROVE PipelineTypeOK'
  <2>2. ledger' \in Seq(StoredRows)
    BY <1>6, AnnouncedRow
  <2> QED
    BY <1>6, <2>2 DEF Announce
<1>7. ASSUME NEW s \in Slots, Resolve(s) PROVE PipelineTypeOK'
  BY <1>7 DEF Resolve, ClearRun, dataVars
<1>8. ASSUME NEW s \in Slots, Throw(s) PROVE PipelineTypeOK'
  BY <1>8 DEF Throw, ClearRun, dataVars
<1>9. ASSUME NEW r \in Typed, NEW flag \in BOOLEAN, Post(r, flag)
      PROVE  PipelineTypeOK'
  <2>2. ledger' \in Seq(StoredRows)
    BY <1>9, PostedRow
  <2> QED
    BY <1>9, <2>2 DEF Post, runVars
<1>10. ASSUME NEW n \in Rows, NEW r \in Typed, Patch(n, KeyOf(r))
      PROVE  PipelineTypeOK'
  <2>2. ledger' \in Seq(StoredRows)
    BY <1>10, PatchedRow
  <2> QED
    BY <1>10, <2>2 DEF Patch, runVars
<1>11. CASE CrashAll
  BY <1>11 DEF CrashAll, dataVars
<1>12. CASE QueueStep
  BY <1>12 DEF QueueStep, runVars, dataVars
<1> QED
  BY ONLY PipelineNext, <1>1, <1>2, <1>3, <1>4, <1>5, <1>6,
          <1>7, <1>8, <1>9, <1>10, <1>11, <1>12
  DEF PipelineNext, RunStep, Rows

\* What the steps of the queue that no run notices leave alone.
LEMMA QuietQueue ==
  ASSUME QTypeOK, QueueStep
  PROVE  /\ UNCHANGED <<running, attemptsStarted, runVars, dataVars>>
         /\ lostLocks' = 0 => lostLocks = 0
         /\ \A j \in Jobs : jobState'[j] = "completed" => jobState[j] = "completed"
<1> USE QueueAssumption DEF QTypeOK
<1>1. ASSUME NEW j \in Jobs, Enqueue(j) \/ Housekeeping(j)
      PROVE  /\ UNCHANGED <<running, attemptsStarted>>
             /\ lostLocks' = 0 => lostLocks = 0
             /\ \A i \in Jobs : jobState'[i] = "completed" => jobState[i] = "completed"
  BY <1>1 DEF Enqueue, Housekeeping, Promote, ExpireLock, LoseLock, RecoverStalled
<1>2. ASSUME Lifecycle
      PROVE  UNCHANGED <<running, attemptsStarted, lostLocks, jobState>>
  BY <1>2 DEF Lifecycle, BeginClose, FinishClose, Restart, Drained
<1> QED
  BY <1>1, <1>2 DEF QueueStep

\* What the end of a run leaves alone, and the only job it can complete.
LEMMA EndOfRun ==
  ASSUME QTypeOK, NEW s \in Slots, Resolve(s) \/ Throw(s)
  PROVE  /\ running' = [running EXCEPT ![s] = NoJob]
         /\ running[s] # NoJob
         /\ ClearRun(s)
         /\ UNCHANGED <<attemptsStarted, lostLocks, dataVars>>
         /\ \A j \in Jobs : jobState'[j] = "completed" =>
              \/ jobState[j] = "completed"
              \/ phase[s] = "return" /\ j = running[s]
<1> USE QueueAssumption DEF QTypeOK
<1>1. CASE Resolve(s)
  BY <1>1 DEF Resolve, Resolved, Complete, LostFinish, dataVars
<1>2. CASE Throw(s)
  BY <1>2 DEF Throw, Rejected, Fail, LostFinish, dataVars
<1> QED
  BY <1>1, <1>2

\* A slot becomes busy by claiming a job and idle when its run ends.
LEMMA BusyStep ==
  ASSUME QTypeOK, PipelineTypeOK, BusyRuns, PipelineNext
  PROVE  BusyRuns'
<1> USE QueueAssumption DEF BusyRuns, QTypeOK, PipelineTypeOK
<1>1. ASSUME NEW s \in Slots, NEW j \in Jobs, Start(s, j) PROVE BusyRuns'
  BY <1>1 DEF Start, Claim
<1>2. ASSUME NEW s \in Slots, ReadText(s) PROVE BusyRuns'
  BY <1>2 DEF ReadText, queueVars
<1>3. ASSUME NEW s \in Slots, AskLlm(s) PROVE BusyRuns'
  BY <1>3 DEF AskLlm, queueVars
<1>4. ASSUME NEW s \in Slots, FindDuplicate(s) PROVE BusyRuns'
  BY <1>4 DEF FindDuplicate, queueVars
<1>5. ASSUME NEW s \in Slots, Insert(s) PROVE BusyRuns'
  BY <1>5 DEF Insert, AfterInsert, queueVars
<1>6. ASSUME NEW s \in Slots, Announce(s) PROVE BusyRuns'
  BY <1>6 DEF Announce, queueVars
<1>7. ASSUME NEW s \in Slots, Resolve(s) PROVE BusyRuns'
  <2>1. running' = [running EXCEPT ![s] = NoJob] /\ ClearRun(s)
    BY <1>7, EndOfRun
  <2> QED
    BY <2>1 DEF ClearRun
<1>8. ASSUME NEW s \in Slots, Throw(s) PROVE BusyRuns'
  <2>1. running' = [running EXCEPT ![s] = NoJob] /\ ClearRun(s)
    BY <1>8, EndOfRun
  <2> QED
    BY <2>1 DEF ClearRun
<1>9. ASSUME NEW r \in Typed, NEW flag \in BOOLEAN, Post(r, flag)
      PROVE  BusyRuns'
  BY <1>9 DEF Post, queueVars, runVars
<1>10. ASSUME NEW n \in Rows, NEW r \in Typed, Patch(n, KeyOf(r))
      PROVE  BusyRuns'
  BY <1>10 DEF Patch, queueVars, runVars
<1>11. CASE CrashAll
  BY <1>11 DEF CrashAll, Crash
<1>12. CASE QueueStep
  BY <1>12, QuietQueue DEF runVars
<1> QED
  BY ONLY PipelineNext, <1>1, <1>2, <1>3, <1>4, <1>5, <1>6,
          <1>7, <1>8, <1>9, <1>10, <1>11, <1>12
  DEF PipelineNext, RunStep, Rows

\* Only four kinds of step write the ledger.
LEMMA LedgerCases ==
  ASSUME PipelineNext
  PROVE  \/ UNCHANGED ledger /\ Rows' = Rows
         \/ \E s \in Slots : Insert(s) \/ Announce(s)
         \/ \E r \in Typed, flag \in BOOLEAN : Post(r, flag)
         \/ \E n \in Rows, r \in Typed : Patch(n, KeyOf(r))
<1>1. ASSUME NEW s \in Slots, NEW j \in Jobs, Start(s, j) PROVE UNCHANGED ledger
  BY <1>1 DEF Start, dataVars
<1>2. ASSUME NEW s \in Slots,
             ReadText(s) \/ AskLlm(s) \/ FindDuplicate(s) \/ Resolve(s) \/ Throw(s)
      PROVE  UNCHANGED ledger
  BY <1>2 DEF ReadText, AskLlm, FindDuplicate, Resolve, Throw, dataVars
<1>3. CrashAll \/ QueueStep => UNCHANGED ledger
  BY DEF CrashAll, QueueStep, dataVars
<1>4. UNCHANGED ledger => Rows' = Rows
  BY DEF Rows
<1> QED
  BY ONLY PipelineNext, <1>1, <1>2, <1>3, <1>4 DEF PipelineNext, RunStep, Rows

\* No step of any writer deletes a row or rewrites its history.
LEMMA RowsKept ==
  ASSUME QTypeOK, PipelineTypeOK, BusyRuns, RunsTold, PipelineNext
  PROVE  \A i \in Rows : Kept(i)
<1>1. UNCHANGED ledger /\ Rows' = Rows => \A i \in Rows : Kept(i)
  BY DEF Kept
<1>2. ASSUME NEW s \in Slots, Insert(s) PROVE \A i \in Rows : Kept(i)
  BY <1>2, InsertedRow DEF Kept
<1>3. ASSUME NEW r \in Typed, NEW flag \in BOOLEAN, Post(r, flag)
      PROVE  \A i \in Rows : Kept(i)
  BY <1>3, PostedRow DEF Kept
<1> QED
  BY <1>1, <1>2, <1>3, AnnouncedRow, PatchedRow, LedgerCases

\* An edit remembers the key it gives a row.
LEMMA KeysStep ==
  ASSUME QTypeOK, PipelineTypeOK, BusyRuns, RunsTold, KeysHeld, PipelineNext
  PROVE  KeysHeld'
<1> USE DEF KeysHeld
<1>1. CASE UNCHANGED ledger /\ Rows' = Rows
  BY <1>1
<1>2. ASSUME NEW s \in Slots, Insert(s) PROVE KeysHeld'
  <2>1. NewRow(s).key \in NewRow(s).held
    BY DEF NewRow, Row
  <2> QED
    BY <1>2, <2>1, InsertedRow
<1>3. ASSUME NEW s \in Slots, Announce(s) PROVE KeysHeld'
  BY <1>3, AnnouncedRow
<1>4. ASSUME NEW r \in Typed, NEW flag \in BOOLEAN, Post(r, flag)
      PROVE  KeysHeld'
  <2> DEFINE row == Row(NoJob, 0, NoSlot, r, flag)
  <2>1. row.key \in row.held
    BY DEF Row
  <2> HIDE DEF row
  <2>2. /\ Len(ledger) \in Nat
        /\ Rows = 1 .. Len(ledger)
        /\ Rows' = 1 .. Len(ledger) + 1
        /\ \A i \in Rows : ledger'[i] = ledger[i]
        /\ ledger'[Len(ledger) + 1] = row
    BY <1>4, PostedRow DEF row
  <2> QED
    BY <2>1, <2>2
<1>5. ASSUME NEW n \in Rows, NEW r \in Typed, Patch(n, KeyOf(r))
      PROVE  KeysHeld'
  BY <1>5, PatchedRow
<1> QED
  BY <1>1, <1>2, <1>3, <1>4, <1>5, LedgerCases

\* An edited row never looks unedited again, and no row changes the key it
\* was inserted under.
LEMMA UneditedBefore ==
  ASSUME NEW i \in Rows, Kept(i), KeysHeld, Unedited(i)'
  PROVE  Unedited(i) /\ FirstKey(i)' = FirstKey(i)
<1>1. FirstKey(i)' = FirstKey(i)
  BY DEF Kept, FirstKey, KeyOf
<1>2. ledger[i].held = {FirstKey(i)}
  <2>1. ledger[i].held \subseteq {FirstKey(i)}
    BY <1>1 DEF Kept, Unedited
  <2>2. ledger[i].key \in ledger[i].held
    BY DEF KeysHeld
  <2> QED
    BY <2>1, <2>2
<1> QED
  BY <1>1, <1>2 DEF Unedited

\* A row that was not there before comes from one run or from a POST.
LEMMA NewRows ==
  ASSUME QTypeOK, PipelineTypeOK, BusyRuns, RunsTold, PipelineNext,
         NEW i \in Rows', i \notin Rows
  PROVE  /\ Rows = 1 .. i - 1
         /\ i \in Nat
         /\ \/ \E s \in Slots : Insert(s) /\ ledger'[i] = NewRow(s)
            \/ \E r \in Typed, flag \in BOOLEAN :
                 Post(r, flag) /\ ledger'[i] = Row(NoJob, 0, NoSlot, r, flag)
<1>1. ASSUME NEW s \in Slots, Insert(s)
      PROVE  Rows = 1 .. i - 1 /\ i \in Nat /\ ledger'[i] = NewRow(s)
  BY <1>1, InsertedRow
<1>2. ASSUME NEW r \in Typed, NEW flag \in BOOLEAN, Post(r, flag)
      PROVE  /\ Rows = 1 .. i - 1 /\ i \in Nat
             /\ ledger'[i] = Row(NoJob, 0, NoSlot, r, flag)
  <2> DEFINE row == Row(NoJob, 0, NoSlot, r, flag)
  <2>1. /\ Len(ledger) \in Nat
        /\ Rows = 1 .. Len(ledger)
        /\ Rows' = 1 .. Len(ledger) + 1
        /\ ledger'[Len(ledger) + 1] = row
    BY <1>2, PostedRow
  <2> HIDE DEF row
  <2>2. Rows = 1 .. i - 1 /\ i \in Nat /\ ledger'[i] = row
    BY <2>1
  <2> QED
    BY <2>2 DEF row
<1> QED
  BY <1>1, <1>2, LedgerCases, AnnouncedRow, PatchedRow

\* A lost lock is never forgotten.
LEMMA LostLocksGrow ==
  ASSUME QTypeOK, PipelineNext, lostLocks' = 0
  PROVE  lostLocks = 0
<1>1. CASE UNCHANGED queueVars
  BY <1>1 DEF queueVars
<1>2. CASE QNext
  BY <1>2, QueueAssumption
  DEF QTypeOK, QNext, Enqueue, Housekeeping, Promote, ExpireLock, LoseLock,
      RecoverStalled, Claim, Finish, Complete, Fail, LostFinish, Crash,
      Lifecycle, BeginClose, FinishClose, Restart
<1> QED
  BY <1>1, <1>2, QueueStepRefines

\* Slot t stays between look-up and insertion.
Waits(t) ==
  /\ phase[t] = "insert" /\ ~Insert(t)
  /\ parsed'[t] = parsed[t]
  /\ duplicate'[t] = duplicate[t]
  /\ running'[t] = running[t]

\* A run about to insert has just looked up, or was about to insert before.
LEMMA WaitingRuns ==
  ASSUME QTypeOK, PipelineTypeOK, BusyRuns, PipelineNext,
         NEW t \in Slots, phase'[t] = "insert"
  PROVE  FindDuplicate(t) \/ Waits(t)
<1> USE DEF Waits, PipelineTypeOK, QTypeOK, Insert, AfterInsert
<1>1. ASSUME NEW s \in Slots, NEW j \in Jobs, Start(s, j) PROVE FindDuplicate(t) \/ Waits(t)
  BY <1>1 DEF Start, Claim, BusyRuns
<1>2. ASSUME NEW s \in Slots, ReadText(s) PROVE FindDuplicate(t) \/ Waits(t)
  BY <1>2 DEF ReadText, queueVars
<1>3. ASSUME NEW s \in Slots, AskLlm(s) PROVE FindDuplicate(t) \/ Waits(t)
  BY <1>3 DEF AskLlm, queueVars
<1>4. ASSUME NEW s \in Slots, FindDuplicate(s) PROVE FindDuplicate(t) \/ Waits(t)
  BY <1>4 DEF FindDuplicate, queueVars
<1>5. ASSUME NEW s \in Slots, Insert(s) PROVE FindDuplicate(t) \/ Waits(t)
  BY <1>5 DEF queueVars
<1>6. ASSUME NEW s \in Slots, Announce(s) PROVE FindDuplicate(t) \/ Waits(t)
  BY <1>6 DEF Announce, queueVars
<1>7. ASSUME NEW s \in Slots, Resolve(s) PROVE FindDuplicate(t) \/ Waits(t)
  <2>1. running' = [running EXCEPT ![s] = NoJob] /\ ClearRun(s)
    BY <1>7, EndOfRun
  <2> QED
    BY <2>1, <1>7 DEF ClearRun, Resolve, Resolved
<1>8. ASSUME NEW s \in Slots, Throw(s) PROVE FindDuplicate(t) \/ Waits(t)
  <2>1. running' = [running EXCEPT ![s] = NoJob] /\ ClearRun(s)
    BY <1>8, EndOfRun
  <2> QED
    BY <2>1, <1>8 DEF ClearRun, Throw
<1>9. ASSUME NEW r \in Typed, NEW flag \in BOOLEAN, Post(r, flag)
      PROVE  FindDuplicate(t) \/ Waits(t)
  BY <1>9 DEF Post, queueVars, runVars
<1>10. ASSUME NEW n \in Rows, NEW r \in Typed, Patch(n, KeyOf(r))
      PROVE  FindDuplicate(t) \/ Waits(t)
  BY <1>10 DEF Patch, queueVars, runVars
<1>11. CASE CrashAll
  BY <1>11 DEF CrashAll
<1>12. CASE QueueStep
  BY <1>12, QuietQueue DEF runVars, QueueStep, dataVars
<1> QED
  BY ONLY PipelineNext, <1>1, <1>2, <1>3, <1>4, <1>5, <1>6,
          <1>7, <1>8, <1>9, <1>10, <1>11, <1>12
  DEF PipelineNext, RunStep, Rows

\* A hit of the look-up is still there when the row is inserted.
LEMMA HitsStep ==
  ASSUME QTypeOK, PipelineTypeOK, BusyRuns, RunsTold, KeysHeld, HitsStay,
         PipelineNext
  PROVE  HitsStay'
<1> SUFFICES ASSUME NEW s \in Slots, phase'[s] = "insert", duplicate'[s]
             PROVE  \E i \in Rows' : KeyOf(parsed'[s].reading) \in ledger'[i].held
  BY DEF HitsStay, KeyOf
<1>1. \E i \in Rows : KeyOf(parsed'[s].reading) \in ledger[i].held
  <2>1. CASE FindDuplicate(s)
    <3>1. \E i \in Rows : ledger[i].key = KeyOf(parsed[s].reading)
      BY <2>1 DEF FindDuplicate, SameReceipt, PipelineTypeOK, Rows
    <3>2. KeyOf(parsed'[s].reading) = KeyOf(parsed[s].reading)
      BY <2>1 DEF FindDuplicate, KeyOf
    <3> QED
      BY <3>1, <3>2 DEF KeysHeld
  <2>2. CASE Waits(s)
    BY <2>2 DEF Waits, HitsStay, KeyOf
  <2> QED
    BY <2>1, <2>2, WaitingRuns
<1> QED
  BY <1>1, RowsKept DEF Kept

\* Nobody else inserts what a run has looked for in vain, apart from other
\* slots working on other jobs and from clients.
LEMMA MissesStep ==
  ASSUME QInv, PipelineTypeOK, BusyRuns, RunsTold, KeysHeld, MissesStay,
         PipelineNext
  PROVE  MissesStay'
<1> USE DEF QInv
<1> SUFFICES ASSUME NEW s \in Slots, NEW i \in Rows',
                    phase'[s] = "insert", ~duplicate'[s], Unedited(i)',
                    \/ ledger'[i].slot = s
                    \/ lostLocks' = 0 /\ ledger'[i].job = running'[s]
             PROVE  FirstKey(i)' # KeyOf(parsed'[s].reading)
  BY DEF MissesStay, NotMissed, KeyOf
<1>1. CASE i \in Rows
  <2>1. Kept(i) /\ Unedited(i) /\ FirstKey(i)' = FirstKey(i)
    BY <1>1, RowsKept, UneditedBefore
  <2>2. CASE FindDuplicate(s)
    <3>1. ledger[i].key # KeyOf(parsed[s].reading)
      BY <1>1, <2>2 DEF FindDuplicate, SameReceipt, Rows, PipelineTypeOK
    <3>2. ledger[i].key = FirstKey(i)
      BY <1>1, <2>1 DEF KeysHeld, Unedited
    <3>3. KeyOf(parsed'[s].reading) = KeyOf(parsed[s].reading)
      BY <2>2 DEF FindDuplicate, KeyOf
    <3> QED
      BY <2>1, <3>1, <3>2, <3>3
  <2>3. CASE Waits(s)
    <3>1. NotMissed(s, i)
      BY <1>1, <2>1, <2>3, LostLocksGrow DEF MissesStay, Waits, Kept
    <3>2. KeyOf(parsed'[s].reading) = KeyOf(parsed[s].reading)
      BY <2>3 DEF Waits, KeyOf
    <3> QED
      BY <2>1, <2>3, <3>1, <3>2 DEF NotMissed, Waits
  <2> QED
    BY <2>2, <2>3, WaitingRuns
<1>2. CASE i \notin Rows
  <2>1. ASSUME NEW t \in Slots, Insert(t), ledger'[i] = NewRow(t) PROVE FALSE
    <3>1. t # s /\ running'[s] = running[s]
      BY <2>1, WaitingRuns DEF Waits, FindDuplicate, Insert, queueVars, AfterInsert, PipelineTypeOK
    <3>2. ledger'[i].slot = t /\ ledger'[i].job = running[t]
      BY <2>1 DEF NewRow, Row
    <3>3. lostLocks = 0 /\ running[t] = running[s]
      BY <3>1, <3>2, LostLocksGrow
    <3>4. running[t] # NoJob
      BY <2>1 DEF Insert, BusyRuns
    <3> QED
      BY <3>1, <3>3, <3>4 DEF RunsOwnTheirJob, HoldsLock
  <2>2. ASSUME NEW r \in Typed, NEW flag \in BOOLEAN, Post(r, flag),
               ledger'[i] = Row(NoJob, 0, NoSlot, r, flag)
        PROVE  FALSE
    <3>1. ledger'[i].slot = NoSlot /\ ledger'[i].job = NoJob
      BY <2>2 DEF Row
    <3>2. phase[s] = "insert" /\ running'[s] = running[s]
      BY <2>2 DEF Post, runVars, queueVars
    <3>3. running[s] # NoJob
      BY <3>2 DEF BusyRuns
    <3> QED
      BY <3>1, <3>2, <3>3, QueueAssumption
  <2> QED
    BY <1>2, <2>1, <2>2, NewRows
<1> QED
  BY <1>1, <1>2

\* How one step can change the run of slot t: it is claimed, it ends, or it
\* keeps its job and number; started runs are never uncounted.
NewRun(t) ==
  /\ running[t] = NoJob /\ running'[t] \in Jobs
  /\ attempt'[t] = attemptsStarted[running'[t]] + 1
  /\ attemptsStarted' = [attemptsStarted EXCEPT ![running'[t]] = @ + 1]
  /\ \A u \in Slots : u # t =>
       running'[u] = running[u] /\ attempt'[u] = attempt[u] /\ phase'[u] = phase[u]
  /\ phase'[t] = "fetch"
  /\ UNCHANGED ledger

OldRuns ==
  /\ attemptsStarted' = attemptsStarted
  /\ \A t \in Slots :
       \/ running'[t] = NoJob
       \/ /\ running'[t] = running[t] /\ attempt'[t] = attempt[t]
          /\ phase[t] \in {"inserted", "return"} =>
               phase'[t] \in {"inserted", "return"}

\* The two ways a step can change the runs.
LEMMA RunChanges ==
  ASSUME QTypeOK, PipelineTypeOK, BusyRuns, PipelineNext
  PROVE  (\E t \in Slots : NewRun(t)) \/ OldRuns
<1> USE QueueAssumption DEF PipelineTypeOK, QTypeOK
<1>1. ASSUME NEW s \in Slots, NEW j \in Jobs, Start(s, j) PROVE (\E t \in Slots : NewRun(t)) \/ OldRuns
  <2>1. NewRun(s)
    BY <1>1 DEF Start, Claim, dataVars, NewRun
  <2> QED
    BY <2>1
<1>2. ASSUME NEW s \in Slots, ReadText(s) PROVE (\E t \in Slots : NewRun(t)) \/ OldRuns
  BY <1>2 DEF ReadText, queueVars, OldRuns
<1>3. ASSUME NEW s \in Slots, AskLlm(s) PROVE (\E t \in Slots : NewRun(t)) \/ OldRuns
  BY <1>3 DEF AskLlm, queueVars, OldRuns
<1>4. ASSUME NEW s \in Slots, FindDuplicate(s) PROVE (\E t \in Slots : NewRun(t)) \/ OldRuns
  BY <1>4 DEF FindDuplicate, queueVars, OldRuns
<1>5. ASSUME NEW s \in Slots, Insert(s) PROVE (\E t \in Slots : NewRun(t)) \/ OldRuns
  BY <1>5 DEF Insert, queueVars, OldRuns, AfterInsert
<1>6. ASSUME NEW s \in Slots, Announce(s) PROVE (\E t \in Slots : NewRun(t)) \/ OldRuns
  BY <1>6 DEF Announce, queueVars, OldRuns
<1>7. ASSUME NEW s \in Slots, Resolve(s) PROVE (\E t \in Slots : NewRun(t)) \/ OldRuns
  <2>1. /\ running' = [running EXCEPT ![s] = NoJob] /\ ClearRun(s)
        /\ UNCHANGED attemptsStarted
    BY <1>7, EndOfRun
  <2> QED
    BY <2>1 DEF ClearRun, OldRuns
<1>8. ASSUME NEW s \in Slots, Throw(s) PROVE (\E t \in Slots : NewRun(t)) \/ OldRuns
  <2>1. /\ running' = [running EXCEPT ![s] = NoJob] /\ ClearRun(s)
        /\ UNCHANGED attemptsStarted
    BY <1>8, EndOfRun
  <2> QED
    BY <2>1 DEF ClearRun, OldRuns
<1>9. ASSUME NEW r \in Typed, NEW flag \in BOOLEAN, Post(r, flag)
      PROVE  (\E t \in Slots : NewRun(t)) \/ OldRuns
  BY <1>9 DEF Post, queueVars, OldRuns, runVars
<1>10. ASSUME NEW n \in Rows, NEW r \in Typed, Patch(n, KeyOf(r))
      PROVE  (\E t \in Slots : NewRun(t)) \/ OldRuns
  BY <1>10 DEF Patch, queueVars, OldRuns, runVars
<1>11. CASE CrashAll
  BY <1>11 DEF CrashAll, Crash, OldRuns
<1>12. CASE QueueStep
  BY <1>12, QuietQueue DEF runVars, OldRuns
<1> QED
  BY ONLY PipelineNext, <1>1, <1>2, <1>3, <1>4, <1>5, <1>6,
          <1>7, <1>8, <1>9, <1>10, <1>11, <1>12
  DEF PipelineNext, RunStep, Rows

\* A new run gets the next number of its job.
LEMMA RunsNumberedStep ==
  ASSUME QTypeOK, PipelineTypeOK, BusyRuns, RunsNumbered, PipelineNext
  PROVE  RunsNumbered'
<1> USE QueueAssumption DEF QTypeOK, PipelineTypeOK
<1> SUFFICES ASSUME NEW s \in Slots, running'[s] # NoJob
             PROVE  /\ attempt'[s] \in 1 .. attemptsStarted'[running'[s]]
                    /\ \A t \in Slots :
                         running'[t] = running'[s] /\ attempt'[t] = attempt'[s]
                           => t = s
  BY DEF RunsNumbered
<1>1. ASSUME NEW u \in Slots, NewRun(u)
      PROVE  /\ attempt'[s] \in 1 .. attemptsStarted'[running'[s]]
             /\ \A t \in Slots :
                  running'[t] = running'[s] /\ attempt'[t] = attempt'[s]
                    => t = s
  <2> DEFINE j == running'[u]
  <2>1. /\ j \in Jobs
        /\ attempt'[u] = attemptsStarted[j] + 1
        /\ attemptsStarted'[j] = attemptsStarted[j] + 1
        /\ \A i \in Jobs \ {j} : attemptsStarted'[i] = attemptsStarted[i]
        /\ \A t \in Slots \ {u} : running'[t] = running[t] /\ attempt'[t] = attempt[t]
    BY <1>1 DEF NewRun
  <2>2. \A t \in Slots : running[t] # NoJob =>
          running[t] \in Jobs /\ attempt[t] \in 1 .. attemptsStarted[running[t]]
    BY DEF RunsNumbered
  <2>3. \A i \in Jobs : attemptsStarted[i] \in Nat
    OBVIOUS
  <2>4. \A t \in Slots \ {u} : ~(running'[t] = j /\ attempt'[t] = attempt'[u])
    <3> SUFFICES ASSUME NEW t \in Slots \ {u}, running'[t] = j,
                        attempt'[t] = attempt'[u]
                 PROVE  FALSE
      OBVIOUS
    <3>1. running[t] = j /\ attempt[t] = attemptsStarted[j] + 1
      BY <2>1
    <3>2. attempt[t] \in 1 .. attemptsStarted[j] /\ attemptsStarted[j] \in Nat
      BY <2>1, <2>2, <2>3, <3>1, QueueAssumption
    <3> QED
      BY ONLY <3>1, <3>2
  <2>5. CASE s = u
    BY <2>1, <2>3, <2>4, <2>5
  <2>6. CASE s # u
    <3>1. attempt'[s] \in 1 .. attemptsStarted'[running'[s]]
      <4> DEFINE i == running[s]
      <4>1. running'[s] = i /\ attempt'[s] = attempt[s] /\ i \in Jobs
        BY <2>1, <2>2, <2>6
      <4>2. attempt[s] \in 1 .. attemptsStarted[i] /\ attemptsStarted[i] \in Nat
        BY <2>2, <2>3, <4>1, QueueAssumption
      <4>3. attemptsStarted'[i] \in {attemptsStarted[i], attemptsStarted[i] + 1}
        BY <2>1, <4>1
      <4> HIDE DEF i
      <4> QED
        BY ONLY <4>1, <4>2, <4>3
    <3>2. \A t \in Slots \ {u} :
            running'[t] = running'[s] /\ attempt'[t] = attempt'[s] => t = s
      BY <2>1, <2>6 DEF RunsNumbered
    <3> QED
      BY <2>4, <2>6, <3>1, <3>2
  <2> QED
    BY <2>5, <2>6
<1>2. CASE OldRuns
  BY <1>2 DEF OldRuns, RunsNumbered
<1> QED
  BY <1>1, <1>2, RunChanges

\* The row of a run is inserted by that run, once.
LEMMA RowsNumberedStep ==
  ASSUME QTypeOK, PipelineTypeOK, BusyRuns, RunsTold, RunsNumbered,
         RowsNumbered, PipelineNext
  PROVE  RowsNumbered'
<1> SUFFICES ASSUME NEW i \in Rows', ledger'[i].job # NoJob
             PROVE  /\ ledger'[i].attempt \in 1 .. attemptsStarted'[ledger'[i].job]
                    /\ \A s \in Slots :
                         /\ running'[s] = ledger'[i].job
                         /\ attempt'[s] = ledger'[i].attempt
                         => phase'[s] \in {"inserted", "return"}
  BY DEF RowsNumbered, FromRun
<1> USE QueueAssumption DEF QTypeOK
<1>1. CASE i \in Rows
  <2> DEFINE j == ledger[i].job
             a == ledger[i].attempt
  <2>1. ledger'[i].job = j /\ ledger'[i].attempt = a
    BY <1>1, RowsKept DEF Kept
  <2>2. /\ a \in 1 .. attemptsStarted[j]
        /\ \A s \in Slots : running[s] = j /\ attempt[s] = a
             => phase[s] \in {"inserted", "return"}
    BY <1>1, <2>1 DEF RowsNumbered, FromRun
  <2>3. j \in Jobs
    <3>1. ledger[i] \in StoredRows
      BY <1>1 DEF PipelineTypeOK, Rows
    <3>2. j \in Jobs \union {NoJob}
      BY <3>1 DEF StoredRows
    <3> QED
      BY <2>1, <3>2
  <2> HIDE DEF j, a
  <2>4. CASE OldRuns
    BY <2>1, <2>2, <2>3, <2>4 DEF OldRuns
  <2>5. ASSUME NEW t \in Slots, NewRun(t)
        PROVE  /\ a \in 1 .. attemptsStarted'[j]
               /\ \A s \in Slots : running'[s] = j /\ attempt'[s] = a
                    => phase'[s] \in {"inserted", "return"}
    BY <2>2, <2>3, <2>5 DEF NewRun
  <2> QED
    BY <2>1, <2>4, <2>5, RunChanges
<1>2. CASE i \notin Rows
  <2>1. PICK t \in Slots : Insert(t) /\ ledger'[i] = NewRow(t)
    <3>1. ASSUME NEW r \in Typed, NEW flag \in BOOLEAN,
                 ledger'[i] = Row(NoJob, 0, NoSlot, r, flag)
          PROVE  FALSE
      BY <3>1 DEF Row
    <3> QED
      BY <1>2, <3>1, NewRows
  <2>2. ledger'[i].job = running[t] /\ ledger'[i].attempt = attempt[t]
    BY <2>1 DEF NewRow, Row
  <2>3. /\ running' = running /\ attempt' = attempt
        /\ attemptsStarted' = attemptsStarted
        /\ phase'[t] = "inserted"
    BY <2>1 DEF Insert, queueVars, AfterInsert, PipelineTypeOK
  <2> QED
    BY <2>2, <2>3 DEF RunsNumbered
<1> QED
  BY <1>1, <1>2

\* A run past its insertion got there by inserting, announcing or skipping.
Rests(t) ==
  /\ phase[t] = phase'[t]
  /\ created'[t] = created[t]
  /\ running'[t] = running[t]

\* The ways to be past the insertion after a step.
LEMMA FinishingRuns ==
  ASSUME QTypeOK, PipelineTypeOK, BusyRuns, PipelineNext,
         NEW t \in Slots, phase'[t] \in {"inserted", "return"}
  PROVE  Insert(t) \/ Announce(t) \/ AskLlm(t) \/ Rests(t)
<1> USE DEF Rests, PipelineTypeOK, QTypeOK
<1>1. ASSUME NEW s \in Slots, NEW j \in Jobs, Start(s, j) PROVE Insert(t) \/ Announce(t) \/ AskLlm(t) \/ Rests(t)
  BY <1>1 DEF Start, Claim, BusyRuns
<1>2. ASSUME NEW s \in Slots, ReadText(s) PROVE Insert(t) \/ Announce(t) \/ AskLlm(t) \/ Rests(t)
  BY <1>2 DEF ReadText, queueVars
<1>3. ASSUME NEW s \in Slots, AskLlm(s) PROVE Insert(t) \/ Announce(t) \/ AskLlm(t) \/ Rests(t)
  BY <1>3 DEF AskLlm, queueVars
<1>4. ASSUME NEW s \in Slots, FindDuplicate(s) PROVE Insert(t) \/ Announce(t) \/ AskLlm(t) \/ Rests(t)
  BY <1>4 DEF FindDuplicate, queueVars
<1>5. ASSUME NEW s \in Slots, Insert(s) PROVE Insert(t) \/ Announce(t) \/ AskLlm(t) \/ Rests(t)
  BY <1>5 DEF Insert, queueVars
<1>6. ASSUME NEW s \in Slots, Announce(s) PROVE Insert(t) \/ Announce(t) \/ AskLlm(t) \/ Rests(t)
  BY <1>6 DEF Announce, queueVars
<1>7. ASSUME NEW s \in Slots, Resolve(s) PROVE Insert(t) \/ Announce(t) \/ AskLlm(t) \/ Rests(t)
  <2>1. running' = [running EXCEPT ![s] = NoJob] /\ ClearRun(s)
    BY <1>7, EndOfRun
  <2> QED
    BY <2>1 DEF ClearRun
<1>8. ASSUME NEW s \in Slots, Throw(s) PROVE Insert(t) \/ Announce(t) \/ AskLlm(t) \/ Rests(t)
  <2>1. running' = [running EXCEPT ![s] = NoJob] /\ ClearRun(s)
    BY <1>8, EndOfRun
  <2> QED
    BY <2>1 DEF ClearRun
<1>9. ASSUME NEW r \in Typed, NEW flag \in BOOLEAN, Post(r, flag)
      PROVE  Insert(t) \/ Announce(t) \/ AskLlm(t) \/ Rests(t)
  BY <1>9 DEF Post, queueVars, runVars
<1>10. ASSUME NEW n \in Rows, NEW r \in Typed, Patch(n, KeyOf(r))
      PROVE  Insert(t) \/ Announce(t) \/ AskLlm(t) \/ Rests(t)
  BY <1>10 DEF Patch, queueVars, runVars
<1>11. CASE CrashAll
  BY <1>11 DEF CrashAll
<1>12. CASE QueueStep
  BY <1>12, QuietQueue DEF runVars
<1> QED
  BY ONLY PipelineNext, <1>1, <1>2, <1>3, <1>4, <1>5, <1>6,
          <1>7, <1>8, <1>9, <1>10, <1>11, <1>12
  DEF PipelineNext, RunStep, Rows

\* Skipped runs are remembered.
LEMMA SkippedGrows ==
  ASSUME PipelineNext
  PROVE  skipped \subseteq skipped'
<1>1. ASSUME NEW s \in Slots, NEW j \in Jobs, Start(s, j) PROVE skipped' = skipped
  BY <1>1 DEF Start, dataVars
<1>2. ASSUME NEW s \in Slots, RunStep(s) PROVE skipped \subseteq skipped'
  BY <1>2 DEF RunStep, ReadText, AskLlm, FindDuplicate, Insert, Announce,
              Resolve, Throw, dataVars
<1>3. ASSUME NEW r, NEW flag, Post(r, flag) PROVE skipped' = skipped
  BY <1>3 DEF Post
<1>4. ASSUME NEW i, NEW key, Patch(i, key) PROVE skipped' = skipped
  BY <1>4 DEF Patch
<1>5. CrashAll \/ QueueStep => skipped' = skipped
  BY DEF CrashAll, QueueStep, dataVars
<1> QED
  BY <1>1, <1>2, <1>3, <1>4, <1>5 DEF PipelineNext

\* What has been told stays told.
LEMMA ToldStays ==
  ASSUME QTypeOK, PipelineTypeOK, BusyRuns, RunsTold, PipelineNext, NEW j, Told(j)
  PROVE  Told(j)'
BY RowsKept, SkippedGrows DEF Told, Kept

\* Before a run returns, its job has been announced or found unreadable.
LEMMA RunsToldStep ==
  ASSUME QTypeOK, PipelineTypeOK, BusyRuns, RunsTold, PipelineNext
  PROVE  RunsTold'
<1> SUFFICES ASSUME NEW s \in Slots, phase'[s] \in {"inserted", "return"}
             PROVE  /\ phase'[s] = "inserted" =>
                         created'[s] \in Rows' /\ ledger'[created'[s]].job = running'[s]
                    /\ phase'[s] = "return" => Told(running[s])' /\ running'[s] = running[s]
  BY DEF RunsTold, Told
<1> USE DEF PipelineTypeOK
<1>1. CASE Insert(s)
  <2>1. created'[s] = Len(ledger) + 1 /\ phase'[s] = "inserted" /\ running' = running
    BY <1>1 DEF Insert, AfterInsert, queueVars
  <2>2. /\ Rows' = 1 .. Len(ledger) + 1 /\ Len(ledger) \in Nat
        /\ ledger'[Len(ledger) + 1] = NewRow(s)
    BY <1>1, InsertedRow
  <2>3. NewRow(s).job = running[s]
    BY DEF NewRow, Row
  <2> QED
    BY <2>1, <2>2, <2>3
<1>2. CASE Announce(s)
  <2>1. phase'[s] = "return" /\ running'[s] = running[s]
    BY <1>2 DEF Announce, queueVars
  <2>2. created[s] \in Rows /\ ledger[created[s]].job = running[s]
    BY <1>2 DEF Announce, RunsTold
  <2>3. /\ created[s] \in Rows'
        /\ ledger'[created[s]].job = running'[s]
        /\ ledger'[created[s]].announced
    BY <1>2, <2>1, <2>2, AnnouncedRow DEF Kept
  <2> QED
    BY <2>1, <2>3 DEF Told
<1>3. CASE AskLlm(s)
  <2>1. phase'[s] = "return" /\ running'[s] = running[s]
    BY <1>3 DEF AskLlm, queueVars
  <2>2. <<running[s], attempt[s]>> \in skipped'
    BY <1>3, <2>1 DEF AskLlm
  <2> QED
    BY <2>1, <2>2 DEF Told
<1>4. CASE Rests(s)
  <2>1. phase[s] = "inserted" =>
          created[s] \in Rows /\ ledger[created[s]].job = running[s]
    BY DEF RunsTold
  <2>2. phase[s] = "return" => Told(running[s])
    BY DEF RunsTold
  <2> QED
    BY <1>4, <2>1, <2>2, RowsKept, ToldStays DEF Rests, Kept
<1> QED
  BY <1>1, <1>2, <1>3, <1>4, FinishingRuns

-----------------------------------------------------------------------------
(* The properties, step by step.                                           *)

\* The row a run inserts is flagged because of an older row.
LEMMA OriginalStep ==
  ASSUME QTypeOK, PipelineTypeOK, BusyRuns, RunsTold, HitsStay,
         DuplicateHasOriginal, PipelineNext
  PROVE  DuplicateHasOriginal'
<1> SUFFICES ASSUME NEW k \in Rows', ledger'[k].job # NoJob, ledger'[k].isDuplicate
             PROVE  \E i \in 1 .. k - 1 : FirstKey(k)' \in ledger'[i].held
  BY DEF DuplicateHasOriginal, FromRun
<1>1. CASE k \in Rows
  <2>1. /\ Kept(k) /\ k \in Nat
        /\ \A i \in 1 .. k - 1 : i \in Rows
    BY <1>1, RowsKept DEF PipelineTypeOK, Rows
  <2>2. FirstKey(k)' = FirstKey(k)
    BY <2>1 DEF Kept, FirstKey, KeyOf
  <2>3. \E i \in 1 .. k - 1 : FirstKey(k) \in ledger[i].held
    BY <1>1, <2>1 DEF DuplicateHasOriginal, FromRun, Kept
  <2> QED
    BY <2>1, <2>2, <2>3, RowsKept DEF Kept
<1>2. CASE k \notin Rows
  <2>1. Rows = 1 .. k - 1
    BY <1>2, NewRows
  <2>2. PICK s \in Slots : Insert(s) /\ ledger'[k] = NewRow(s)
    <3>1. ASSUME NEW r \in Typed, NEW flag \in BOOLEAN,
                 ledger'[k] = Row(NoJob, 0, NoSlot, r, flag)
          PROVE  FALSE
      BY <3>1 DEF Row
    <3> QED
      BY <1>2, <3>1, NewRows
  <2>3. phase[s] = "insert" /\ duplicate[s]
    <3>1. NewRow(s).isDuplicate = duplicate[s]
      BY DEF NewRow, Row
    <3> QED
      BY <2>2, <3>1 DEF Insert
  <2>4. FirstKey(k)' = KeyOf(parsed[s].reading)
    BY <2>2 DEF NewRow, Row, FirstKey, KeyOf
  <2>5. \E i \in Rows : FirstKey(k)' \in ledger[i].held
    BY <2>3, <2>4 DEF HitsStay
  <2> QED
    BY <2>1, <2>5, RowsKept DEF Kept
<1> QED
  BY <1>1, <1>2

\* What the next two lemmas have in common: an unflagged row k repeats an
\* older, unedited row i.
Repeats(i, k) ==
  /\ k \in Rows /\ i \in 1 .. k - 1
  /\ FromRun(k) /\ ~ledger[k].isDuplicate
  /\ Unedited(i)
  /\ FirstKey(i) = FirstKey(k)

\* After a step such a pair is an old one, or its second row has just been
\* inserted by a run that missed the first.
LEMMA RepeatsStep ==
  ASSUME QTypeOK, PipelineTypeOK, BusyRuns, RunsTold, KeysHeld, PipelineNext,
         NEW i, NEW k, Repeats(i, k)'
  PROVE  \/ Repeats(i, k) /\ Kept(i) /\ Kept(k)
         \/ \E s \in Slots :
              /\ Insert(s) /\ ledger'[k] = NewRow(s)
              /\ i \in Rows /\ Kept(i) /\ ~NotMissed(s, i)
<1>1. CASE k \in Rows
  <2>1. /\ Kept(k) /\ k \in Nat
        /\ i \in 1 .. k - 1 /\ i \in Rows
    BY <1>1, RowsKept DEF PipelineTypeOK, Rows, Repeats
  <2>2. Kept(i) /\ Unedited(i) /\ FirstKey(i)' = FirstKey(i)
    BY <2>1, RowsKept, UneditedBefore DEF Repeats
  <2>3. FirstKey(k)' = FirstKey(k)
    BY <2>1 DEF Kept, FirstKey, KeyOf
  <2> QED
    BY <1>1, <2>1, <2>2, <2>3 DEF Repeats, FromRun, Kept
<1>2. CASE k \notin Rows
  <2>1. Rows = 1 .. k - 1
    BY <1>2, NewRows DEF Repeats
  <2>2. PICK s \in Slots : Insert(s) /\ ledger'[k] = NewRow(s)
    <3>1. ASSUME NEW r \in Typed, NEW flag \in BOOLEAN,
                 ledger'[k] = Row(NoJob, 0, NoSlot, r, flag)
          PROVE  FALSE
      BY <3>1 DEF Row, Repeats, FromRun
    <3> QED
      BY <1>2, <3>1, NewRows DEF Repeats
  <2>3. i \in Rows /\ Kept(i) /\ Unedited(i) /\ FirstKey(i)' = FirstKey(i)
    BY <2>1, RowsKept, UneditedBefore DEF Repeats
  <2>4. phase[s] = "insert" /\ ~duplicate[s]
    <3>1. NewRow(s).isDuplicate = duplicate[s]
      BY DEF NewRow, Row
    <3> QED
      BY <2>2, <3>1 DEF Insert, Repeats
  <2>5. FirstKey(k)' = KeyOf(parsed[s].reading)
    BY <2>2 DEF NewRow, Row, FirstKey, KeyOf
  <2>6. ~NotMissed(s, i)
    BY <2>3, <2>4, <2>5 DEF NotMissed, Repeats
  <2> QED
    BY <2>2, <2>3, <2>6
<1> QED
  BY <1>1, <1>2 DEF Repeats

\* A slot does not miss what it has inserted itself.
LEMMA OneOriginalStep ==
  ASSUME QTypeOK, PipelineTypeOK, BusyRuns, RunsTold, KeysHeld, MissesStay,
         OneOriginalPerSlot, PipelineNext
  PROVE  OneOriginalPerSlot'
<1> SUFFICES ASSUME NEW k, NEW i, Repeats(i, k)', FromRun(i)',
                    ledger'[i].slot = ledger'[k].slot
             PROVE  FALSE
  BY DEF OneOriginalPerSlot, Repeats, FromRun
<1>1. ~(Repeats(i, k) /\ Kept(i) /\ Kept(k))
  BY DEF Repeats, Kept, FromRun, OneOriginalPerSlot
<1>2. ASSUME NEW s \in Slots, ledger'[k] = NewRow(s), i \in Rows, Kept(i),
             ~NotMissed(s, i)
      PROVE  FALSE
  <2>1. ledger[i].slot = s
    BY <1>2 DEF Kept, NewRow, Row
  <2> QED
    BY <1>2, <2>1 DEF MissesStay
<1> QED
  BY <1>1, <1>2, RepeatsStep

\* A retry does not miss what an earlier run of its job has inserted.
LEMMA RetryStep ==
  ASSUME QTypeOK, QTypeOK', PipelineTypeOK, BusyRuns, RunsTold, KeysHeld,
         MissesStay, RetryIsFlagged, PipelineNext
  PROVE  RetryIsFlagged'
<1> USE QueueAssumption DEF QTypeOK
<1> SUFFICES ASSUME NEW k, NEW i, Repeats(i, k)', lostLocks' = 0,
                    ledger'[i].job = ledger'[k].job
             PROVE  FALSE
  <2>1. lostLocks' \in Nat
    OBVIOUS
  <2> QED
    BY <2>1 DEF RetryIsFlagged, Repeats, FromRun
<1>1. lostLocks = 0
  BY LostLocksGrow
<1>2. ~(Repeats(i, k) /\ Kept(i) /\ Kept(k))
  BY <1>1 DEF Repeats, Kept, FromRun, RetryIsFlagged
<1>3. ASSUME NEW s \in Slots, ledger'[k] = NewRow(s), i \in Rows, Kept(i),
             ~NotMissed(s, i)
      PROVE  FALSE
  <2>1. ledger[i].job = running[s]
    BY <1>3 DEF Kept, NewRow, Row
  <2> QED
    BY <1>1, <1>3, <2>1 DEF MissesStay
<1> QED
  BY <1>2, <1>3, RepeatsStep

\* A run that is about to insert has no row yet.
LEMMA OneRowStep ==
  ASSUME QTypeOK, PipelineTypeOK, BusyRuns, RunsTold, RowsNumbered,
         OneRowPerRun, PipelineNext
  PROVE  OneRowPerRun'
<1> SUFFICES ASSUME NEW k \in Rows', NEW i \in 1 .. k - 1,
                    ledger'[k].job # NoJob, ledger'[i].job = ledger'[k].job
             PROVE  ledger'[i].attempt # ledger'[k].attempt
  BY DEF OneRowPerRun, FromRun
<1>1. CASE k \in Rows
  <2>1. k \in Nat /\ i \in Rows
    BY <1>1 DEF PipelineTypeOK, Rows
  <2>2. Kept(i) /\ Kept(k)
    BY <1>1, <2>1, RowsKept
  <2> QED
    BY <1>1, <2>1, <2>2 DEF Kept, OneRowPerRun, FromRun
<1>2. CASE k \notin Rows
  <2>1. i \in Rows
    BY <1>2, NewRows
  <2>2. PICK s \in Slots : Insert(s) /\ ledger'[k] = NewRow(s)
    <3>1. ASSUME NEW r \in Typed, NEW flag \in BOOLEAN,
                 ledger'[k] = Row(NoJob, 0, NoSlot, r, flag)
          PROVE  FALSE
      BY <3>1 DEF Row
    <3> QED
      BY <1>2, <3>1, NewRows
  <2>3. /\ ledger'[k].job = running[s] /\ ledger'[k].attempt = attempt[s]
        /\ phase[s] = "insert"
    <3>1. NewRow(s).job = running[s] /\ NewRow(s).attempt = attempt[s]
      BY DEF NewRow, Row
    <3> QED
      BY <2>2, <3>1 DEF Insert
  <2>4. Kept(i)
    BY <2>1, RowsKept
  <2> QED
    BY <2>1, <2>3, <2>4 DEF RowsNumbered, FromRun, Kept
<1> QED
  BY <1>1, <1>2

\* Only a run that has announced or skipped can complete its job.
LEMMA CompletedStep ==
  ASSUME QTypeOK, PipelineTypeOK, BusyRuns, RunsTold, CompletedIsAnnounced,
         PipelineNext
  PROVE  CompletedIsAnnounced'
<1> SUFFICES ASSUME NEW j \in Jobs, jobState'[j] = "completed"
             PROVE  Told(j)
  BY ToldStays DEF CompletedIsAnnounced
<1> USE DEF CompletedIsAnnounced
<1>1. ASSUME NEW s \in Slots, NEW i \in Jobs, Start(s, i) PROVE Told(j)
  BY <1>1 DEF Start, Claim, QTypeOK
<1>2. ASSUME NEW s \in Slots, RunStep(s) PROVE Told(j)
  <2>1. CASE Resolve(s) \/ Throw(s)
    BY <2>1, EndOfRun DEF RunsTold
  <2>2. CASE ~(Resolve(s) \/ Throw(s))
    BY <1>2, <2>2 DEF RunStep, ReadText, AskLlm, FindDuplicate, Insert,
                      Announce, queueVars
  <2> QED
    BY <2>1, <2>2
<1>3. ASSUME NEW r, NEW flag, Post(r, flag) PROVE Told(j)
  BY <1>3 DEF Post, queueVars
<1>4. ASSUME NEW n, NEW key, Patch(n, key) PROVE Told(j)
  BY <1>4 DEF Patch, queueVars
<1>5. CASE CrashAll
  BY <1>5 DEF CrashAll, Crash
<1>6. CASE QueueStep
  BY <1>6, QuietQueue
<1> QED
  BY <1>1, <1>2, <1>3, <1>4, <1>5, <1>6 DEF PipelineNext

-----------------------------------------------------------------------------
(* The invariant as a whole.                                               *)

LEMMA PipelineInitInv ==
  ASSUME PipelineInit
  PROVE  PipelineInv
<1>1. QInv
  BY InitInv DEF PipelineInit
<1>2. ledger \in Seq(StoredRows) /\ Rows = {}
  BY DEF PipelineInit, Rows
<1>3. PipelineTypeOK
  BY <1>1, <1>2, PipelineAssumption
  DEF PipelineInit, PipelineTypeOK, QInv, Phases
<1>4. BusyRuns /\ HitsStay /\ RunsTold /\ CompletedIsAnnounced /\ RunsNumbered
  BY DEF PipelineInit, QInit, BusyRuns, HitsStay, RunsTold,
         CompletedIsAnnounced, RunsNumbered
<1>5. KeysHeld /\ MissesStay /\ RowsNumbered
  BY <1>2 DEF KeysHeld, MissesStay, RowsNumbered
<1>6. /\ DuplicateHasOriginal /\ OneOriginalPerSlot
      /\ RetryIsFlagged /\ OneRowPerRun
  BY <1>2
  DEF DuplicateHasOriginal, OneOriginalPerSlot, RetryIsFlagged, OneRowPerRun
<1> QED
  BY <1>1, <1>3, <1>4, <1>5, <1>6 DEF PipelineInv

\* Every step of the pipeline preserves the invariant.
LEMMA PipelineInvStep ==
  ASSUME PipelineInv, PipelineNext
  PROVE  PipelineInv'
<1> USE DEF PipelineInv
<1>1. QInv'
  BY QueueStepRefines, InvStep
<1>2. QTypeOK /\ QTypeOK'
  BY <1>1 DEF QInv
<1>3. PipelineTypeOK' /\ BusyRuns' /\ KeysHeld'
  BY <1>2, PipelineTypeStep, BusyStep, KeysStep
<1>4. HitsStay' /\ MissesStay' /\ RunsTold'
  BY <1>1, <1>2, <1>3, HitsStep, MissesStep, RunsToldStep
<1>5. RunsNumbered' /\ RowsNumbered'
  BY <1>1, <1>2, <1>3, RunsNumberedStep, RowsNumberedStep
<1>6. DuplicateHasOriginal' /\ OneOriginalPerSlot' /\ RetryIsFlagged'
  BY <1>2, OriginalStep, OneOriginalStep, RetryStep
<1>7. OneRowPerRun' /\ CompletedIsAnnounced'
  BY <1>2, OneRowStep, CompletedStep
<1> QED
  BY <1>1, <1>3, <1>4, <1>5, <1>6, <1>7

\* So does a stutter.
LEMMA PipelineInvStutter ==
  ASSUME PipelineInv, UNCHANGED vars
  PROVE  PipelineInv'
<1> USE DEF PipelineInv
<1> USE DEF vars, runVars, dataVars, queueVars
<1>1. QInv'
  BY InvStep
<1>2. Rows' = Rows /\ \A i \in Rows : FromRun(i)' = FromRun(i)
  BY DEF Rows, FromRun
<1>3. PipelineTypeOK' /\ BusyRuns' /\ KeysHeld' /\ HitsStay'
  BY <1>1 DEF QInv, PipelineTypeOK, BusyRuns, KeysHeld, HitsStay, Rows
<1>4. MissesStay' /\ RunsNumbered' /\ RowsNumbered'
  BY DEF MissesStay, NotMissed, Unedited, FirstKey, RunsNumbered,
         RowsNumbered, FromRun, Rows
<1>5. RunsTold' /\ CompletedIsAnnounced'
  BY DEF RunsTold, CompletedIsAnnounced, Told, Rows
<1>6. DuplicateHasOriginal' /\ OneOriginalPerSlot'
  BY DEF DuplicateHasOriginal, OneOriginalPerSlot, FromRun, Unedited,
         FirstKey, Rows
<1>7. RetryIsFlagged' /\ OneRowPerRun'
  BY DEF RetryIsFlagged, OneRowPerRun, FromRun, Unedited, FirstKey, Rows
<1> QED
  BY <1>1, <1>3, <1>4, <1>5, <1>6, <1>7

\* The invariant holds in every reachable state, for every number of photos,
\* slots, attempts, crashes and lost locks, and whatever the services read.
THEOREM PipelineInvariant == PipelineSafeSpec => []PipelineInv
<1>1. PipelineInit => PipelineInv
  BY PipelineInitInv
<1>2. PipelineInv /\ [PipelineNext]_vars => PipelineInv'
  BY PipelineInvStep, PipelineInvStutter
<1> QED
  BY <1>1, <1>2, PTL DEF PipelineSafeSpec

\* Type correctness: in particular no saved field is null.
THEOREM PipelineTypeCorrect == PipelineSafeSpec => []PipelineTypeOK
<1>1. PipelineInv => PipelineTypeOK
  BY DEF PipelineInv
<1> QED
  BY <1>1, PipelineInvariant, PTL

\* A row the pipeline flags repeats an older row.
THEOREM FlagsAreJustified == PipelineSafeSpec => []DuplicateHasOriginal
<1>1. PipelineInv => DuplicateHasOriginal
  BY DEF PipelineInv
<1> QED
  BY <1>1, PipelineInvariant, PTL

\* One slot never inserts the same unedited key twice without a flag.
THEOREM SlotsDoNotRaceThemselves == PipelineSafeSpec => []OneOriginalPerSlot
<1>1. PipelineInv => OneOriginalPerSlot
  BY DEF PipelineInv
<1> QED
  BY <1>1, PipelineInvariant, PTL

\* A retry flags the row that repeats what its job has saved before.
THEOREM RetriesAreFlagged == PipelineSafeSpec => []RetryIsFlagged
<1>1. PipelineInv => RetryIsFlagged
  BY DEF PipelineInv
<1> QED
  BY <1>1, PipelineInvariant, PTL

\* A run saves at most one row.
THEOREM RunsSaveOnce == PipelineSafeSpec => []OneRowPerRun
<1>1. PipelineInv => OneRowPerRun
  BY DEF PipelineInv
<1> QED
  BY <1>1, PipelineInvariant, PTL

\* A completed job has been announced, or had nothing to save.
THEOREM NoSilentLoss == PipelineSafeSpec => []CompletedIsAnnounced
<1>1. PipelineInv => CompletedIsAnnounced
  BY DEF PipelineInv
<1> QED
  BY <1>1, PipelineInvariant, PTL

-----------------------------------------------------------------------------
(* The pipeline keeps the promise of ReceiptPromise: what a step shows of  *)
(* every job is a step of the promise, or nothing.                         *)

\* A step that the promise does not notice in job j.
Unnoticed(j) ==
  Outcome(j)' = Outcome(j) /\ SavedBy(j)' = SavedBy(j) /\ Told(j)' = Told(j)

\* The steps of the promise, said of single jobs.
LEMMA PromiseSteps ==
  ASSUME NEW p \in Jobs, \A j \in Jobs : j # p => Unnoticed(j)
  PROVE  /\ Unnoticed(p) => UNCHANGED Promise!promiseVars
         /\ /\ Outcome(p) = "unknown" /\ Outcome(p)' = "pending"
            /\ SavedBy(p)' = SavedBy(p) /\ Told(p)' = Told(p)
            => Promise!Accept(p)
         /\ /\ Outcome(p) = "pending"
            /\ \/ Outcome(p)' = "failed"
               \/ Outcome(p)' = "completed" /\ Told(p)
            /\ SavedBy(p)' = SavedBy(p) /\ Told(p)' = Told(p)
            => Promise!Settle(p)
         /\ /\ Outcome(p) # "unknown" /\ Outcome(p)' = Outcome(p)
            /\ SavedBy(p)' = SavedBy(p) /\ Told(p)' = TRUE
            => Promise!Tell(p)
         /\ \A n : /\ Outcome(p) # "unknown" /\ Outcome(p)' = Outcome(p)
                   /\ n \notin SavedBy(p) /\ SavedBy(p)' = SavedBy(p) \union {n}
                   /\ Told(p)' = Told(p)
                   => Promise!Save(p, n)
<1> USE DEF Unnoticed
<1>1. Unnoticed(p) => UNCHANGED Promise!promiseVars
  BY DEF Promise!promiseVars
<1>2. /\ Outcome(p) = "unknown" /\ Outcome(p)' = "pending"
      /\ SavedBy(p)' = SavedBy(p) /\ Told(p)' = Told(p)
      => Promise!Accept(p)
  BY DEF Promise!Accept
<1>3. /\ Outcome(p) = "pending"
      /\ \/ Outcome(p)' = "failed"
         \/ Outcome(p)' = "completed" /\ Told(p)
      /\ SavedBy(p)' = SavedBy(p) /\ Told(p)' = Told(p)
      => Promise!Settle(p)
  BY DEF Promise!Settle
<1>4. /\ Outcome(p) # "unknown" /\ Outcome(p)' = Outcome(p)
      /\ SavedBy(p)' = SavedBy(p) /\ Told(p)' = TRUE
      => Promise!Tell(p)
  BY DEF Promise!Tell
<1>5. ASSUME NEW n, Outcome(p) # "unknown", Outcome(p)' = Outcome(p),
             n \notin SavedBy(p), SavedBy(p)' = SavedBy(p) \union {n},
             Told(p)' = Told(p)
      PROVE  Promise!Save(p, n)
  BY <1>5 DEF Promise!Save
<1> QED
  BY <1>1, <1>2, <1>3, <1>4, <1>5

\* A step that leaves origin and announcement of the rows alone shows nothing
\* but outcomes.
LEMMA LedgerKept ==
  ASSUME UNCHANGED skipped, Rows' = Rows,
         \A i \in Rows : /\ ledger'[i].job = ledger[i].job
                         /\ ledger'[i].attempt = ledger[i].attempt
                         /\ ledger'[i].announced = ledger[i].announced,
         NEW j
  PROVE  SavedBy(j)' = SavedBy(j) /\ Told(j)' = Told(j)
<1>1. SavedBy(j)' = SavedBy(j)
  BY DEF SavedBy
<1>2. Told(j)' = Told(j)
  BY DEF Told
<1> QED
  BY <1>1, <1>2

\* A row that is appended shows only in what is saved for its job.
LEMMA LedgerGrown ==
  ASSUME UNCHANGED skipped, NEW n \in Nat, Rows = 1 .. n, Rows' = 1 .. n + 1,
         \A i \in Rows : ledger'[i] = ledger[i],
         ~ledger'[n + 1].announced, NEW j
  PROVE  /\ Told(j)' = Told(j)
         /\ SavedBy(j)' = IF ledger'[n + 1].job = j
                          THEN SavedBy(j) \union {ledger'[n + 1].attempt}
                          ELSE SavedBy(j)
<1>1. Rows' = Rows \union {n + 1}
  OBVIOUS
<1>2. Told(j)' = Told(j)
  BY <1>1 DEF Told
<1>3. SavedBy(j)' = IF ledger'[n + 1].job = j
                    THEN SavedBy(j) \union {ledger'[n + 1].attempt}
                    ELSE SavedBy(j)
  <2> DEFINE old == {k \in Rows : ledger[k].job = j}
             new == {k \in Rows' : ledger'[k].job = j}
  <2>1. CASE ledger'[n + 1].job = j
    <3>1. new = old \union {n + 1}
      BY <1>1, <2>1
    <3>2. SavedBy(j)' = {ledger'[i].attempt : i \in new}
      BY DEF SavedBy
    <3>3. SavedBy(j) = {ledger[i].attempt : i \in old}
      BY DEF SavedBy
    <3>4. \A i \in old : ledger'[i].attempt = ledger[i].attempt
      OBVIOUS
    <3> HIDE DEF old, new
    <3> QED
      BY <2>1, <3>1, <3>2, <3>3, <3>4
  <2>2. CASE ledger'[n + 1].job # j
    <3>1. new = old
      BY <1>1, <2>2
    <3> QED
      BY <2>2, <3>1 DEF SavedBy
  <2> QED
    BY <2>1, <2>2
<1> QED
  BY <1>2, <1>3

\* Outcomes change only where the job's state does.
LEMMA OutcomeKept ==
  ASSUME NEW j, jobState'[j] = jobState[j]
  PROVE  Outcome(j)' = Outcome(j)
BY DEF Outcome

\* Each outcome stands for states of the job.
LEMMA OutcomeOf ==
  ASSUME QTypeOK, NEW j \in Jobs
  PROVE  /\ Outcome(j) = "unknown" <=> jobState[j] = "absent"
         /\ Outcome(j) = "pending" <=> jobState[j] \in Pending
         /\ Outcome(j) = "completed" <=> jobState[j] = "completed"
         /\ Outcome(j) = "failed" <=> jobState[j] = "failed"
BY DEF Outcome, QTypeOK, Pending, Terminal

\* A running job was added, and its run is within the budget.
LEMMA RunningJob ==
  ASSUME PipelineInv, NEW s \in Slots, running[s] # NoJob
  PROVE  /\ running[s] \in Jobs
         /\ Outcome(running[s]) # "unknown"
         /\ attempt[s] \in 1 .. Attempts + MaxStalled
<1> DEFINE j == running[s]
<1>1. j \in Jobs /\ attempt[s] \in 1 .. attemptsStarted[j]
  BY DEF PipelineInv, QInv, QTypeOK, RunsNumbered
<1>2. jobState[j] # "absent"
  BY <1>1 DEF PipelineInv, QInv, QTypeOK, AddedFirst
<1>3. attemptsStarted[j] <= Attempts + MaxStalled
  BY <1>1, BoundFollows DEF PipelineInv, ExecutionBound
<1>4. attemptsStarted[j] \in Nat /\ Attempts + MaxStalled \in Nat
  BY <1>1, QueueAssumption DEF PipelineInv, QInv, QTypeOK
<1> QED
  BY <1>1, <1>2, <1>3, <1>4, OutcomeOf DEF PipelineInv, QInv

\* Steps of the queue between two runs: a job is added, or settled because it
\* stalled too often, or nothing shows.
LEMMA QueueStepPromised ==
  ASSUME PipelineInv, QueueStep
  PROVE  [Promise!PromiseNext]_(Promise!promiseVars)
<1> USE DEF PipelineInv, QInv
<1>1. UNCHANGED <<skipped, ledger>> /\ Rows' = Rows
  BY DEF QueueStep, dataVars, Rows
<1>2. \A j : SavedBy(j)' = SavedBy(j) /\ Told(j)' = Told(j)
  BY <1>1, LedgerKept
<1>3. ASSUME NEW j \in Jobs, \A i \in Jobs : i # j => jobState'[i] = jobState[i]
      PROVE  \A i \in Jobs : i # j => Unnoticed(i)
  BY <1>2, <1>3, OutcomeKept DEF Unnoticed
<1>4. ASSUME NEW j \in Jobs, Enqueue(j) PROVE Promise!Accept(j)
  <2>1. /\ jobState[j] = "absent" /\ jobState'[j] = "wait"
        /\ \A i \in Jobs : i # j => jobState'[i] = jobState[i]
    BY <1>4 DEF Enqueue, QTypeOK
  <2>2. Outcome(j) = "unknown" /\ Outcome(j)' = "pending"
    BY <2>1 DEF Outcome, Pending
  <2> QED
    BY <1>2, <1>3, <2>1, <2>2, PromiseSteps
<1>5. ASSUME NEW j \in Jobs, Promote(j) PROVE UNCHANGED Promise!promiseVars
  <2>1. /\ jobState[j] = "delayed" /\ jobState'[j] = "wait"
        /\ \A i \in Jobs : i # j => jobState'[i] = jobState[i]
    BY <1>5 DEF Promote, QTypeOK
  <2>2. Outcome(j)' = Outcome(j)
    BY <2>1 DEF Outcome, Pending
  <2> QED
    BY <1>2, <1>3, <2>1, <2>2, PromiseSteps DEF Unnoticed
<1>6. ASSUME NEW j \in Jobs, RecoverStalled(j)
      PROVE  UNCHANGED Promise!promiseVars \/ Promise!Settle(j)
  <2>1. /\ jobState[j] = "active" /\ jobState'[j] \in {"wait", "failed"}
        /\ \A i \in Jobs : i # j => jobState'[i] = jobState[i]
    BY <1>6 DEF RecoverStalled, QTypeOK
  <2>2. Outcome(j) = "pending" /\ Outcome(j)' \in {"pending", "failed"}
    BY <2>1 DEF Outcome, Pending
  <2> QED
    BY <1>2, <1>3, <2>1, <2>2, PromiseSteps DEF Unnoticed
<1>7. CASE UNCHANGED jobState
  <2>1. \A j \in Jobs : Unnoticed(j)
    BY <1>2, <1>7, OutcomeKept DEF Unnoticed
  <2> QED
    BY <2>1 DEF Promise!promiseVars, Unnoticed
<1>8. ASSUME NEW j \in Jobs, ExpireLock(j) \/ LoseLock(j) PROVE UNCHANGED jobState
  BY <1>8 DEF ExpireLock, LoseLock
<1>9. Lifecycle => UNCHANGED jobState
  BY DEF Lifecycle, BeginClose, FinishClose, Restart
<1> QED
  BY <1>4, <1>5, <1>6, <1>7, <1>8, <1>9
  DEF QueueStep, Housekeeping, Promise!PromiseNext

\* Steps of a run that save nothing and tell nothing.
LEMMA QuietRunPromised ==
  ASSUME PipelineInv, UNCHANGED <<jobState, skipped, ledger>>
  PROVE  UNCHANGED Promise!promiseVars
<1>1. Rows' = Rows
  BY DEF Rows
<1>2. \A j \in Jobs : Unnoticed(j)
  BY <1>1, LedgerKept, OutcomeKept DEF Unnoticed
<1> QED
  BY <1>2 DEF Promise!promiseVars, Unnoticed

\* The end of a run settles its job, or delays it, or is not heard.
LEMMA EndPromised ==
  ASSUME PipelineInv, NEW s \in Slots, Resolve(s) \/ Throw(s)
  PROVE  [Promise!PromiseNext]_(Promise!promiseVars)
<1> USE DEF PipelineInv, QInv
<1>3. PICK j \in Jobs : j = running[s]
  BY EndOfRun, RunningJob
<1>1. UNCHANGED <<skipped, ledger>> /\ Rows' = Rows
  BY EndOfRun DEF dataVars, Rows
<1>2. \A i : SavedBy(i)' = SavedBy(i) /\ Told(i)' = Told(i)
  BY <1>1, LedgerKept
<1>4. CASE LostFinish(s)
  BY <1>1, <1>4, QuietRunPromised DEF LostFinish
<1>5. CASE ~LostFinish(s)
  <2>1. (Complete(s) /\ phase[s] = "return") \/ Fail(s)
    BY <1>5 DEF Resolve, Resolved, Throw, Rejected
  <2>2. /\ jobState[j] = "active"
        /\ \A i \in Jobs : i # j => jobState'[i] = jobState[i]
        /\ \/ jobState'[j] = "completed" /\ phase[s] = "return"
           \/ jobState'[j] \in {"delayed", "failed"}
    BY <1>3, <2>1, QueueAssumption
    DEF Complete, Fail, HoldsLock, LockedIsActive, QTypeOK
  <2>3. \A i \in Jobs : i # j => Unnoticed(i)
    BY <1>2, <2>2, OutcomeKept DEF Unnoticed
  <2>4. /\ Outcome(j) = "pending"
        /\ \/ Outcome(j)' = "completed" /\ phase[s] = "return"
           \/ Outcome(j)' \in {"pending", "failed"}
    BY <2>2 DEF Outcome, Pending
  <2>5. phase[s] = "return" => Told(j)
    BY <1>3 DEF RunsTold
  <2>6. Unnoticed(j) \/ Promise!Settle(j)
    BY <1>2, <1>3, <2>3, <2>4, <2>5, PromiseSteps DEF Unnoticed
  <2> QED
    BY <1>3, <2>3, <2>6, PromiseSteps DEF Promise!PromiseNext
<1> QED
  BY <1>4, <1>5

\* A run saves at most one row, within the budget of its job.
LEMMA InsertPromised ==
  ASSUME PipelineInv, NEW s \in Slots, Insert(s)
  PROVE  Promise!PromiseNext
<1> USE DEF PipelineInv, QInv
<1> DEFINE row == NewRow(s)
<1>0. PICK j \in Jobs : j = running[s]
  BY InsertedRow
<1>1. /\ j # NoJob /\ Len(ledger) \in Nat
      /\ Rows = 1 .. Len(ledger) /\ Rows' = 1 .. Len(ledger) + 1
      /\ \A i \in Rows : ledger'[i] = ledger[i]
      /\ ledger'[Len(ledger) + 1] = row
  BY InsertedRow, QueueAssumption
<1>2. row.job = j /\ row.attempt = attempt[s] /\ ~row.announced
  BY <1>0 DEF NewRow, Row
<1>3. UNCHANGED <<jobState, skipped>>
  BY DEF Insert, queueVars
<1> HIDE DEF row
<1>4. \A i : /\ Told(i)' = Told(i)
             /\ SavedBy(i)' = IF j = i THEN SavedBy(i) \union {attempt[s]}
                              ELSE SavedBy(i)
  BY <1>1, <1>2, <1>3, LedgerGrown
<1>5. attempt[s] \notin SavedBy(j)
  BY <1>0, <1>1 DEF SavedBy, RowsNumbered, FromRun, Insert
<1>6. \A i \in Jobs : Outcome(i)' = Outcome(i)
  BY <1>3, OutcomeKept
<1>7. Outcome(j) # "unknown" /\ attempt[s] \in 1 .. Attempts + MaxStalled
  BY <1>0, <1>1, RunningJob
<1>8. \A i \in Jobs : i # j => Unnoticed(i)
  BY <1>4, <1>6 DEF Unnoticed
<1>9. Promise!Save(j, attempt[s])
  BY <1>1, <1>4, <1>5, <1>6, <1>7, <1>8, PromiseSteps
<1> QED
  BY <1>1, <1>7, <1>9 DEF Promise!PromiseNext

\* What a run announces, or finds unreadable, is told of its own job.
LEMMA TellPromised ==
  ASSUME PipelineInv, NEW s \in Slots, Announce(s) \/ AskLlm(s)
  PROVE  [Promise!PromiseNext]_(Promise!promiseVars)
<1> USE DEF PipelineInv, QInv
<1>0. PICK j \in Jobs : j = running[s] /\ Outcome(j) # "unknown"
  <2>1. phase[s] # "idle"
    BY DEF Announce, AskLlm
  <2> QED
    BY <2>1, RunningJob DEF BusyRuns
<1>1. UNCHANGED jobState
  BY DEF Announce, AskLlm, queueVars
<1>2. \A i \in Jobs : Outcome(i)' = Outcome(i)
  BY <1>1, OutcomeKept
<1>4. SUFFICES ASSUME UNCHANGED <<skipped, ledger>> \/
                       \A i : /\ SavedBy(i)' = SavedBy(i)
                              /\ i # j => Told(i)' = Told(i)
                              /\ Told(j)'
               PROVE  [Promise!PromiseNext]_(Promise!promiseVars)
  <2>1. CASE Announce(s)
    <3>1. /\ Rows' = Rows /\ created[s] \in Rows
          /\ \A i \in Rows : Kept(i)
          /\ ledger'[created[s]].announced
      BY <2>1, AnnouncedRow
    <3>2. ledger[created[s]].job = j
      BY <1>0, <2>1 DEF Announce, RunsTold
    <3>3. \A i \in Rows : i # created[s] => ledger'[i] = ledger[i]
      BY <2>1 DEF Announce, Rows
    <3>4. UNCHANGED skipped
      BY <2>1 DEF Announce
    <3>5. \A i : SavedBy(i)' = SavedBy(i)
      BY <3>1 DEF SavedBy, Kept
    <3>6. \A i : i # j => Told(i)' = Told(i)
      BY <3>1, <3>2, <3>3, <3>4 DEF Told, Kept
    <3>7. Told(j)'
      BY <3>1, <3>2 DEF Told, Kept
    <3> QED
      BY <3>5, <3>6, <3>7
  <2>2. CASE AskLlm(s) /\ skipped' = skipped \union {<<j, attempt[s]>>}
    <3>1. ledger' = ledger /\ Rows' = Rows
      BY <2>2 DEF AskLlm, Rows
    <3>2. \A i : SavedBy(i)' = SavedBy(i)
      BY <3>1 DEF SavedBy
    <3>3. \A i : i # j => Told(i)' = Told(i)
      BY <2>2, <3>1 DEF Told
    <3>4. <<j, attempt[s]>> \in skipped' /\ <<j, attempt[s]>>[1] = j
      BY <2>2
    <3>5. Told(j)'
      BY <3>4 DEF Told
    <3> QED
      BY <3>2, <3>3, <3>5
  <2>3. CASE AskLlm(s) /\ UNCHANGED skipped
    BY <2>3 DEF AskLlm
  <2> QED
    BY <1>0, <2>1, <2>2, <2>3 DEF AskLlm
<1>5. CASE UNCHANGED <<skipped, ledger>>
  BY <1>1, <1>5, QuietRunPromised
<1>6. CASE \A i : /\ SavedBy(i)' = SavedBy(i)
                  /\ i # j => Told(i)' = Told(i)
                  /\ Told(j)'
  <2>1. \A i \in Jobs : i # j => Unnoticed(i)
    BY <1>2, <1>6 DEF Unnoticed
  <2>2. Promise!Tell(j)
    BY <1>0, <1>2, <1>6, <2>1, PromiseSteps
  <2> QED
    BY <2>2 DEF Promise!PromiseNext
<1> QED
  BY <1>4, <1>5, <1>6

\* Every step of the pipeline is a step of the promise, or does not show.
LEMMA StepPromised ==
  ASSUME PipelineInv, PipelineNext
  PROVE  [Promise!PromiseNext]_(Promise!promiseVars)
<1>1. ASSUME NEW s \in Slots, NEW i \in Jobs, Start(s, i)
      PROVE  UNCHANGED Promise!promiseVars
  <2>1. UNCHANGED <<skipped, ledger>> /\ Rows' = Rows
    BY <1>1 DEF Start, dataVars, Rows
  <2>2. /\ jobState[i] = "wait" /\ jobState'[i] = "active"
        /\ \A j \in Jobs : j # i => jobState'[j] = jobState[j]
    BY <1>1 DEF Start, Claim, PipelineInv, QInv, QTypeOK
  <2>3. Outcome(i)' = Outcome(i)
    BY <2>2 DEF Outcome, Pending
  <2>4. \A j \in Jobs : Unnoticed(j)
    BY <2>1, <2>2, <2>3, LedgerKept, OutcomeKept DEF Unnoticed
  <2> QED
    BY <2>4 DEF Promise!promiseVars, Unnoticed
<1>2. ASSUME NEW s \in Slots, RunStep(s)
      PROVE  [Promise!PromiseNext]_(Promise!promiseVars)
  <2>1. CASE ReadText(s) \/ FindDuplicate(s)
    BY <2>1, QuietRunPromised DEF ReadText, FindDuplicate, queueVars, dataVars
  <2> QED
    BY <1>2, <2>1, TellPromised, InsertPromised, EndPromised DEF RunStep
<1>3. ASSUME NEW r \in Typed, NEW flag \in BOOLEAN, Post(r, flag)
      PROVE  UNCHANGED Promise!promiseVars
  <2> DEFINE row == Row(NoJob, 0, NoSlot, r, flag)
  <2>1. /\ Len(ledger) \in Nat
        /\ Rows = 1 .. Len(ledger) /\ Rows' = 1 .. Len(ledger) + 1
        /\ \A i \in Rows : ledger'[i] = ledger[i]
        /\ ledger'[Len(ledger) + 1] = row
    BY <1>3, PostedRow DEF PipelineInv
  <2>2. row.job = NoJob /\ ~row.announced
    BY DEF Row
  <2>3. UNCHANGED <<jobState, skipped>>
    BY <1>3 DEF Post, queueVars
  <2> HIDE DEF row
  <2>4. \A j \in Jobs : Unnoticed(j)
    BY <2>1, <2>2, <2>3, LedgerGrown, OutcomeKept, QueueAssumption DEF Unnoticed
  <2> QED
    BY <2>4 DEF Promise!promiseVars, Unnoticed
<1>4. ASSUME NEW n \in Rows, NEW r \in Typed, Patch(n, KeyOf(r))
      PROVE  UNCHANGED Promise!promiseVars
  <2>1. /\ Rows' = Rows
        /\ \A i \in Rows : Kept(i) /\ ledger'[i].announced = ledger[i].announced
    BY <1>4, PatchedRow DEF PipelineInv
  <2>2. UNCHANGED <<jobState, skipped>>
    BY <1>4 DEF Patch, queueVars
  <2>3. \A j \in Jobs : Unnoticed(j)
    BY <2>1, <2>2, LedgerKept, OutcomeKept DEF Unnoticed, Kept
  <2> QED
    BY <2>3 DEF Promise!promiseVars, Unnoticed
<1>5. CASE CrashAll
  BY <1>5, QuietRunPromised DEF CrashAll, Crash, dataVars
<1> QED
  BY <1>1, <1>2, <1>3, <1>4, <1>5, QueueStepPromised DEF PipelineNext, Rows

\* Refinement: whatever fails, and however runs, retries and clients
\* interleave, what the sender of a photo can see is what ReceiptPromise says.
THEOREM PipelineKeepsPromise == PipelineSafeSpec => KeepsPromise
<1>1. PipelineInit => Promise!PromiseInit
  <2> SUFFICES ASSUME PipelineInit PROVE Promise!PromiseInit
    OBVIOUS
  <2>1. Rows = {} /\ skipped = {}
    BY DEF PipelineInit, Rows
  <2>2. ASSUME NEW j \in Jobs PROVE Outcome(j) = "unknown"
    BY DEF PipelineInit, QInit, Outcome, Pending
  <2>3. ASSUME NEW j \in Jobs PROVE SavedBy(j) = {}
    BY <2>1 DEF SavedBy
  <2>4. ASSUME NEW j \in Jobs PROVE Told(j) = FALSE
    BY <2>1 DEF Told
  <2> QED
    BY <2>2, <2>3, <2>4 DEF Promise!PromiseInit
<1>2. PipelineInv /\ [PipelineNext]_vars => [Promise!PromiseNext]_(Promise!promiseVars)
  <2>1. UNCHANGED vars /\ PipelineInv => UNCHANGED Promise!promiseVars
    BY QuietRunPromised DEF vars, queueVars, dataVars
  <2> QED
    BY <2>1, StepPromised
<1> QED
  BY <1>1, <1>2, PipelineInvariant, PTL
  DEF PipelineSafeSpec, KeepsPromise, Promise!PromiseSafeSpec

-----------------------------------------------------------------------------
(* The rows of a job agree in what the regular expressions have read.      *)

\* Slot t stays before its look-up.
WaitsToLook(t) ==
  /\ phase[t] = "findDuplicate"
  /\ parsed'[t] = parsed[t]
  /\ running'[t] = running[t]

\* A run about to look up has just been given its reading, or had it before.
LEMMA LookingRuns ==
  ASSUME PipelineInv, PipelineNext, NEW t \in Slots, phase'[t] = "findDuplicate"
  PROVE  ReadText(t) \/ AskLlm(t) \/ WaitsToLook(t)
<1> DEFINE Goal == ReadText(t) \/ AskLlm(t) \/ WaitsToLook(t)
<1> USE DEF WaitsToLook, PipelineTypeOK, QTypeOK, PipelineInv, QInv
<1>1. ASSUME NEW s \in Slots, NEW j \in Jobs, Start(s, j) PROVE Goal
  BY <1>1 DEF Start, Claim, BusyRuns
<1>2. ASSUME NEW s \in Slots, ReadText(s) \/ AskLlm(s) PROVE Goal
  <2>1. CASE s = t
    BY <1>2, <2>1
  <2>2. CASE s # t
    BY <1>2, <2>2 DEF ReadText, AskLlm, queueVars
  <2> QED
    BY <2>1, <2>2
<1>3. ASSUME NEW s \in Slots, FindDuplicate(s) \/ Insert(s) \/ Announce(s) PROVE Goal
  BY <1>3 DEF FindDuplicate, Insert, AfterInsert, Announce, queueVars
<1>4. ASSUME NEW s \in Slots, Resolve(s) \/ Throw(s) PROVE Goal
  <2>1. running' = [running EXCEPT ![s] = NoJob] /\ ClearRun(s)
    BY <1>4, EndOfRun
  <2> QED
    BY <2>1 DEF ClearRun
<1>5. ASSUME NEW r \in Typed, NEW flag \in BOOLEAN, Post(r, flag) PROVE Goal
  BY <1>5 DEF Post, queueVars, runVars
<1>6. ASSUME NEW n \in Rows, NEW r \in Typed, Patch(n, KeyOf(r)) PROVE Goal
  BY <1>6 DEF Patch, queueVars, runVars
<1>7. CASE CrashAll
  BY <1>7 DEF CrashAll
<1>8. CASE QueueStep
  BY <1>8, QuietQueue DEF runVars, QueueStep, dataVars
<1> QED
  BY ONLY PipelineNext, <1>1, <1>2, <1>3, <1>4, <1>5, <1>6, <1>7, <1>8
  DEF PipelineNext, RunStep, Rows

\* What a run is about to save keeps what the expressions have found.
LEMMA AgreeStep ==
  ASSUME PipelineInv, ReadFromText, PipelineNext
  PROVE  ReadFromText'
<1> USE DEF PipelineInv, QInv
<1>1. ASSUME NEW t \in Slots, phase'[t] \in {"findDuplicate", "insert"}
      PROVE  KeepsText(running'[t], parsed'[t].reading)
  <2>1. CASE ReadText(t) /\ phase'[t] = "findDuplicate"
    <3>1. parsed'[t] = Parsed(RegexRead[running[t]], "0.92") /\ running' = running
      BY <2>1 DEF ReadText, queueVars, PipelineTypeOK
    <3> QED
      BY <3>1 DEF Parsed, KeepsText
  <2>2. CASE AskLlm(t) /\ phase'[t] = "findDuplicate"
    <3>1. PICK answer \in LlmRead[running[t]] :
            parsed'[t] = Parsed(Merge(RegexRead[running[t]], answer), "0.78")
      BY <2>2 DEF AskLlm, PipelineTypeOK
    <3>2. running' = running
      BY <2>2 DEF AskLlm, queueVars
    <3> QED
      BY <3>1, <3>2 DEF Parsed, Merge, KeepsText
  <2>3. CASE FindDuplicate(t)
    BY <2>3 DEF FindDuplicate, queueVars, ReadFromText
  <2>4. CASE Waits(t) \/ WaitsToLook(t)
    BY <2>4 DEF Waits, WaitsToLook, ReadFromText
  <2> QED
    BY <1>1, <2>1, <2>2, <2>3, <2>4, LookingRuns, WaitingRuns
<1>2. ASSUME NEW i \in Rows', ledger'[i].job # NoJob
      PROVE  KeepsText(ledger'[i].job, ledger'[i].reading)
  <2>1. CASE i \in Rows
    <3>1. Kept(i)
      BY <2>1, RowsKept
    <3> QED
      BY <1>2, <2>1, <3>1 DEF Kept, ReadFromText, FromRun
  <2>2. CASE i \notin Rows
    <3>1. PICK s \in Slots : Insert(s) /\ ledger'[i] = NewRow(s)
      <4>1. ASSUME NEW r \in Typed, NEW flag \in BOOLEAN,
                   ledger'[i] = Row(NoJob, 0, NoSlot, r, flag)
            PROVE  FALSE
        BY <1>2, <4>1 DEF Row
      <4> QED
        BY <2>2, <4>1, NewRows
    <3>2. /\ ledger'[i].job = running[s]
          /\ ledger'[i].reading = parsed[s].reading
      BY <3>1 DEF NewRow, Row
    <3> QED
      BY <3>1, <3>2 DEF Insert, ReadFromText
  <2> QED
    BY <2>1, <2>2
<1> QED
  BY <1>1, <1>2 DEF ReadFromText, FromRun, KeepsText

\* Retries never contradict each other in what the expressions have read.
THEOREM RetriesDoAgree == PipelineSafeSpec => []RetriesAgree
<1>1. PipelineInit => ReadFromText
  <2>1. PipelineInit => Rows = {}
    BY DEF PipelineInit, Rows
  <2> QED
    BY <2>1 DEF PipelineInit, ReadFromText
<1>2. PipelineInv /\ ReadFromText /\ [PipelineNext]_vars => ReadFromText'
  <2>1. ReadFromText /\ UNCHANGED vars => ReadFromText'
    BY DEF vars, queueVars, runVars, dataVars, ReadFromText, KeepsText, FromRun, Rows
  <2> QED
    BY <2>1, AgreeStep
<1>3. ReadFromText => RetriesAgree
  BY DEF ReadFromText, KeepsText, RetriesAgree, FromRun
<1> QED
  BY <1>1, <1>2, <1>3, PipelineInvariant, PTL DEF PipelineSafeSpec

=============================================================================
