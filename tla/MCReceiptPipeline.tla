-------------------------- MODULE MCReceiptPipeline --------------------------
(* Instances of ReceiptPipeline for TLC.                                   *)
EXTENDS ReceiptPipeline, TLC

CONSTANTS j1, j2, v1, v2

\* Every field of a reading is v1, apart from the timestamp.
Reading(timestamp) ==
  [f \in Fields |-> IF f = "timestamp" THEN timestamp ELSE v1]

AllOther == [f \in Fields |-> v2]

\* The photo of j1 is read completely.  That of j2 is the same receipt, but
\* its date is left to the LLM, which reads it right, wrong or not at all.
MCRegexRead == [j \in Jobs |-> IF j = j1 THEN Reading(v1) ELSE Reading(NoValue)]

MCLlmRead ==
  [j \in Jobs |-> IF j = j1 THEN {}
                  ELSE {Reading(v1), AllOther, Reading(NoValue)}]

\* The text of j1 is empty, and the LLM service refuses every request for it;
\* that of j2 lacks the date.
MCMixedRead ==
  [j \in Jobs |-> IF j = j1 THEN [f \in Fields |-> NoValue] ELSE Reading(NoValue)]

\* Clients type the receipt with the other date.
MCTyped == {Reading(v2)}

\* Nobody but the worker writes.
WorkerNext ==
  \/ \E s \in Slots, j \in Jobs : Start(s, j)
  \/ \E s \in Slots : RunStep(s)
  \/ CrashAll
  \/ QueueStep

MCLiveSpec == PipelineInit /\ [][WorkerNext]_vars /\ PipelineFairness

\* A lost lock and clients that write are looked at apart.
LockOrWriters == lostLocks = 0 \/ posts + edits = 0

MCSafeNext ==
  \/ WorkerNext /\ LockOrWriters'
  \/ \E r \in Typed, flag \in BOOLEAN : Post(r, flag) /\ LockOrWriters'
  \/ \E i \in DOMAIN ledger, r \in Typed : Patch(i, KeyOf(r)) /\ LockOrWriters'

MCSafeSpec == PipelineInit /\ [][MCSafeNext]_vars

SlotSymmetry == Permutations(Slots)

=============================================================================
