--------------------------- MODULE ReceiptPromise ---------------------------
(***************************************************************************)
(* What the pipeline promises to the sender of a photo, without queue,     *)
(* locks, slots or tables: an accepted photo is tried at most Budget       *)
(* times; each try may save a row and announce it, or find nothing to      *)
(* save; the photo is reported as completed only if one of the tries was   *)
(* announced or found nothing; and its outcome never changes, even though  *)
(* a try that was already written off may still save and announce.         *)
(***************************************************************************)
EXTENDS Naturals

CONSTANTS Photos, Budget

VARIABLES
  outcome,  \* what the queue says of a photo
  saved,    \* the tries of a photo that saved a row
  told      \* whether a try was announced or found nothing to save

promiseVars == <<outcome, saved, told>>

PromiseInit ==
  /\ outcome = [p \in Photos |-> "unknown"]
  /\ saved = [p \in Photos |-> {}]
  /\ told = [p \in Photos |-> FALSE]

Accept(p) ==
  /\ outcome[p] = "unknown"
  /\ outcome' = [outcome EXCEPT ![p] = "pending"]
  /\ UNCHANGED <<saved, told>>

Save(p, n) ==
  /\ outcome[p] # "unknown"
  /\ n \notin saved[p]
  /\ saved' = [saved EXCEPT ![p] = @ \union {n}]
  /\ UNCHANGED <<outcome, told>>

Tell(p) ==
  /\ outcome[p] # "unknown"
  /\ told' = [told EXCEPT ![p] = TRUE]
  /\ UNCHANGED <<outcome, saved>>

Settle(p) ==
  /\ outcome[p] = "pending"
  /\ \/ told[p] /\ outcome' = [outcome EXCEPT ![p] = "completed"]
     \/ outcome' = [outcome EXCEPT ![p] = "failed"]
  /\ UNCHANGED <<saved, told>>

PromiseNext ==
  \E p \in Photos :
    Accept(p) \/ Tell(p) \/ Settle(p) \/ \E n \in 1 .. Budget : Save(p, n)

PromiseSafeSpec == PromiseInit /\ [][PromiseNext]_promiseVars

PromiseSpec ==
  PromiseSafeSpec /\ \A p \in Photos : WF_promiseVars(Settle(p))

=============================================================================
