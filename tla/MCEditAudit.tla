---------------------------- MODULE MCEditAudit ----------------------------
(* Instances of EditAudit for TLC.                                         *)
EXTENDS EditAudit, TLC

CONSTANTS r1, r2, r3, r4, r5, r6, row, other, t100, t100dot00, t50dot25, day0

\* The amount 100 is stored as 100.00; every other text keeps its form.
MCCanon ==
  [x \in {t100, t100dot00, t50dot25, day0} |-> IF x = t100 THEN t100dot00 ELSE x]

MCOriginal == [i \in {row} |-> [f \in EditFields |-> t50dot25]]

\* Two requests set the amount to 100, one of them with the bank; another one
\* sets it to what it was at first, clears the image and sends a null date; r4
\* sends a null amount, r5 nothing.
MCPatch ==
  [r \in Requests |->
     CASE r = r1 -> [f \in {"amount"} |-> t100]
       [] r = r2 -> [f \in {"amount", "imageUrl", "timestamp"} |->
                       IF f = "amount" THEN t50dot25 ELSE Null]
       [] r = r3 -> [f \in {"amount", "bankName"} |->
                       IF f = "amount" THEN t100 ELSE day0]
       [] r = r4 -> [f \in {"amount", "bankName"} |->
                       IF f = "amount" THEN Null ELSE day0]
       [] OTHER  -> [f \in {} |-> Null]]

\* r6 is for a row that is not there.
MCTarget == [r \in Requests |-> IF r = r6 THEN other ELSE row]

=============================================================================
