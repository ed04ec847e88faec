--------------------------- MODULE EditAuditProofs ---------------------------
(***************************************************************************)
(* The invariant AuditInv of EditAudit holds for any number of rows and of *)
(* concurrent requests, whatever their bodies: of concurrent edits the     *)
(* last commit wins field by field, and no log row is without its change.  *)
(***************************************************************************)
EXTENDS EditAudit, TLAPS

\* The fields of a body, and what they may hold.
LEMMA PatchType ==
  ASSUME NEW r \in Requests
  PROVE  /\ DOMAIN PatchOf[r] \subseteq EditFields
         /\ \A f \in DOMAIN PatchOf[r] : PatchOf[r][f] \in Texts \union {Null}
BY AuditAssumption

\* What can be stored is stored as a row of the table.
LEMMA WrittenType ==
  ASSUME NEW r \in Requests, NEW row \in RowsOfTable, Storable(PatchOf[r])
  PROVE  Written(r, row) \in RowsOfTable
<1>1. ASSUME NEW f \in DOMAIN PatchOf[r]
      PROVE  /\ Stored(f, PatchOf[r][f]) \in Texts \union {Null}
             /\ f \notin Nullable => Stored(f, PatchOf[r][f]) # Null
  BY <1>1, PatchType, AuditAssumption DEF Stored, Storable
<1> QED
  BY <1>1 DEF Written, RowsOfTable

LEMMA AuditInitInv ==
  ASSUME AuditInit
  PROVE  AuditInv
<1>1. commits \in Seq(Requests) /\ DOMAIN commits = {}
  BY DEF AuditInit
<1>2. AuditTypeOK
  BY <1>1, AuditAssumption DEF AuditInit, AuditTypeOK, Known
<1>3. LocksHeld /\ OwnEntries /\ LoggedWithItsChange
  BY DEF AuditInit, LocksHeld, OwnEntries, LoggedWithItsChange
<1>4. LastCommitWins
  BY <1>1 DEF AuditInit, LastCommitWins, Setters
<1> QED
  BY <1>2, <1>3, <1>4 DEF AuditInv

-----------------------------------------------------------------------------
(* The steps.                                                              *)

\* Steps that leave the committed state alone leave what is said of it alone.
LEMMA CommittedKept ==
  ASSUME LastCommitWins, LoggedWithItsChange, UNCHANGED <<table, log, commits>>
  PROVE  LastCommitWins' /\ LoggedWithItsChange'
BY DEF LastCommitWins, LoggedWithItsChange, Setters

LEMMA ReadStep ==
  ASSUME AuditInv, NEW r \in Requests, Read(r)
  PROVE  AuditInv'
<1> USE DEF AuditInv
<1>1. AuditTypeOK'
  BY PatchType DEF Read, AuditTypeOK
<1>2. LocksHeld'
  BY DEF Read, LocksHeld, AuditTypeOK, Written
<1>3. OwnEntries'
  BY DEF Read, OwnEntries, AuditTypeOK
<1> QED
  BY <1>1, <1>2, <1>3, CommittedKept DEF Read

LEMMA LogStep ==
  ASSUME AuditInv, NEW r \in Requests, LogField(r)
  PROVE  AuditInv'
<1> USE DEF AuditInv
<1>1. PICK f \in left[r] :
        /\ left' = [left EXCEPT ![r] = @ \ {f}]
        /\ pending' =
             IF Unchanged(r, f) THEN pending
             ELSE [pending EXCEPT ![r] = @ \union
                     {Entry(r, f, existing[r][f], PatchOf[r][f])}]
  BY DEF LogField
<1> DEFINE e == Entry(r, f, existing[r][f], PatchOf[r][f])
<1>2. e \in Entries /\ e.by = r
  <2>1. f \in DOMAIN PatchOf[r] /\ f \in EditFields
    BY <1>1 DEF AuditTypeOK
  <2>2. existing[r][f] \in Texts \union {Null}
    BY <2>1 DEF LogField, AuditTypeOK, RowsOfTable
  <2> QED
    BY <2>1, <2>2, PatchType DEF Entry, Entries
<1> HIDE DEF e
<1>3. AuditTypeOK'
  BY <1>1, <1>2 DEF LogField, AuditTypeOK, e
<1>4. LocksHeld'
  BY DEF LogField, LocksHeld, Written
<1>5. OwnEntries'
  BY <1>1, <1>2 DEF LogField, OwnEntries, AuditTypeOK, e
<1> QED
  BY <1>3, <1>4, <1>5, CommittedKept DEF LogField

LEMMA UpdateStep ==
  ASSUME AuditInv, NEW r \in Requests, Update(r)
  PROVE  AuditInv'
<1> USE AuditAssumption DEF AuditInv
<1> DEFINE i == Target[r]
<1>1. i \in Known /\ table[i] \in RowsOfTable
  BY DEF Update, AuditTypeOK
<1>2. Written(r, table[i]) \in RowsOfTable
  BY <1>1, WrittenType DEF Update
<1>3. AuditTypeOK'
  BY <1>1, <1>2 DEF Update, AuditTypeOK
<1>4. LocksHeld'
  <2>1. \A s \in Requests : phase'[s] = "commit" => rowLock'[Target[s]] = s
    BY <1>1 DEF Update, LocksHeld, AuditTypeOK
  <2>2. ASSUME NEW k \in Known, rowLock'[k] # NoRequest
        PROVE  /\ phase'[rowLock'[k]] = "commit" /\ Target[rowLock'[k]] = k
               /\ draft'[k] = Written(rowLock'[k], table'[k])
    <3>1. CASE k = i
      BY <1>1, <3>1 DEF Update, AuditTypeOK, Written
    <3>2. CASE k # i
      BY <1>1, <2>2, <3>2 DEF Update, LocksHeld, AuditTypeOK, Written
    <3> QED
      BY <3>1, <3>2
  <2> QED
    BY <2>1, <2>2 DEF LocksHeld, Written
<1>5. OwnEntries'
  BY DEF Update, OwnEntries, AuditTypeOK
<1> QED
  BY <1>3, <1>4, <1>5, CommittedKept DEF Update

\* The commit of r is the latest to set its fields, and no commit before it is
\* forgotten.
LEMMA CommitWins ==
  ASSUME AuditInv, NEW r \in Requests, Commit(r)
  PROVE  LastCommitWins'
<1> USE AuditAssumption DEF AuditInv
<1> DEFINE n == Len(commits) + 1
<1>1. /\ commits \in Seq(Requests) /\ commits' = Append(commits, r)
      /\ n \in Nat /\ commits'[n] = r
      /\ DOMAIN commits' = DOMAIN commits \union {n}
      /\ \A m \in DOMAIN commits : m \in Nat /\ m < n /\ commits'[m] = commits[m]
  BY DEF Commit, AuditTypeOK
<1>2. /\ Target[r] \in Known
      /\ table' = [table EXCEPT ![Target[r]] = Written(r, table[Target[r]])]
  <2>1. Target[r] \in Known /\ rowLock[Target[r]] = r /\ r # NoRequest
    BY DEF Commit, LocksHeld, AuditTypeOK
  <2>2. draft[Target[r]] = Written(r, table[Target[r]])
    BY <2>1 DEF LocksHeld
  <2> QED
    BY <2>1, <2>2 DEF Commit
<1> HIDE DEF n
<1> SUFFICES ASSUME NEW i \in Known, NEW f \in EditFields
             PROVE  /\ Setters(i, f)' = {} => table'[i][f] = Original[i][f]
                    /\ \A k \in Setters(i, f)' :
                         (\A m \in Setters(i, f)' : m <= k) =>
                           table'[i][f] = Stored(f, PatchOf[commits'[k]][f])
  BY DEF LastCommitWins, Stored
<1>3. CASE i = Target[r] /\ f \in DOMAIN PatchOf[r]
  <2>1. n \in Setters(i, f)' /\ \A k \in Setters(i, f)' : k = n \/ k < n
    BY <1>1, <1>3 DEF Setters
  <2>2. \A k \in Setters(i, f)' : k \in Nat /\ (n <= k => k = n)
    BY <1>1, <2>1 DEF Setters
  <2>3. table'[i][f] = Stored(f, PatchOf[r][f])
    BY <1>2, <1>3 DEF Written, AuditTypeOK
  <2> QED
    BY <1>1, <2>1, <2>2, <2>3
<1>4. CASE ~(i = Target[r] /\ f \in DOMAIN PatchOf[r])
  <2>1. /\ Setters(i, f)' = Setters(i, f)
        /\ \A k \in Setters(i, f) : commits'[k] = commits[k]
    BY <1>1, <1>4 DEF Setters
  <2>2. table'[i][f] = table[i][f]
    BY <1>2, <1>4 DEF Written, AuditTypeOK
  <2> QED
    BY <2>1, <2>2 DEF LastCommitWins
<1> QED
  BY <1>3, <1>4

LEMMA CommitStep ==
  ASSUME AuditInv, NEW r \in Requests, Commit(r)
  PROVE  AuditInv'
<1> USE AuditAssumption DEF AuditInv
<1> DEFINE i == Target[r]
<1>1. /\ i \in Known /\ rowLock[i] = r
      /\ draft[i] \in RowsOfTable
      /\ commits' \in Seq(Requests)
  BY DEF Commit, LocksHeld, AuditTypeOK
<1>2. AuditTypeOK'
  BY <1>1 DEF Commit, AuditTypeOK, Overlapping
<1>3. LocksHeld'
  <2>1. ASSUME NEW s \in Requests, phase'[s] = "commit"
        PROVE  rowLock'[Target[s]] = s
    BY <1>1, <2>1 DEF Commit, LocksHeld, AuditTypeOK
  <2>2. ASSUME NEW k \in Known, rowLock'[k] # NoRequest
        PROVE  /\ phase'[rowLock'[k]] = "commit" /\ Target[rowLock'[k]] = k
               /\ draft'[k] = Written(rowLock'[k], table'[k])
    <3>1. k # i /\ rowLock'[k] = rowLock[k] /\ rowLock[k] # r
      BY <1>1, <2>2 DEF Commit, LocksHeld, AuditTypeOK
    <3> QED
      BY <1>1, <2>2, <3>1 DEF Commit, LocksHeld, AuditTypeOK, Written
  <2> QED
    BY <2>1, <2>2 DEF LocksHeld, Written
<1>4. OwnEntries'
  BY DEF Commit, OwnEntries, AuditTypeOK
<1>5. LoggedWithItsChange'
  <2> SUFFICES ASSUME NEW e \in log' PROVE \E n \in DOMAIN commits' : commits'[n] = e.by
    BY DEF LoggedWithItsChange
  <2>1. /\ DOMAIN commits' = DOMAIN commits \union {Len(commits) + 1}
        /\ commits'[Len(commits) + 1] = r
        /\ \A n \in DOMAIN commits : commits'[n] = commits[n]
    BY DEF Commit, AuditTypeOK
  <2>2. CASE e \in log
    BY <2>1, <2>2 DEF LoggedWithItsChange
  <2>3. CASE e \in pending[r]
    BY <2>1, <2>3 DEF OwnEntries
  <2> QED
    BY <2>2, <2>3 DEF Commit
<1> QED
  BY <1>2, <1>3, <1>4, <1>5, CommitWins

\* Rolling back some requests' transactions keeps the other ones' locks.
LEMMA AbortStep ==
  ASSUME AuditInv, NEW R \in SUBSET Requests, Abort(R), process' \in {"up", "down"}
  PROVE  AuditInv'
<1> USE AuditAssumption DEF AuditInv
<1>1. AuditTypeOK'
  BY DEF Abort, Freed, Salvaged, AuditTypeOK
<1>2. LocksHeld'
  <2>1. ASSUME NEW s \in Requests, phase'[s] = "commit"
        PROVE  rowLock'[Target[s]] = s
    BY <2>1 DEF Abort, Freed, LocksHeld, AuditTypeOK
  <2>2. ASSUME NEW k \in Known, rowLock'[k] # NoRequest
        PROVE  /\ phase'[rowLock'[k]] = "commit" /\ Target[rowLock'[k]] = k
               /\ draft'[k] = Written(rowLock'[k], table'[k])
    <3>1. /\ rowLock'[k] = rowLock[k] /\ rowLock[k] \notin R
          /\ rowLock[k] \in Requests /\ draft'[k] = draft[k]
      BY <2>2 DEF Abort, Freed, AuditTypeOK
    <3> QED
      BY <2>2, <3>1 DEF Abort, LocksHeld, AuditTypeOK, Written
  <2> QED
    BY <2>1, <2>2 DEF LocksHeld, Written
<1>3. OwnEntries'
  BY DEF Abort, OwnEntries, AuditTypeOK
<1> QED
  BY <1>1, <1>2, <1>3, CommittedKept DEF Abort, Salvaged

LEMMA AuditInvStep ==
  ASSUME AuditInv, [AuditNext]_auditVars
  PROVE  AuditInv'
<1>1. ASSUME NEW r \in Requests, Fail(r) \/ Refuse(r) PROVE AuditInv'
  <2>1. Abort({r}) /\ process' = process
    BY <1>1 DEF Fail, Refuse
  <2>2. process' \in {"up", "down"} /\ {r} \in SUBSET Requests
    BY <2>1 DEF AuditInv, AuditTypeOK
  <2> QED
    BY <2>1, <2>2, AbortStep
<1>2. CASE Crash
  <2>1. UnderWay \in SUBSET Requests
    BY DEF UnderWay
  <2> QED
    BY <1>2, <2>1, AbortStep DEF Crash
<1>3. CASE Restart \/ UNCHANGED auditVars
  <2>1. UNCHANGED <<table, log, phase, existing, left, pending, rowLock, draft,
                    commits, overtaken>>
    BY <1>3 DEF Restart, auditVars
  <2>2. process' \in {"up", "down"}
    BY <1>3 DEF Restart, auditVars, AuditInv, AuditTypeOK
  <2>3. AuditTypeOK'
    BY <2>1, <2>2 DEF AuditInv, AuditTypeOK
  <2>4. LocksHeld' /\ OwnEntries'
    BY <2>1 DEF AuditInv, LocksHeld, OwnEntries, Written
  <2> QED
    BY <2>1, <2>3, <2>4, CommittedKept DEF AuditInv
<1> QED
  BY <1>1, <1>2, <1>3, ReadStep, LogStep, UpdateStep, CommitStep
  DEF AuditNext, Serve

\* The invariant of the audit, whatever fails.
THEOREM AuditInvariant == AuditSafeSpec => []AuditInv
<1>1. AuditInit => AuditInv
  BY AuditInitInv
<1>2. AuditInv /\ [AuditNext]_auditVars => AuditInv'
  BY AuditInvStep
<1> QED
  BY <1>1, <1>2, PTL DEF AuditSafeSpec

\* Of concurrent edits the last commit wins, field by field.
THEOREM EditsMerge == AuditSafeSpec => []LastCommitWins
<1>1. AuditInv => LastCommitWins
  BY DEF AuditInv
<1> QED
  BY <1>1, AuditInvariant, PTL

\* No log row is without its change.
THEOREM LogIsTransactional == AuditSafeSpec => []LoggedWithItsChange
<1>1. AuditInv => LoggedWithItsChange
  BY DEF AuditInv
<1> QED
  BY <1>1, AuditInvariant, PTL

-----------------------------------------------------------------------------
(* The trail can be replayed as long as nobody is overtaken.               *)

\* A committed row and a log row are what was stored, in its stored form.
LEMMA StoredOnce ==
  ASSUME NEW r \in Requests, NEW f \in DOMAIN PatchOf[r], Storable(PatchOf[r])
  PROVE  LET x == Stored(f, PatchOf[r][f]) IN x # Null => Canon[x] = x
BY PatchType, AuditAssumption DEF Stored, Storable

\* Steps that commit nothing leave what is said of the trail alone.
LEMMA TrailKept ==
  ASSUME TrailInv, UNCHANGED <<table, log, commits, overtaken>>
  PROVE  StoredForm' /\ LoggedAsSent' /\ TrailIsRight'
<1>1. StoredForm' /\ LoggedAsSent'
  BY DEF TrailInv, StoredForm, LoggedAsSent
<1>2. \A n, i, f : Trail(n, i, f)' = Trail(n, i, f)
  BY DEF Trail
<1>3. \A n, i, f, x : Tells(n, i, f, x) => Tells(n, i, f, x)'
  BY <1>2 DEF Tells, Stored
<1>4. SUFFICES ASSUME \A n \in DOMAIN commits : commits[n] \notin overtaken
               PROVE  /\ \A i \in Known : \A f \in EditFields :
                           Tells(Len(commits), i, f, table[i][f])'
                      /\ \A n \in DOMAIN commits : \A e \in log : e.by = commits[n] =>
                           Tells(n - 1, Target[e.by], e.field, e.oldValue)'
  BY <1>1 DEF TrailIsRight
<1>5. /\ \A i \in Known : \A f \in EditFields :
           Tells(Len(commits), i, f, table[i][f])
      /\ \A n \in DOMAIN commits : \A e \in log : e.by = commits[n] =>
           Tells(n - 1, Target[e.by], e.field, e.oldValue)
  BY <1>4 DEF TrailInv, TrailIsRight
<1> QED
  BY <1>3, <1>5

\* The trail is right before anything was logged.
LEMMA TrailInit ==
  ASSUME AuditInit
  PROVE  TrailInv
<1>1. DOMAIN commits = {} /\ Len(commits) = 0
  BY DEF AuditInit
<1>2. StoredForm
  BY AuditAssumption DEF AuditInit, StoredForm, Known
<1>3. CommittedOnce /\ LoggedAsSent
  BY <1>1 DEF AuditInit, CommittedOnce, LoggedAsSent
<1>4. PendingSoFar /\ ReadingIsCurrent
  BY DEF AuditInit, PendingSoFar, ReadingIsCurrent, UnderWay
<1>5. TrailIsRight
  BY <1>1 DEF AuditInit, TrailIsRight, Tells, Trail
<1> QED
  BY <1>2, <1>3, <1>4, <1>5 DEF TrailInv

\* A request that reads begins without log rows, from what is in the table.
LEMMA TrailRead ==
  ASSUME AuditInv, TrailInv, NEW r \in Requests, Read(r)
  PROVE  TrailInv'
<1> USE DEF AuditInv, AuditTypeOK, TrailInv
<1>1. /\ phase[r] = "unsent" /\ r \notin UnderWay /\ pending[r] = {}
      /\ UNCHANGED <<table, log, commits, overtaken, pending>>
      /\ \A s \in Requests \ {r} :
           /\ phase'[s] = phase[s] /\ existing'[s] = existing[s]
           /\ left'[s] = left[s]
  BY DEF Read, UnderWay, PendingSoFar
<1>2. \/ /\ phase'[r] = "log" /\ existing'[r] = table[Target[r]]
         /\ left'[r] = DOMAIN PatchOf[r]
      \/ phase'[r] \in {"answered", "failed"}
  BY DEF Read
<1>3. CommittedOnce'
  BY <1>1 DEF CommittedOnce, UnderWay
<1>4. PendingSoFar'
  <2> SUFFICES ASSUME NEW s \in Requests
               PROVE  /\ phase'[s] = "commit" => left'[s] = {}
                      /\ (s \in UnderWay)' =>
                           pending'[s] =
                             {Entry(s, f, existing'[s][f], PatchOf[s][f]) :
                                f \in {g \in DOMAIN PatchOf[s] \ left'[s] :
                                       ~(existing'[s][g] = PatchOf[s][g])}}
                      /\ (s \notin UnderWay)' => pending'[s] = {}
    BY DEF PendingSoFar, Entry, Unchanged
  <2>1. CASE s = r
    BY <1>1, <1>2, <2>1 DEF UnderWay
  <2>2. CASE s # r
    BY <1>1, <2>2 DEF UnderWay, PendingSoFar, Unchanged
  <2> QED
    BY <2>1, <2>2
<1>5. ReadingIsCurrent'
  BY <1>1, <1>2 DEF ReadingIsCurrent, UnderWay
<1> QED
  BY <1>1, <1>3, <1>4, <1>5, TrailKept

\* One round of the loop writes the log row of its field.
LEMMA TrailLog ==
  ASSUME AuditInv, TrailInv, NEW r \in Requests, LogField(r)
  PROVE  TrailInv'
<1> USE DEF AuditInv, AuditTypeOK, TrailInv
<1>1. PICK f \in left[r] :
        /\ left' = [left EXCEPT ![r] = @ \ {f}]
        /\ pending' =
             IF Unchanged(r, f) THEN pending
             ELSE [pending EXCEPT ![r] = @ \union
                     {Entry(r, f, existing[r][f], PatchOf[r][f])}]
  BY DEF LogField
<1>2. /\ phase[r] = "log" /\ f \in DOMAIN PatchOf[r]
      /\ UNCHANGED <<table, log, phase, existing, commits, overtaken>>
  BY <1>1 DEF LogField
<1>3. CommittedOnce' /\ ReadingIsCurrent'
  BY <1>2 DEF CommittedOnce, ReadingIsCurrent, UnderWay
<1>4. PendingSoFar'
  <2> SUFFICES ASSUME NEW s \in Requests
               PROVE  /\ phase[s] = "commit" => left'[s] = {}
                      /\ s \in UnderWay =>
                           pending'[s] =
                             {Entry(s, g, existing[s][g], PatchOf[s][g]) :
                                g \in {h \in DOMAIN PatchOf[s] \ left'[s] : ~Unchanged(s, h)}}
                      /\ s \notin UnderWay => pending'[s] = {}
    BY <1>2 DEF PendingSoFar, Entry, Unchanged, UnderWay
  <2>1. CASE s = r
    <3> DEFINE old == {h \in DOMAIN PatchOf[r] \ left[r] : ~Unchanged(r, h)}
               new == {h \in DOMAIN PatchOf[r] \ left'[r] : ~Unchanged(r, h)}
    <3>1. r \in UnderWay /\ left'[r] = left[r] \ {f}
      BY <1>1, <1>2 DEF UnderWay
    <3>2. pending[r] = {Entry(r, g, existing[r][g], PatchOf[r][g]) : g \in old}
      BY <3>1 DEF PendingSoFar
    <3>3. CASE Unchanged(r, f)
      <4>1. new = old
        BY <1>1, <1>2, <3>1, <3>3
      <4> QED
        BY <1>1, <1>2, <2>1, <3>1, <3>2, <3>3, <4>1
    <3>4. CASE ~Unchanged(r, f)
      <4>1. new = old \union {f}
        BY <1>1, <1>2, <3>1, <3>4
      <4>2. pending'[r] = pending[r] \union {Entry(r, f, existing[r][f], PatchOf[r][f])}
        BY <1>1, <3>4
      <4> HIDE DEF old, new
      <4>3. pending'[r] = {Entry(r, g, existing[r][g], PatchOf[r][g]) : g \in new}
        BY <3>2, <4>1, <4>2
      <4> QED
        BY <1>2, <2>1, <3>1, <4>3 DEF new
    <3> QED
      BY <3>3, <3>4
  <2>2. CASE s # r
    BY <1>1, <2>2 DEF PendingSoFar
  <2> QED
    BY <2>1, <2>2
<1> QED
  BY <1>2, <1>3, <1>4, TrailKept

\* Once the row is written the trail only waits for the commit.
LEMMA TrailUpdate ==
  ASSUME AuditInv, TrailInv, NEW r \in Requests, Update(r)
  PROVE  TrailInv'
<1> USE DEF AuditInv, AuditTypeOK, TrailInv
<1>1. /\ phase[r] = "log" /\ left[r] = {} /\ phase' = [phase EXCEPT ![r] = "commit"]
      /\ UNCHANGED <<table, log, existing, left, pending, commits, overtaken>>
  BY DEF Update
<1>2. UnderWay' = UnderWay
  BY <1>1 DEF UnderWay
<1>3. CommittedOnce' /\ ReadingIsCurrent'
  BY <1>1, <1>2 DEF CommittedOnce, ReadingIsCurrent, UnderWay
<1>4. PendingSoFar'
  BY <1>1, <1>2 DEF PendingSoFar, Entry, Unchanged
<1> QED
  BY <1>1, <1>3, <1>4, TrailKept

\* A rolled back request leaves no log row.
LEMMA TrailAbort ==
  ASSUME AuditInv, TrailInv, NEW R \in SUBSET UnderWay, Abort(R)
  PROVE  TrailInv'
<1> USE DEF AuditInv, AuditTypeOK, TrailInv
<1>1. UNCHANGED <<table, log, commits, overtaken>>
  BY DEF Abort, Salvaged
<1>2. UnderWay' = UnderWay \ R
  BY DEF Abort, UnderWay
<1>3. CommittedOnce' /\ ReadingIsCurrent'
  BY <1>1, <1>2 DEF Abort, CommittedOnce, ReadingIsCurrent, UnderWay
<1>4. PendingSoFar'
  BY <1>2 DEF Abort, PendingSoFar, Entry, Unchanged
<1> QED
  BY <1>1, <1>3, <1>4, TrailKept

\* What a commit does, and what the trail says before it.
LEMMA CommitFacts ==
  ASSUME AuditInv, TrailInv, NEW r \in Requests, Commit(r)
  PROVE  /\ commits \in Seq(Requests) /\ Len(commits) \in Nat
         /\ DOMAIN commits = 1 .. Len(commits)
         /\ DOMAIN commits' = 1 .. Len(commits) + 1
         /\ Len(commits') = Len(commits) + 1
         /\ commits'[Len(commits) + 1] = r
         /\ \A m \in 1 .. Len(commits) : commits'[m] = commits[m] /\ commits[m] # r
         /\ Target[r] \in Known /\ Storable(PatchOf[r])
         /\ table' = [table EXCEPT ![Target[r]] = Written(r, table[Target[r]])]
         /\ phase[r] = "commit" /\ r \in UnderWay
         /\ phase'[r] \in {"answered", "failed"}
         /\ \A s \in Requests \ {r} :
              /\ phase'[s] = phase[s] /\ existing'[s] = existing[s]
              /\ left'[s] = left[s] /\ pending'[s] = pending[s]
         /\ log' = log \union pending[r]
         /\ \A e \in pending[r] : e.by = r
         /\ \A e \in log : e.by # r
         /\ pending[r] = {Entry(r, f, existing[r][f], PatchOf[r][f]) :
                            f \in {g \in DOMAIN PatchOf[r] : ~Unchanged(r, g)}}
<1> USE AuditAssumption DEF AuditInv, AuditTypeOK, TrailInv
<1>1. /\ phase[r] = "commit" /\ r \in UnderWay /\ left[r] = {}
      /\ commits' = Append(commits, r)
  BY DEF Commit, UnderWay, PendingSoFar
<1>2. /\ commits \in Seq(Requests) /\ Len(commits) \in Nat
      /\ DOMAIN commits = 1 .. Len(commits)
      /\ DOMAIN commits' = 1 .. Len(commits) + 1
      /\ Len(commits') = Len(commits) + 1
      /\ commits'[Len(commits) + 1] = r
      /\ \A m \in 1 .. Len(commits) : commits'[m] = commits[m]
  BY <1>1
<1>3. \A m \in DOMAIN commits : commits[m] # r
  BY <1>1 DEF CommittedOnce
<1>4. \A e \in log : e.by # r
  BY <1>3 DEF LoggedWithItsChange
<1>5. Target[r] \in Known /\ rowLock[Target[r]] = r /\ r # NoRequest
  BY <1>1 DEF LocksHeld
<1>6. /\ draft[Target[r]] = Written(r, table[Target[r]])
      /\ Storable(PatchOf[r]) /\ \A e \in pending[r] : e.by = r
  BY <1>1, <1>5 DEF LocksHeld, OwnEntries
<1>7. table' = [table EXCEPT ![Target[r]] = Written(r, table[Target[r]])]
  BY <1>6 DEF Commit
<1>8. /\ phase'[r] \in {"answered", "failed"}
      /\ \A s \in Requests \ {r} :
           /\ phase'[s] = phase[s] /\ existing'[s] = existing[s]
           /\ left'[s] = left[s] /\ pending'[s] = pending[s]
      /\ log' = log \union pending[r]
  BY DEF Commit
<1>9. pending[r] = {Entry(r, f, existing[r][f], PatchOf[r][f]) :
                     f \in {g \in DOMAIN PatchOf[r] : ~Unchanged(r, g)}}
  <2>1. DOMAIN PatchOf[r] \ left[r] = DOMAIN PatchOf[r]
    BY <1>1
  <2> QED
    BY <1>1, <2>1 DEF PendingSoFar
<1> QED
  BY <1>1, <1>2, <1>3, <1>4, <1>5, <1>6, <1>7, <1>8, <1>9

\* Whoever has read fields that r sets is overtaken by its commit.
LEMMA CommitReadings ==
  ASSUME AuditInv, TrailInv, NEW r \in Requests, Commit(r)
  PROVE  ReadingIsCurrent'
<1> USE AuditAssumption DEF AuditInv, AuditTypeOK, TrailInv
<1> SUFFICES ASSUME NEW s \in Requests, s \notin overtaken', (s \in UnderWay)',
                    NEW f \in DOMAIN PatchOf[s]
             PROVE  existing'[s][f] = table'[Target[s]][f]
  BY DEF ReadingIsCurrent
<1>1. s # r /\ phase'[s] = phase[s] /\ existing'[s] = existing[s] /\ s \in UnderWay
  BY CommitFacts DEF UnderWay
<1>2. s \notin overtaken /\ s \notin Overlapping(r)
  BY DEF Commit
<1>3. Target[s] = Target[r] => f \notin DOMAIN PatchOf[r]
  <2>1. CASE phase[s] = "log"
    BY <1>1, <1>2, <2>1 DEF Overlapping
  <2>2. CASE phase[s] = "commit"
    BY <1>1, <2>2, CommitFacts DEF LocksHeld
  <2> QED
    BY <1>1, <2>1, <2>2 DEF UnderWay
<1>4. f \in EditFields /\ Target[s] \in Known
  BY <1>1, PatchType DEF UnderWay
<1>5. table'[Target[s]][f] = table[Target[s]][f]
  BY <1>3, <1>4, CommitFacts DEF Written
<1> QED
  BY <1>1, <1>2, <1>5 DEF ReadingIsCurrent

\* What was told of the earlier commits is still told of them.
LEMMA EarlierTrail ==
  ASSUME AuditInv, TrailInv, NEW r \in Requests, Commit(r),
         NEW m \in 0 .. Len(commits), NEW i, NEW f
  PROVE  /\ Trail(m, i, f)' = Trail(m, i, f)
         /\ \A x : Tells(m, i, f, x) => Tells(m, i, f, x)'
<1>1. \A k \in 1 .. m : k \in 1 .. Len(commits)
  BY CommitFacts
<1>2. Trail(m, i, f)' = Trail(m, i, f)
  BY <1>1, CommitFacts DEF Trail
<1>3. \A k \in Trail(m, i, f) : commits'[k] = commits[k]
  BY <1>1, CommitFacts DEF Trail
<1> QED
  BY <1>2, <1>3 DEF Tells, Stored

\* A commit of a current reading writes the next entry of the trail.
LEMMA CommitTrail ==
  ASSUME AuditInv, TrailInv, NEW r \in Requests, Commit(r)
  PROVE  TrailIsRight'
<1> USE DEF AuditInv, TrailInv
<1>n. PICK n \in Nat : n = Len(commits) + 1
  BY CommitFacts
<1>1. /\ DOMAIN commits = 1 .. n - 1 /\ DOMAIN commits' = 1 .. n
      /\ Len(commits) = n - 1 /\ Len(commits') = n
      /\ n - 1 \in Nat /\ commits'[n] = r
      /\ \A m \in 1 .. n - 1 : commits'[m] = commits[m] /\ commits[m] # r
  BY <1>n, CommitFacts
<1>2. /\ Target[r] \in Known /\ table \in [Known -> RowsOfTable]
      /\ table' = [table EXCEPT ![Target[r]] = Written(r, table[Target[r]])]
  BY CommitFacts DEF AuditTypeOK
<1>3. /\ log' = log \union pending[r]
      /\ \A e \in pending[r] : e.by = r
      /\ \A e \in log : e.by # r
  BY CommitFacts
<1>4. pending[r] = {Entry(r, f, existing[r][f], PatchOf[r][f]) :
                     f \in {g \in DOMAIN PatchOf[r] : ~Unchanged(r, g)}}
  BY CommitFacts
<1>5. ASSUME NEW m \in 0 .. n - 1, NEW i, NEW f
      PROVE  /\ Trail(m, i, f)' = Trail(m, i, f)
             /\ \A x : Tells(m, i, f, x) => Tells(m, i, f, x)'
  BY <1>1, EarlierTrail
<1>6. SUFFICES ASSUME \A m \in 1 .. n : commits'[m] \notin overtaken'
               PROVE  /\ \A i \in Known : \A f \in EditFields :
                           Tells(Len(commits), i, f, table[i][f])'
                      /\ \A m \in 1 .. n : \A e \in log' : e.by = commits'[m] =>
                           Tells(m - 1, Target[e.by], e.field, e.oldValue)'
  BY <1>1 DEF TrailIsRight
<1>7. r \notin overtaken /\ \A m \in 1 .. n - 1 : commits[m] \notin overtaken
  <2>1. overtaken \subseteq overtaken'
    BY DEF Commit
  <2> QED
    BY <1>1, <1>6, <2>1
<1>8. /\ \A i \in Known : \A f \in EditFields : Tells(n - 1, i, f, table[i][f])
      /\ \A m \in 1 .. n - 1 : \A e \in log : e.by = commits[m] =>
           Tells(m - 1, Target[e.by], e.field, e.oldValue)
  BY <1>1, <1>7 DEF TrailIsRight
<1>9. \A f \in DOMAIN PatchOf[r] : existing[r][f] = table[Target[r]][f]
  BY <1>7, CommitFacts DEF ReadingIsCurrent
<1>10. ASSUME NEW m \in 1 .. n, NEW e \in log', e.by = commits'[m]
       PROVE  Tells(m - 1, Target[e.by], e.field, e.oldValue)'
  <2>1. CASE e \in log
    <3>1. m \in 1 .. n - 1 /\ m - 1 \in 0 .. n - 1
      BY <1>1, <1>3, <1>10, <2>1
    <3>2. Tells(m - 1, Target[e.by], e.field, e.oldValue)
      BY <1>1, <1>8, <1>10, <2>1, <3>1
    <3> QED
      BY <1>5, <3>1, <3>2
  <2>2. CASE e \in pending[r]
    <3>1. PICK f \in DOMAIN PatchOf[r] : e = Entry(r, f, existing[r][f], PatchOf[r][f])
      BY <1>4, <2>2
    <3>2. m = n /\ n - 1 \in 0 .. n - 1
      BY <1>1, <1>3, <1>10, <2>2
    <3>3. e.field = f /\ e.by = r /\ e.oldValue = table[Target[r]][f]
      BY <1>9, <3>1 DEF Entry
    <3>4. Tells(m - 1, Target[e.by], e.field, e.oldValue)
      BY <1>2, <1>8, <3>2, <3>3, PatchType
    <3> QED
      BY <1>5, <3>2, <3>4
  <2> QED
    BY <1>3, <1>10, <2>1, <2>2
<1>11. ASSUME NEW i \in Known, NEW f \in EditFields, NEW x, x = table'[i][f]
       PROVE  Tells(n, i, f, x)'
  <2>1. CASE i = Target[r] /\ f \in DOMAIN PatchOf[r] /\ ~Unchanged(r, f)
    <3>1. PICK e \in log' : e.by = r /\ e.field = f
      <4>1. Entry(r, f, existing[r][f], PatchOf[r][f]) \in log'
        BY <1>3, <1>4, <2>1
      <4> QED
        BY <4>1 DEF Entry
    <3>2. n \in Trail(n, i, f)' /\ \A k \in Trail(n, i, f)' : k <= n
      BY <1>1, <2>1, <3>1 DEF Trail
    <3>3. x = Stored(f, PatchOf[r][f])
      BY <1>2, <1>11, <2>1 DEF Written, RowsOfTable
    <3> QED
      BY <1>1, <3>2, <3>3 DEF Tells, Stored
  <2>2. CASE ~(i = Target[r] /\ f \in DOMAIN PatchOf[r] /\ ~Unchanged(r, f))
    <3>1. \A e \in pending[r] : ~(e.field = f /\ Target[e.by] = i)
      BY <1>4, <2>2 DEF Entry
    <3>2. n \notin Trail(n, i, f)'
      BY <1>1, <1>3, <3>1 DEF Trail
    <3>3. Trail(n, i, f)' = Trail(n - 1, i, f)'
      BY <1>1, <3>2 DEF Trail
    <3>4. x = table[i][f]
      <4>1. CASE i = Target[r] /\ f \in DOMAIN PatchOf[r]
        <5>1. PatchOf[r][f] = table[i][f]
          BY <1>9, <2>2, <4>1 DEF Unchanged
        <5>2. x = Stored(f, PatchOf[r][f])
          BY <1>2, <1>11, <4>1 DEF Written, RowsOfTable
        <5>3. CASE table[i][f] = Null
          <6>1. f # "timestamp"
            BY <1>2, <5>3 DEF RowsOfTable, Nullable, EditFields
          <6> QED
            BY <5>1, <5>2, <5>3, <6>1 DEF Stored
        <5>4. CASE table[i][f] # Null
          BY <5>1, <5>2, <5>4 DEF Stored, StoredForm
        <5> QED
          BY <5>3, <5>4
      <4>2. CASE i = Target[r] /\ f \notin DOMAIN PatchOf[r]
        BY <1>2, <1>11, <4>2 DEF Written, RowsOfTable
      <4>3. CASE i # Target[r]
        BY <1>2, <1>11, <4>3
      <4> QED
        BY <4>1, <4>2, <4>3
    <3>5. Tells(n - 1, i, f, x)
      BY <1>8, <3>4
    <3>6. n - 1 \in 0 .. n - 1
      BY <1>1
    <3>7. Tells(n - 1, i, f, x)'
      BY <1>5, <3>5, <3>6
    <3> QED
      BY <3>3, <3>7 DEF Tells
  <2> QED
    BY <2>1, <2>2
<1> QED
  BY <1>1, <1>10, <1>11

\* A commit stores texts in their stored form and ends its request.
LEMMA TrailCommit ==
  ASSUME AuditInv, TrailInv, NEW r \in Requests, Commit(r)
  PROVE  TrailInv'
<1> USE DEF TrailInv
<1>1. StoredForm'
  <2> SUFFICES ASSUME NEW i \in Known, NEW f \in EditFields, table'[i][f] # Null
               PROVE  Canon[table'[i][f]] = table'[i][f]
    BY DEF StoredForm
  <2>1. table \in [Known -> RowsOfTable]
    BY DEF AuditInv, AuditTypeOK
  <2>2. /\ table' = [table EXCEPT ![Target[r]] = Written(r, table[Target[r]])]
        /\ Storable(PatchOf[r]) /\ Target[r] \in Known
    BY CommitFacts
  <2>3. CASE i = Target[r] /\ f \in DOMAIN PatchOf[r]
    <3>1. table'[i][f] = Stored(f, PatchOf[r][f])
      BY <2>1, <2>2, <2>3 DEF Written, RowsOfTable
    <3> QED
      BY <2>2, <2>3, <3>1, StoredOnce
  <2>4. CASE ~(i = Target[r] /\ f \in DOMAIN PatchOf[r])
    <3>1. table'[i][f] = table[i][f]
      BY <2>1, <2>2, <2>4 DEF Written, RowsOfTable
    <3> QED
      BY <3>1 DEF StoredForm
  <2> QED
    BY <2>3, <2>4
<1>2. CommittedOnce'
  <2> SUFFICES ASSUME NEW n \in DOMAIN commits'
               PROVE  /\ phase'[commits'[n]] \in {"answered", "failed"}
                      /\ \A m \in DOMAIN commits' : commits'[m] = commits'[n] => m = n
    BY DEF CommittedOnce, UnderWay
  <2>1. \A m \in 1 .. Len(commits) :
          commits[m] \in Requests /\ phase[commits[m]] \in {"answered", "failed"}
    BY CommitFacts DEF CommittedOnce, UnderWay, AuditInv, AuditTypeOK
  <2>2. \A m \in 1 .. Len(commits) : phase'[commits'[m]] \in {"answered", "failed"}
    BY <2>1, CommitFacts
  <2>3. CASE n = Len(commits) + 1
    BY <2>3, CommitFacts
  <2>4. CASE n \in 1 .. Len(commits)
    BY <2>2, <2>4, CommitFacts DEF CommittedOnce
  <2> QED
    BY <2>3, <2>4, CommitFacts
<1>3. PendingSoFar'
  <2>1. pending'[r] = {} /\ (r \notin UnderWay)' /\ phase'[r] # "commit"
    BY CommitFacts DEF Commit, AuditInv, AuditTypeOK, UnderWay
  <2>2. ASSUME NEW s \in Requests \ {r}
        PROVE  /\ phase'[s] = phase[s] /\ existing'[s] = existing[s]
               /\ left'[s] = left[s] /\ pending'[s] = pending[s]
               /\ (s \in UnderWay)' <=> s \in UnderWay
    BY CommitFacts DEF UnderWay
  <2> QED
    BY <2>1, <2>2 DEF PendingSoFar, Unchanged, Entry
<1>4. LoggedAsSent'
  <2> SUFFICES ASSUME NEW e \in pending[r]
               PROVE  e.field \in DOMAIN PatchOf[e.by] /\ e.newValue = PatchOf[e.by][e.field]
    BY CommitFacts DEF LoggedAsSent
  <2>1. PICK f \in DOMAIN PatchOf[r] : e = Entry(r, f, existing[r][f], PatchOf[r][f])
    BY CommitFacts
  <2> QED
    BY <2>1 DEF Entry
<1> QED
  BY <1>1, <1>2, <1>3, <1>4, CommitReadings, CommitTrail

\* The trail stays right over every step.
LEMMA TrailStep ==
  ASSUME AuditInv, TrailInv, [AuditNext]_auditVars
  PROVE  TrailInv'
<1>1. ASSUME NEW r \in Requests, Fail(r) \/ Refuse(r) PROVE TrailInv'
  <2>1. Abort({r}) /\ {r} \in SUBSET UnderWay
    BY <1>1 DEF Fail, Refuse, UnderWay
  <2> QED
    BY <2>1, TrailAbort
<1>2. CASE Crash
  BY <1>2, TrailAbort DEF Crash
<1>3. CASE Restart \/ UNCHANGED auditVars
  <2>1. UNCHANGED <<table, log, phase, existing, left, pending, commits, overtaken>>
    BY <1>3 DEF Restart, auditVars
  <2>2. CommittedOnce' /\ PendingSoFar' /\ ReadingIsCurrent'
    BY <2>1 DEF TrailInv, CommittedOnce, PendingSoFar, ReadingIsCurrent, UnderWay,
                Unchanged, Entry
  <2> QED
    BY <2>1, <2>2, TrailKept DEF TrailInv
<1> QED
  BY <1>1, <1>2, <1>3, TrailRead, TrailLog, TrailUpdate, TrailCommit
  DEF AuditNext, Serve

\* What is told is what Told reads out of the log.
LEMMA ToldIs ==
  ASSUME AuditInv, TrailInv, NEW n \in 0 .. Len(commits), NEW i, NEW f, NEW x,
         Tells(n, i, f, x)
  PROVE  Told(n, i, f) = x
<1>1. CASE Trail(n, i, f) = {}
  BY <1>1 DEF Tells, Told
<1>2. CASE Trail(n, i, f) # {}
  <2> DEFINE last == Latest(Trail(n, i, f))
  <2>1. PICK m \in Trail(n, i, f) :
          /\ \A k \in Trail(n, i, f) : k <= m
          /\ x = Stored(f, PatchOf[commits[m]][f])
    BY <1>2 DEF Tells
  <2>2. last = m
    <3>1. last \in Trail(n, i, f) /\ \A k \in Trail(n, i, f) : k <= last
      BY <2>1 DEF Latest
    <3>2. Trail(n, i, f) \subseteq Nat
      BY DEF Trail
    <3>3. m <= last /\ last <= m /\ m \in Nat /\ last \in Nat
      BY <2>1, <3>1, <3>2
    <3> QED
      BY <3>3
  <2> HIDE DEF last
  <2> DEFINE e == CHOOSE e \in log : e.by = commits[last] /\ e.field = f
  <2>3. e \in log /\ e.by = commits[m] /\ e.field = f
    BY <2>1, <2>2 DEF Trail
  <2>4. e.newValue = PatchOf[commits[m]][f]
    BY <2>3 DEF TrailInv, LoggedAsSent
  <2>5. Told(n, i, f) = Stored(f, e.newValue)
    BY <1>2 DEF Told, last
  <2> QED
    BY <2>1, <2>4, <2>5
<1> QED
  BY <1>1, <1>2

\* As long as no committed request was overtaken, the log tells what every row
\* holds and what each of its entries replaced.
THEOREM TrailCanBeReplayed == AuditSafeSpec => []TrailReplays
<1>1. AuditInit => TrailInv
  BY TrailInit
<1>2. AuditInv /\ TrailInv /\ [AuditNext]_auditVars => TrailInv'
  BY TrailStep
<1>3. AuditInv /\ TrailInv => TrailReplays
  <2> SUFFICES ASSUME AuditInv, TrailInv,
                      \A n \in DOMAIN commits : commits[n] \notin overtaken
               PROVE  /\ \A i \in Known : \A f \in EditFields :
                           table[i][f] = Told(Len(commits), i, f)
                      /\ \A n \in DOMAIN commits : \A e \in log : e.by = commits[n] =>
                           e.oldValue = Told(n - 1, Target[e.by], e.field)
    BY DEF TrailReplays
  <2>1. Len(commits) \in Nat /\ DOMAIN commits = 1 .. Len(commits)
    BY DEF AuditInv, AuditTypeOK
  <2>2. \A n \in DOMAIN commits : n - 1 \in 0 .. Len(commits)
    BY <2>1
  <2>3. Len(commits) \in 0 .. Len(commits)
    BY <2>1
  <2>4. /\ \A i \in Known : \A f \in EditFields :
             Tells(Len(commits), i, f, table[i][f])
        /\ \A n \in DOMAIN commits : \A e \in log : e.by = commits[n] =>
             Tells(n - 1, Target[e.by], e.field, e.oldValue)
    BY DEF TrailInv, TrailIsRight
  <2> QED
    BY <2>2, <2>3, <2>4, ToldIs
<1> QED
  BY <1>1, <1>2, <1>3, AuditInvariant, PTL DEF AuditSafeSpec

=============================================================================
