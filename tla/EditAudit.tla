------------------------------ MODULE EditAudit ------------------------------
(***************************************************************************)
(* PATCH /transactions/:id (TransactionsService.update) and the audit      *)
(* trail it keeps in "edit_logs".  The row is read before the database     *)
(* transaction begins, the log rows are written from that reading, and     *)
(* only the UPDATE waits for another request's lock on the row.  The       *)
(* database (PostgreSQL at its default isolation, READ COMMITTED) is       *)
(* external: uncommitted changes are seen by their own transaction only,   *)
(* and a transaction that fails or loses its connection leaves nothing.    *)
(***************************************************************************)
EXTENDS Naturals, Sequences

CONSTANTS
  Requests,   \* PATCH requests, each sent at most once
  Ids,        \* ids a request may name
  Target,     \* the id each request names
  PatchOf,    \* the body of each request: a function from some of the fields
  Original,   \* the rows of "transactions" at the start, by id
  Texts,      \* what a field can hold, as the text that readFieldValue gives
  Null,
  Canon,      \* the text of a field that was set to a text, once stored
  Epoch,      \* the text of new Date(null)
  NoRequest

EditFields ==
  {"amount", "transactionId", "timestamp", "bankName", "confidence", "imageUrl"}

\* Columns that may be null.
Nullable == {"imageUrl"}

RowsOfTable ==
  {row \in [EditFields -> Texts \union {Null}] :
     \A f \in EditFields \ Nullable : row[f] # Null}

ASSUME AuditAssumption ==
  /\ Null \notin Texts
  /\ Epoch \in Texts
  /\ Canon \in [Texts -> Texts]
  /\ \A x \in Texts : Canon[Canon[x]] = Canon[x]
  /\ Target \in [Requests -> Ids]
  /\ DOMAIN PatchOf = Requests
  /\ \A r \in Requests :
       \E F \in SUBSET EditFields : PatchOf[r] \in [F -> Texts \union {Null}]
  /\ DOMAIN Original \subseteq Ids
  /\ Original \in [DOMAIN Original -> RowsOfTable]
  /\ Canon[Epoch] = Epoch
  /\ \A i \in DOMAIN Original : \A f \in EditFields :
       Original[i][f] # Null => Canon[Original[i][f]] = Original[i][f]
  /\ NoRequest \notin Requests

VARIABLES
  table,      \* "transactions", committed
  log,        \* "edit_logs", committed
  phase,      \* where the handler of a request is
  existing,   \* its local variable "existing"
  left,       \* the fields its loop has still to go through
  pending,    \* the log rows of its open database transaction
  rowLock,    \* the request whose open transaction has updated a row
  draft,      \* the row as that transaction has left it
  commits,    \* the requests that have committed, in that order (history)
  overtaken,  \* requests a field of which was set by another one's commit
              \* between their reading and their UPDATE (history)
  process

auditVars == <<table, log, phase, existing, left, pending, rowLock, draft,
               commits, overtaken, process>>

Known == DOMAIN Original

Nothing == [f \in {} |-> Null]

AuditInit ==
  /\ table = Original
  /\ log = {}
  /\ phase = [r \in Requests |-> "unsent"]
  /\ existing = [r \in Requests |-> Nothing]
  /\ left = [r \in Requests |-> {}]
  /\ pending = [r \in Requests |-> {}]
  /\ rowLock = [i \in Known |-> NoRequest]
  /\ draft = [i \in Known |-> Nothing]
  /\ commits = <<>>
  /\ overtaken = {}
  /\ process = "up"

-----------------------------------------------------------------------------
(* What is written.                                                        *)

\* prepareUpdatePayload and the column's type: the text a field has after it
\* was set.  toFixed(2) and the Date give a text another form; new Date(null)
\* is the epoch.
Stored(f, x) ==
  IF x # Null THEN Canon[x]
  ELSE IF f = "timestamp" THEN Epoch ELSE Null

\* null.toFixed throws; a null in a NOT NULL column is refused.
Storable(patch) ==
  \A f \in DOMAIN patch : patch[f] = Null => f \in Nullable \union {"timestamp"}

Entry(r, f, old, new) == [by |-> r, field |-> f, oldValue |-> old, newValue |-> new]

Unchanged_OrCleared(r, f) == PatchOf[r][f] \in {existing[r][f], Null}

\* "oldValue === newValue", text against text.
Unchanged(r, f) == existing[r][f] = PatchOf[r][f]

Written_WholeRow(r, row) ==
  [f \in EditFields |-> IF f \in DOMAIN PatchOf[r]
                        THEN Stored(f, PatchOf[r][f]) ELSE existing[r][f]]

\* The UPDATE sets the fields of the body in the row as it is by then.
Written(r, row) ==
  [f \in EditFields |-> IF f \in DOMAIN PatchOf[r]
                        THEN Stored(f, PatchOf[r][f]) ELSE row[f]]

-----------------------------------------------------------------------------
(* A request.                                                              *)

\* findOne, outside the database transaction: 404, or an answer at once when
\* there is nothing to set.
Read(r) ==
  LET i == Target[r] IN
  /\ process = "up"
  /\ phase[r] = "unsent"
  /\ \/ /\ i \notin Known
        /\ phase' = [phase EXCEPT ![r] = "failed"]
        /\ UNCHANGED <<existing, left>>
     \/ /\ i \in Known /\ DOMAIN PatchOf[r] = {}
        /\ phase' = [phase EXCEPT ![r] = "answered"]
        /\ UNCHANGED <<existing, left>>
     \/ /\ i \in Known /\ DOMAIN PatchOf[r] # {}
        /\ phase' = [phase EXCEPT ![r] = "log"]
        /\ existing' = [existing EXCEPT ![r] = table[i]]
        /\ left' = [left EXCEPT ![r] = DOMAIN PatchOf[r]]
  /\ UNCHANGED <<table, log, pending, rowLock, draft, commits, overtaken, process>>

\* One round of the loop; its order does not matter.
LogField(r) ==
  /\ phase[r] = "log"
  /\ \E f \in left[r] :
       /\ left' = [left EXCEPT ![r] = @ \ {f}]
       /\ pending' =
            IF Unchanged(r, f) THEN pending
            ELSE [pending EXCEPT ![r] = @ \union
                    {Entry(r, f, existing[r][f], PatchOf[r][f])}]
  /\ UNCHANGED <<table, log, phase, existing, rowLock, draft, commits,
                 overtaken, process>>

\* The UPDATE; it waits for the lock of a transaction that has updated the
\* row, and then finds what that one has committed.
Update(r) ==
  LET i == Target[r] IN
  /\ phase[r] = "log" /\ left[r] = {}
  /\ Storable(PatchOf[r])
  /\ rowLock[i] = NoRequest
  /\ rowLock' = [rowLock EXCEPT ![i] = r]
  /\ draft' = [draft EXCEPT ![i] = Written(r, table[i])]
  /\ phase' = [phase EXCEPT ![r] = "commit"]
  /\ UNCHANGED <<table, log, existing, left, pending, commits, overtaken, process>>

\* Requests that have read the row of r, have not updated it yet and are about
\* to set a field that r sets.
Overlapping(r) ==
  {s \in Requests \ {r} :
     /\ phase[s] = "log" /\ Target[s] = Target[r]
     /\ DOMAIN PatchOf[s] \intersect DOMAIN PatchOf[r] # {}}

\* The row is read again, found, and the transaction commits.  The answer may
\* still be lost: the client hears an error of a change that was made.
Commit(r) ==
  LET i == Target[r] IN
  /\ phase[r] = "commit"
  /\ table' = [table EXCEPT ![i] = draft[i]]
  /\ log' = log \union pending[r]
  /\ commits' = Append(commits, r)
  /\ overtaken' = overtaken \union Overlapping(r)
  /\ rowLock' = [rowLock EXCEPT ![i] = NoRequest]
  /\ draft' = [draft EXCEPT ![i] = Nothing]
  /\ \E outcome \in {"answered", "failed"} :
       phase' = [phase EXCEPT ![r] = outcome]
  /\ existing' = [existing EXCEPT ![r] = Nothing]
  /\ pending' = [pending EXCEPT ![r] = {}]
  /\ UNCHANGED <<left, process>>

Freed_KeepsLock(R) == rowLock

\* The row locks once the transactions of R are over.
Freed(R) ==
  [i \in Known |-> IF rowLock[i] \in R THEN NoRequest ELSE rowLock[i]]

Salvaged_LogSaved(R) == log \union UNION {pending[r] : r \in R}

\* What is left of the log rows of transactions that are rolled back.
Salvaged(R) == log

\* The transactions of the requests R end without a commit.
Abort(R) ==
  /\ phase' = [r \in Requests |-> IF r \in R THEN "failed" ELSE phase[r]]
  /\ existing' = [r \in Requests |-> IF r \in R THEN Nothing ELSE existing[r]]
  /\ left' = [r \in Requests |-> IF r \in R THEN {} ELSE left[r]]
  /\ pending' = [r \in Requests |-> IF r \in R THEN {} ELSE pending[r]]
  /\ rowLock' = Freed(R)
  /\ draft' = [i \in Known |-> IF rowLock[i] \in R THEN Nothing ELSE draft[i]]
  /\ log' = Salvaged(R)
  /\ UNCHANGED <<table, commits, overtaken>>

UnderWay == {r \in Requests : phase[r] \in {"log", "commit"}}

\* A statement fails or the connection breaks: the transaction is rolled back
\* and the request answered with 500.
Fail(r) ==
  /\ r \in UnderWay
  /\ Abort({r})
  /\ UNCHANGED process

\* So it is when prepareUpdatePayload throws, or the database refuses a null;
\* by then the log rows have been written.
Refuse(r) ==
  /\ phase[r] = "log" /\ left[r] = {}
  /\ ~Storable(PatchOf[r])
  /\ Abort({r})
  /\ UNCHANGED process

Crash ==
  /\ process = "up" /\ UnderWay # {}
  /\ process' = "down"
  /\ Abort(UnderWay)

Restart ==
  /\ process = "down"
  /\ process' = "up"
  /\ UNCHANGED <<table, log, phase, existing, left, pending, rowLock, draft,
                 commits, overtaken>>

Serve(r) == LogField(r) \/ Update(r) \/ Commit(r) \/ Refuse(r)

AuditNext ==
  \/ \E r \in Requests : Read(r) \/ Serve(r) \/ Fail(r)
  \/ Crash
  \/ Restart

AuditSafeSpec == AuditInit /\ [][AuditNext]_auditVars

\* A statement that need not wait for a lock is executed.  Nothing makes one
\* fail.
AuditSpec == AuditSafeSpec /\ \A r \in Requests : WF_auditVars(Serve(r))

-----------------------------------------------------------------------------
(* Properties.                                                             *)

Entries ==
  [by : Requests, field : EditFields, oldValue : Texts \union {Null},
   newValue : Texts \union {Null}]

\* The types of the audit's state; no required column is ever null, though a
\* body may carry null for any field.
AuditTypeOK ==
  /\ table \in [Known -> RowsOfTable]
  /\ log \subseteq Entries
  /\ phase \in [Requests -> {"unsent", "log", "commit", "answered", "failed"}]
  /\ DOMAIN existing = Requests
  /\ \A r \in Requests : phase[r] \in {"log", "commit"} =>
       Target[r] \in Known /\ existing[r] \in RowsOfTable
  /\ left \in [Requests -> SUBSET EditFields]
  /\ \A r \in Requests : left[r] \subseteq DOMAIN PatchOf[r]
  /\ pending \in [Requests -> SUBSET Entries]
  /\ rowLock \in [Known -> Requests \union {NoRequest}]
  /\ DOMAIN draft = Known
  /\ \A i \in Known : rowLock[i] # NoRequest => draft[i] \in RowsOfTable
  /\ commits \in Seq(Requests)
  /\ overtaken \subseteq Requests
  /\ process \in {"up", "down"}

\* The commits that have set field f of row i.
Setters(i, f) ==
  {n \in DOMAIN commits : Target[commits[n]] = i /\ f \in DOMAIN PatchOf[commits[n]]}

\* Concurrent edits of different fields do not undo each other, and of edits
\* of the same field the last commit wins, although every request works from
\* a reading that may be out of date: a row is what its commits have set.
LastCommitWins ==
  \A i \in Known : \A f \in EditFields :
    /\ Setters(i, f) = {} => table[i][f] = Original[i][f]
    /\ \A n \in Setters(i, f) : (\A m \in Setters(i, f) : m <= n) =>
         table[i][f] = Stored(f, PatchOf[commits[n]][f])

\* No log row without its change: a request that fails, is refused or crashes
\* after it has written log rows leaves none of them.
LoggedWithItsChange ==
  \A e \in log : \E n \in DOMAIN commits : commits[n] = e.by

Latest(N) == CHOOSE n \in N : \A m \in N : m <= n

\* What the trail tells of field f of row i after the first n commits.
Trail(n, i, f) ==
  {m \in 1 .. n : \E e \in log :
     e.by = commits[m] /\ e.field = f /\ Target[e.by] = i}

Told(n, i, f) ==
  IF Trail(n, i, f) = {} THEN Original[i][f]
  ELSE LET e == CHOOSE e \in log : e.by = commits[Latest(Trail(n, i, f))] /\ e.field = f
       IN Stored(f, e.newValue)

\* The trail can be replayed: as long as no committed request was overtaken
\* between its reading and its UPDATE, the log tells what every row holds now
\* and what each log row replaced.
TrailReplays ==
  (\A n \in DOMAIN commits : commits[n] \notin overtaken) =>
    /\ \A i \in Known : \A f \in EditFields :
         table[i][f] = Told(Len(commits), i, f)
    /\ \A n \in DOMAIN commits : \A e \in log : e.by = commits[n] =>
         e.oldValue = Told(n - 1, Target[e.by], e.field)

\* Requests that wait for each other's row locks and that fail while they
\* hold one all come to an end.
EditsEnd ==
  \A r \in Requests :
    (phase[r] = "log") ~> (phase[r] \in {"answered", "failed"})

-----------------------------------------------------------------------------
(* The inductive invariant behind LastCommitWins and LoggedWithItsChange.  *)

\* A row is locked by the request that is about to commit to it, and has
\* been updated from what is still its committed state.
LocksHeld ==
  /\ \A r \in Requests : phase[r] = "commit" => rowLock[Target[r]] = r
  /\ \A i \in Known : rowLock[i] # NoRequest =>
       LET r == rowLock[i] IN
       /\ phase[r] = "commit" /\ Target[r] = i
       /\ draft[i] = Written(r, table[i])

\* A request that has opened a database transaction will set what can be
\* stored, and its log rows are its own.
OwnEntries ==
  \A r \in Requests :
    /\ phase[r] = "commit" => Storable(PatchOf[r])
    /\ \A e \in pending[r] : e.by = r

AuditInv ==
  /\ AuditTypeOK /\ LocksHeld /\ OwnEntries
  /\ LastCommitWins /\ LoggedWithItsChange

-----------------------------------------------------------------------------
(* What TrailReplays rests on besides.                                     *)

\* What is in the table has the form in which it is stored.
StoredForm ==
  \A i \in Known : \A f \in EditFields :
    table[i][f] # Null => Canon[table[i][f]] = table[i][f]

\* A request commits once and then is over.
CommittedOnce ==
  \A n \in DOMAIN commits :
    /\ commits[n] \notin UnderWay /\ phase[commits[n]] # "unsent"
    /\ \A m \in DOMAIN commits : commits[m] = commits[n] => m = n

\* The log rows a request has written so far: one for each field of its body
\* that it has come to and found to differ.
PendingSoFar ==
  \A r \in Requests :
    /\ phase[r] = "commit" => left[r] = {}
    /\ r \in UnderWay =>
         pending[r] =
           {Entry(r, f, existing[r][f], PatchOf[r][f]) :
              f \in {g \in DOMAIN PatchOf[r] \ left[r] : ~Unchanged(r, g)}}
    /\ r \notin UnderWay => pending[r] = {}

\* A request that nobody overtook has read what it is about to replace.
ReadingIsCurrent ==
  \A r \in Requests \ overtaken : r \in UnderWay =>
    \A f \in DOMAIN PatchOf[r] : existing[r][f] = table[Target[r]][f]

\* A log row tells what its request's body said.
LoggedAsSent ==
  \A e \in log : e.field \in DOMAIN PatchOf[e.by] /\ e.newValue = PatchOf[e.by][e.field]

\* x is what the trail tells of field f of row i after the first n commits.
Tells(n, i, f, x) ==
  \/ Trail(n, i, f) = {} /\ x = Original[i][f]
  \/ \E m \in Trail(n, i, f) :
       /\ \A k \in Trail(n, i, f) : k <= m
       /\ x = Stored(f, PatchOf[commits[m]][f])

TrailIsRight ==
  (\A n \in DOMAIN commits : commits[n] \notin overtaken) =>
    /\ \A i \in Known : \A f \in EditFields :
         Tells(Len(commits), i, f, table[i][f])
    /\ \A n \in DOMAIN commits : \A e \in log : e.by = commits[n] =>
         Tells(n - 1, Target[e.by], e.field, e.oldValue)

TrailInv ==
  /\ StoredForm /\ CommittedOnce /\ PendingSoFar /\ ReadingIsCurrent
  /\ LoggedAsSent /\ TrailIsRight

=============================================================================
