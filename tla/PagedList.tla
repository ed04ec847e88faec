------------------------------ MODULE PagedList ------------------------------
(***************************************************************************)
(* GET /transactions: a client walks through the pages of a list while the *)
(* pipeline inserts rows into it and PATCH requests move rows into the     *)
(* client's filter and out of it.  A page is an OFFSET into the rows that  *)
(* match, the youngest first; nothing orders rows of one createdAt.  The   *)
(* page and the total are two statements without a transaction.  Between   *)
(* the pages the client may ask for GET /transactions/summary or for the   *)
(* export, with the same filter and a statement each.                      *)
(***************************************************************************)
EXTENDS Integers, Sequences, FiniteSetsExt

CONSTANTS
  Rows,          \* rows that may ever be inserted
  AskedLimit,    \* limit of the client's query
  MaxPageLimit,  \* MAX_PAGE_LIMIT
  MaxEdits,      \* bound: edits of timestamps
  MaxReports     \* bound: summaries and exports

ASSUME ListAssumption ==
  /\ IsFiniteSet(Rows)
  /\ AskedLimit \in Nat \ {0}
  /\ MaxPageLimit \in Nat \ {0}
  /\ MaxEdits \in Nat
  /\ MaxReports \in Nat

VARIABLES
  inserting,  \* rows whose INSERT has begun and not committed
  visible,    \* rows that are committed
  createdAt,
  now,        \* the time of the last transaction that began
  inRange,    \* rows whose timestamp is within startDate and endDate
  edits,
  request,    \* what the client's request is at
  page,       \* the page asked for last
  items,      \* page -> rows on it
  total,      \* of the last answer
  report,     \* rows that the last summary counts and adds up, or the export lists
  reportPage, \* pages read before it
  reports,
  throughout, \* history: rows that were in the list during the whole walk
  arrivals,   \* history: pages after which a row came into the list
  left        \* history: a row has left the list during the walk

tableVars == <<inserting, visible, createdAt, now, inRange, edits>>
pageVars == <<request, page, items, total>>
reportVars == <<report, reportPage, reports>>
clientVars == <<pageVars, reportVars>>
historyVars == <<throughout, arrivals, left>>
listVars == <<tableVars, clientVars, historyVars>>

Listed == visible \cap inRange

ListInit ==
  /\ inserting = {}
  /\ visible = {}
  /\ createdAt = [r \in Rows |-> 0]
  /\ now = 0
  /\ inRange \in SUBSET Rows
  /\ edits = 0
  /\ request = "none"
  /\ page = 0
  /\ items = <<>>
  /\ total = 0
  /\ report = {}
  /\ reportPage = 0
  /\ reports = 0
  /\ throughout = {}
  /\ arrivals = {}
  /\ left = FALSE

-----------------------------------------------------------------------------
(* The table.                                                              *)

Arrives == arrivals' = arrivals \cup {page}

\* save() opens a transaction; the default of createdAt is its now().
BeginInsert(r) ==
  /\ r \notin inserting \cup visible
  /\ inserting' = inserting \cup {r}
  /\ now' \in {now, now + 1}
  /\ createdAt' = [createdAt EXCEPT ![r] = now']
  /\ UNCHANGED <<visible, inRange, edits, clientVars, historyVars>>

\* Transactions may commit in another order than they began.
CommitInsert(r) ==
  /\ r \in inserting
  /\ inserting' = inserting \ {r}
  /\ visible' = visible \cup {r}
  /\ IF r \in inRange THEN Arrives ELSE UNCHANGED arrivals
  /\ UNCHANGED <<createdAt, now, inRange, edits, clientVars, throughout, left>>

\* A PATCH of the timestamp.
MoveIn(r) ==
  /\ edits < MaxEdits
  /\ r \in visible \ inRange
  /\ edits' = edits + 1
  /\ inRange' = inRange \cup {r}
  /\ Arrives
  /\ UNCHANGED <<inserting, visible, createdAt, now, clientVars, throughout, left>>

MoveOut(r) ==
  /\ edits < MaxEdits
  /\ r \in Listed
  /\ edits' = edits + 1
  /\ inRange' = inRange \ {r}
  /\ throughout' = throughout \ {r}
  /\ left' = TRUE
  /\ UNCHANGED <<inserting, visible, createdAt, now, clientVars, arrivals>>

-----------------------------------------------------------------------------
(* findAll.                                                                *)

Smaller(a, b) == IF a <= b THEN a ELSE b

\* getEffectiveLimit
EffectiveLimit == Smaller(AskedLimit, MaxPageLimit)

\* Pages are counted from 1.
Skip_FromZero(p) == p * EffectiveLimit

\* A page as an offset.
Skip_Rows(p) == p - 1

Skip(p) == (p - 1) * EffectiveLimit

\* ORDER BY createdAt DESC
MayPrecede(q, r) == createdAt[q] >= createdAt[r]

\* What LIMIT n may return of a set.
FirstOf(S, n) ==
  {F \in kSubset(Smaller(n, Cardinality(S)), S) : \A q \in F, r \in S \ F : MayPrecede(q, r)}

\* The second statement counts the list as it is by now.
Counted == Cardinality(Listed)

\* The client asks on as long as the answer says that there is more.
More == page = 0 \/ page * EffectiveLimit < total

\* A page that is not full tells the total without a second statement, unless
\* it is empty.
TellsTotal(p, S) == Cardinality(S) \in 1..(EffectiveLimit - 1)

SelectItems ==
  /\ request = "none"
  /\ More
  /\ page' = page + 1
  /\ \E before \in FirstOf(Listed, Skip(page + 1)) :
       \E S \in FirstOf(Listed \ before, EffectiveLimit) :
         /\ items' = Append(items, S)
         /\ \/ request' = "counting" /\ UNCHANGED total
            \/ /\ TellsTotal(page + 1, S)
               /\ request' = "none"
               /\ total' = Skip(page + 1) + Cardinality(S)
  /\ throughout' = IF page = 0 THEN Listed ELSE throughout
  /\ left' = IF page = 0 THEN FALSE ELSE left
  /\ UNCHANGED <<tableVars, reportVars, arrivals>>

SelectCount ==
  /\ request = "counting"
  /\ request' = "none"
  /\ total' = Counted
  /\ UNCHANGED <<tableVars, reportVars, page, items, historyVars>>

-----------------------------------------------------------------------------
(* getSummary and export: neither skips nor stops.                         *)

\* The export is cut like a page.
Filtered_Page == CHOOSE S \in FirstOf(Listed, EffectiveLimit) : TRUE

Filtered == Listed

Report ==
  /\ request = "none"
  /\ reports < MaxReports
  /\ reports' = reports + 1
  /\ report' = Filtered
  /\ reportPage' = page
  /\ UNCHANGED <<tableVars, pageVars, historyVars>>

ListNext ==
  \/ \E r \in Rows : BeginInsert(r) \/ CommitInsert(r) \/ MoveIn(r) \/ MoveOut(r)
  \/ SelectItems
  \/ SelectCount
  \/ Report

ListSpec == ListInit /\ [][ListNext]_listVars

-----------------------------------------------------------------------------
(* Properties.                                                             *)

\* No page is longer than MAX_PAGE_LIMIT, whatever the client asks for, and a
\* page shows rows that are committed.
ListTypeOK ==
  /\ inserting \subseteq Rows /\ visible \subseteq Rows /\ inRange \subseteq Rows
  /\ inserting \cap visible = {}
  /\ createdAt \in [Rows -> 0..now]
  /\ edits \in 0..MaxEdits
  /\ request \in {"none", "counting"}
  /\ page = Len(items)
  /\ \A p \in 1..page : items[p] \subseteq visible /\ Cardinality(items[p]) <= MaxPageLimit
  /\ throughout \subseteq Listed
  /\ arrivals \subseteq 0..page

Unambiguous(r) == \A q \in (inserting \cup visible) \ {r} : createdAt[q] # createdAt[r]

WalkIsOver == request = "none" /\ ~More

\* A row that was in the list during the whole walk is on one of its pages,
\* though rows were inserted in front of it, before it and behind it: only a
\* row that leaves the list, or one of the same createdAt, can hide another.
NoRowMissed ==
  WalkIsOver /\ ~left =>
    \A r \in throughout : Unambiguous(r) => \E p \in 1..page : r \in items[p]

\* A client sees a row again only because a row came into the list after the
\* page where it saw it first.
RepeatsNeedArrivals ==
  \A p, q \in 1..page : p < q =>
    \A r \in items[p] \cap items[q] :
      Unambiguous(r) => \E k \in p..(q - 1) : k \in arrivals

ShownBy(p) == UNION {items[k] : k \in 1..p}

\* The numbers that a client has are never less than the rows that it has seen,
\* though each is another statement at another time: the total is counted after
\* the page was read, and what a summary adds up or an export lists contains
\* every row of the pages before it, unless rows have left meanwhile.
CountsCoverPages ==
  ~left =>
    /\ page # 0 /\ request = "none" /\ items[page] # {} =>
         total >= Skip(page) + Cardinality(items[page])
    /\ ShownBy(reportPage) \subseteq report

=============================================================================
