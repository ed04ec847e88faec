--------------------------- MODULE PagedListProofs ---------------------------
(***************************************************************************)
(* A client's walk through the pages, for every set of rows, page length   *)
(* and number of edits.  What decides is how many rows of the list are not *)
(* younger than a given one: its rank.  A row that stays in the list is    *)
(* shown when its rank falls into the page; ranks grow when rows come into *)
(* the list and shrink when they leave it.                                 *)
(***************************************************************************)
EXTENDS PagedList, FiniteSetTheorems, TLAPS

AtLeast(r) == {q \in Listed : createdAt[q] >= createdAt[r]}
RankOf(r) == Cardinality(AtLeast(r))
Shown(r) == \E p \in 1..page : r \in items[p]

ListTypes ==
  /\ ListTypeOK
  /\ now \in Nat
  /\ items \in Seq(SUBSET Rows)
  /\ total \in Nat
  /\ reports \in Nat

\* A row that has been there all along is shown, or the next pages reach it.
Ahead ==
  ~left => \A r \in throughout : Unambiguous(r) => Shown(r) \/ Skip(page + 1) < RankOf(r)

\* Without arrivals a row that was shown keeps its rank or rises.
Behind ==
  \A p \in 1..page :
    p..page \cap arrivals = {} =>
      \A r \in items[p] \cap Listed : Unambiguous(r) => RankOf(r) <= Skip(p + 1)

PagesListed ==
  ~left =>
    /\ \A p \in 1..page : items[p] \subseteq Listed
    /\ request = "counting" /\ items[page] # {} =>
         Skip(page) + Cardinality(items[page]) <= Cardinality(Listed)

ReportInv == reportPage \in 0..page /\ (request = "counting" => page # 0)

ListInv ==
  /\ ListTypes
  /\ Ahead /\ Behind /\ PagesListed /\ ReportInv
  /\ NoRowMissed /\ RepeatsNeedArrivals /\ CountsCoverPages

-----------------------------------------------------------------------------

LEMMA LimitType ==
  EffectiveLimit \in Nat \ {0} /\ EffectiveLimit <= MaxPageLimit
BY ListAssumption DEF EffectiveLimit, Smaller

LEMMA SkipType ==
  ASSUME NEW p \in Nat
  PROVE  /\ Skip(p + 1) \in Nat
         /\ Skip(p + 1) = p * EffectiveLimit
         /\ Skip(p + 2) = Skip(p + 1) + EffectiveLimit
<1> DEFINE L == EffectiveLimit
<1>1. L \in Nat
  BY LimitType
<1> HIDE DEF L
<1>2. p * L \in Nat /\ (p + 1 - 1) * L = p * L /\ (p + 2 - 1) * L = p * L + L
  BY <1>1
<1> QED BY <1>2 DEF Skip, L

LEMMA SkipGrows ==
  ASSUME NEW p \in Nat, NEW q \in Nat, p <= q
  PROVE  Skip(p + 1) <= Skip(q + 1)
<1> DEFINE L == EffectiveLimit
<1>1. L \in Nat
  BY LimitType
<1> HIDE DEF L
<1>2. PICK d \in Nat : q = p + d
  <2>1. q - p \in Nat /\ q = p + (q - p)
    OBVIOUS
  <2> QED BY <2>1
<1>3. d * L \in Nat /\ q * L = p * L + d * L
  BY <1>1, <1>2
<1>4. p * L <= q * L
  BY <1>1, <1>3
<1> QED BY <1>4, SkipType DEF L

\* What LIMIT returns.
LEMMA FirstOfFacts ==
  ASSUME NEW S, IsFiniteSet(S), NEW n \in Nat, NEW F \in FirstOf(S, n)
  PROVE  /\ F \subseteq S /\ IsFiniteSet(F)
         /\ Cardinality(F) \in Nat /\ Cardinality(S) \in Nat
         /\ Cardinality(F) <= n
         /\ Cardinality(F) = n \/ F = S
         /\ \A q \in F, r \in S \ F : createdAt[q] >= createdAt[r]
<1>1. /\ F \in SUBSET S /\ Cardinality(F) = Smaller(n, Cardinality(S))
      /\ \A q \in F, r \in S \ F : MayPrecede(q, r)
  BY DEF FirstOf, kSubset
<1>2. Cardinality(S) \in Nat
  BY FS_CardinalityType
<1>3. IsFiniteSet(F) /\ (Cardinality(S) = Cardinality(F) => S = F)
  BY <1>1, FS_Subset
<1>4. Cardinality(F) \in Nat
  BY <1>3, FS_CardinalityType
<1> QED BY <1>1, <1>2, <1>3, <1>4 DEF Smaller, MayPrecede

LEMMA ListedFinite ==
  ASSUME ListTypes
  PROVE  /\ Listed \subseteq Rows /\ IsFiniteSet(Listed)
         /\ \A r : AtLeast(r) \subseteq Listed /\ IsFiniteSet(AtLeast(r)) /\ RankOf(r) \in Nat
         /\ \A r \in Rows : createdAt[r] \in Nat
<1>1. Listed \subseteq Rows /\ IsFiniteSet(Listed)
  BY ListAssumption, FS_Subset DEF ListTypes, ListTypeOK, Listed
<1>2. ASSUME NEW r
      PROVE  AtLeast(r) \subseteq Listed /\ IsFiniteSet(AtLeast(r)) /\ RankOf(r) \in Nat
  <2>1. AtLeast(r) \subseteq Listed
    BY DEF AtLeast
  <2>2. IsFiniteSet(AtLeast(r))
    BY <1>1, <2>1, FS_Subset
  <2> QED BY <2>1, <2>2, FS_CardinalityType DEF RankOf
<1>3. \A r \in Rows : createdAt[r] \in Nat
  BY DEF ListTypes, ListTypeOK
<1> QED BY <1>1, <1>2, <1>3

RanksAreNumbers ==
  /\ IsFiniteSet(Listed)
  /\ \A r : IsFiniteSet(AtLeast(r)) /\ RankOf(r) \in Nat

LEMMA RankTypes == ListTypes => RanksAreNumbers
BY ListedFinite DEF RanksAreNumbers

\* After a step as well.
LEMMA RankTypesNext == ListTypes' => RanksAreNumbers'
BY RankTypes, PTL

\* Rank is monotone in the list.
LEMMA RankWithin ==
  ASSUME NEW S, IsFiniteSet(S), NEW T, T \subseteq S
  PROVE  Cardinality(T) <= Cardinality(S) /\ Cardinality(T) \in Nat /\ Cardinality(S) \in Nat
BY FS_Subset, FS_CardinalityType

-----------------------------------------------------------------------------
(* A page.                                                                 *)

LEMMA PageFacts ==
  ASSUME ListTypes, page \in Nat,
         NEW before \in FirstOf(Listed, Skip(page + 1)),
         NEW S \in FirstOf(Listed \ before, EffectiveLimit)
  PROVE  /\ S \subseteq Listed /\ Cardinality(S) \in Nat
         /\ Cardinality(S) <= EffectiveLimit
         /\ S # {} => Skip(page + 1) + Cardinality(S) <= Cardinality(Listed)
         /\ \A r \in S : Skip(page + 1) < RankOf(r)
         /\ \A r \in S : Unambiguous(r) => RankOf(r) <= Skip(page + 2)
         /\ \A r \in Listed :
              Unambiguous(r) /\ Skip(page + 1) < RankOf(r) =>
                r \in S \/ (Cardinality(S) = EffectiveLimit /\ Skip(page + 2) < RankOf(r))
<1> DEFINE n == Skip(page + 1)
           L == EffectiveLimit
<1>1. n \in Nat /\ L \in Nat /\ Skip(page + 2) = n + L
  BY SkipType, LimitType
<1>2. /\ IsFiniteSet(Listed) /\ Listed \subseteq Rows
      /\ \A r : AtLeast(r) \subseteq Listed /\ IsFiniteSet(AtLeast(r)) /\ RankOf(r) \in Nat
      /\ \A r \in Rows : createdAt[r] \in Nat
  BY ListedFinite
<1>3. /\ before \subseteq Listed /\ IsFiniteSet(before) /\ Cardinality(before) \in Nat
      /\ Cardinality(before) <= n /\ (Cardinality(before) = n \/ before = Listed)
      /\ \A q \in before, r \in Listed \ before : createdAt[q] >= createdAt[r]
  BY <1>1, <1>2, FirstOfFacts
<1>4. IsFiniteSet(Listed \ before)
  BY <1>2, FS_Subset
<1>5. /\ S \subseteq Listed \ before /\ IsFiniteSet(S) /\ Cardinality(S) \in Nat
      /\ Cardinality(S) <= L /\ (Cardinality(S) = L \/ S = Listed \ before)
      /\ \A q \in S, r \in (Listed \ before) \ S : createdAt[q] >= createdAt[r]
  BY <1>1, <1>4, FirstOfFacts
<1> HIDE DEF n, L
<1>6. IsFiniteSet(before \cup S) /\ Cardinality(before \cup S) = Cardinality(before) + Cardinality(S)
  <2>1. before \cap S = {}
    BY <1>5
  <2>2. /\ IsFiniteSet(before \cup S)
        /\ Cardinality(before \cup S)
             = Cardinality(before) + Cardinality(S) - Cardinality(before \cap S)
    BY <1>3, <1>5, FS_Union
  <2> QED BY <1>3, <1>5, <2>1, <2>2, FS_EmptySet
<1>7. S # {} => n + Cardinality(S) <= Cardinality(Listed)
  <2> SUFFICES ASSUME S # {} PROVE n + Cardinality(S) <= Cardinality(Listed)
    OBVIOUS
  <2>1. Cardinality(before) = n
    BY <1>3, <1>5
  <2>2. before \cup S \subseteq Listed
    BY <1>3, <1>5
  <2> QED BY <1>2, <1>6, <2>1, <2>2, RankWithin
<1>8. ASSUME NEW r \in S
      PROVE  n < RankOf(r)
  <2>1. Cardinality(before) = n
    BY <1>3, <1>5
  <2>2. before \cup {r} \subseteq AtLeast(r)
    BY <1>2, <1>3, <1>5 DEF AtLeast
  <2>3. Cardinality(before \cup {r}) = n + 1
    BY <1>3, <1>5, <2>1, FS_AddElement
  <2>4. n + 1 <= RankOf(r)
    BY <1>2, <2>2, <2>3, RankWithin DEF RankOf
  <2> QED BY <1>1, <1>2, <2>4
<1>9. ASSUME NEW r \in S, Unambiguous(r)
      PROVE  RankOf(r) <= n + L
  <2>1. AtLeast(r) \subseteq before \cup S
    <3> SUFFICES ASSUME NEW q \in AtLeast(r), q \notin before, q \notin S PROVE FALSE
      OBVIOUS
    <3>1. q \in Listed /\ createdAt[q] >= createdAt[r]
      BY DEF AtLeast
    <3>2. createdAt[r] >= createdAt[q]
      BY <1>5, <3>1
    <3>3. createdAt[q] = createdAt[r]
      BY <1>2, <1>5, <3>1, <3>2
    <3> QED BY <1>9, <3>1, <3>3 DEF Unambiguous, Listed
  <2>2. RankOf(r) <= Cardinality(before) + Cardinality(S)
    BY <1>6, <2>1, RankWithin DEF RankOf
  <2> QED BY <1>1, <1>2, <1>3, <1>5, <2>2
<1>10. ASSUME NEW r \in Listed, Unambiguous(r), n < RankOf(r), r \notin S
       PROVE  Cardinality(S) = L /\ n + L < RankOf(r)
  <2>1. r \notin before
    <3> SUFFICES ASSUME r \in before PROVE FALSE
      OBVIOUS
    <3>1. AtLeast(r) \subseteq before
      <4> SUFFICES ASSUME NEW q \in AtLeast(r), q \notin before PROVE FALSE
        OBVIOUS
      <4>1. q \in Listed /\ createdAt[q] >= createdAt[r]
        BY DEF AtLeast
      <4>2. createdAt[r] >= createdAt[q]
        BY <1>3, <4>1
      <4>3. createdAt[q] = createdAt[r]
        BY <1>2, <4>1, <4>2
      <4> QED BY <1>10, <4>1, <4>3 DEF Unambiguous, Listed
    <3>2. RankOf(r) <= Cardinality(before)
      BY <1>3, <3>1, RankWithin DEF RankOf
    <3> QED BY <1>1, <1>2, <1>3, <1>10, <3>2
  <2>2. Cardinality(before) = n /\ Cardinality(S) = L
    BY <1>3, <1>5, <1>10, <2>1
  <2>3. (before \cup S) \cup {r} \subseteq AtLeast(r)
    BY <1>2, <1>3, <1>5, <1>10, <2>1 DEF AtLeast
  <2>4. Cardinality((before \cup S) \cup {r}) = n + L + 1
    BY <1>6, <1>10, <2>1, <2>2, FS_AddElement
  <2>5. n + L + 1 <= RankOf(r)
    BY <1>2, <2>3, <2>4, RankWithin DEF RankOf
  <2> QED BY <1>1, <1>2, <2>2, <2>5
<1> QED BY <1>1, <1>5, <1>7, <1>8, <1>9, <1>10 DEF n, L

-----------------------------------------------------------------------------
(* Steps of the table.                                                     *)

LEMMA PageIsNat ==
  ASSUME ListTypes
  PROVE  /\ page \in Nat /\ page = Len(items)
         /\ \A p \in 1..page : items[p] \subseteq visible
         /\ throughout \subseteq Listed /\ Listed \subseteq visible
         /\ arrivals \subseteq 0..page
BY DEF ListTypes, ListTypeOK, Listed

\* Rows come in, with an arrival if the list changes, or a row leaves.
LEMMA TableStep ==
  ASSUME ListInv, ListTypes', UNCHANGED clientVars,
         \A r \in visible : createdAt'[r] = createdAt[r] /\ (Unambiguous(r)' => Unambiguous(r)),
         \/ /\ left' = left /\ throughout' = throughout /\ Listed \subseteq Listed'
            /\ \/ Listed' = Listed /\ arrivals' = arrivals
               \/ arrivals' = arrivals \cup {page}
         \/ left' = TRUE /\ Listed' \subseteq Listed /\ arrivals' = arrivals
  PROVE  ListInv'
<1> USE DEF clientVars, pageVars, reportVars
<1>1. /\ page \in Nat /\ page = Len(items)
      /\ \A p \in 1..page : items[p] \subseteq visible
      /\ throughout \subseteq Listed /\ Listed \subseteq visible
  BY PageIsNat DEF ListInv
<1>2. /\ \A r : RankOf(r) \in Nat /\ IsFiniteSet(AtLeast(r))
      /\ IsFiniteSet(Listed) /\ Cardinality(Listed) \in Nat
  BY ListedFinite, FS_CardinalityType DEF ListInv
<1>3. /\ \A r : RankOf(r)' \in Nat /\ IsFiniteSet(AtLeast(r)')
      /\ IsFiniteSet(Listed') /\ Cardinality(Listed') \in Nat
  <2>1. RanksAreNumbers'
    BY RankTypesNext
  <2> QED BY <2>1, FS_CardinalityType DEF RanksAreNumbers
<1>4. ASSUME left' = left, throughout' = throughout, Listed \subseteq Listed',
             \/ Listed' = Listed /\ arrivals' = arrivals
             \/ arrivals' = arrivals \cup {page}
      PROVE  (Ahead /\ Behind /\ PagesListed /\ NoRowMissed /\ CountsCoverPages)'
  <2>1. ASSUME NEW r \in Listed
        PROVE  RankOf(r) <= RankOf(r)'
    <3>1. AtLeast(r) \subseteq AtLeast(r)'
      BY <1>1, <1>4 DEF AtLeast
    <3> QED BY <1>3, <3>1, RankWithin DEF RankOf
  <2>2. Ahead'
    <3> SUFFICES ASSUME ~left, NEW r \in throughout, Unambiguous(r)'
                 PROVE  Shown(r)' \/ Skip(page + 1)' < RankOf(r)'
      BY <1>4 DEF Ahead
    <3>1. Shown(r) \/ Skip(page + 1) < RankOf(r)
      BY <1>1 DEF ListInv, Ahead
    <3>2. Skip(page + 1) \in Nat
      BY <1>1, SkipType
    <3>3. RankOf(r) <= RankOf(r)'
      BY <1>1, <2>1
    <3>4. Skip(page + 1)' = Skip(page + 1) /\ Shown(r)' = Shown(r)
      BY DEF Skip, EffectiveLimit, Shown
    <3> QED BY <1>2, <1>3, <3>1, <3>2, <3>3, <3>4
  <2>3. Behind'
    <3>1. CASE arrivals' = arrivals \cup {page}
      BY <1>1, <3>1 DEF Behind
    <3>2. CASE Listed' = Listed /\ arrivals' = arrivals
      <4>1. ASSUME NEW r \in Listed
            PROVE  RankOf(r)' = RankOf(r)
        <5>1. AtLeast(r)' = AtLeast(r)
          BY <1>1, <3>2 DEF AtLeast
        <5> QED BY <5>1 DEF RankOf
      <4>2. \A p : Skip(p + 1)' = Skip(p + 1)
        BY DEF Skip, EffectiveLimit
      <4> QED BY <1>1, <3>2, <4>1, <4>2 DEF ListInv, Behind
    <3> QED BY <1>4, <3>1, <3>2
  <2>4. PagesListed'
    <3> SUFFICES ASSUME ~left
                 PROVE  /\ \A p \in 1..page : items[p] \subseteq Listed'
                        /\ request = "counting" /\ items[page] # {} =>
                             Skip(page) + Cardinality(items[page]) <= Cardinality(Listed')
      BY <1>4 DEF PagesListed, Skip, EffectiveLimit
    <3>1. Cardinality(Listed) <= Cardinality(Listed')
      BY <1>3, <1>4, RankWithin
    <3>2. ASSUME request = "counting", items[page] # {}
          PROVE  Skip(page) + Cardinality(items[page]) <= Cardinality(Listed')
      <4>1. page \in 1..page /\ page - 1 \in Nat /\ (page - 1) + 1 = page
        BY <1>1, <3>2 DEF ListInv, ReportInv
      <4>2. Skip(page) \in Nat
        BY <4>1, SkipType
      <4>3. items[page] \subseteq Listed
        BY <4>1 DEF ListInv, PagesListed
      <4>4. Cardinality(items[page]) \in Nat
        BY <1>2, <4>3, RankWithin
      <4> QED BY <1>2, <1>3, <3>1, <3>2, <4>2, <4>4 DEF ListInv, PagesListed
    <3> QED BY <1>4, <3>2 DEF ListInv, PagesListed
  <2>5. NoRowMissed'
    BY <1>1, <1>4 DEF ListInv, NoRowMissed, WalkIsOver, More, EffectiveLimit
  <2>6. CountsCoverPages'
    BY <1>4 DEF ListInv, CountsCoverPages, ShownBy, Skip, EffectiveLimit
  <2> QED BY <2>2, <2>3, <2>4, <2>5, <2>6
<1>5. ASSUME left' = TRUE, Listed' \subseteq Listed, arrivals' = arrivals
      PROVE  (Ahead /\ Behind /\ PagesListed /\ NoRowMissed /\ CountsCoverPages)'
  <2>1. Behind'
    <3>1. ASSUME NEW r \in Listed'
          PROVE  RankOf(r)' <= RankOf(r)
      <4>1. AtLeast(r)' \subseteq AtLeast(r)
        BY <1>1, <1>5 DEF AtLeast
      <4> QED BY <1>2, <4>1, RankWithin DEF RankOf
    <3> SUFFICES ASSUME NEW p \in 1..page, p..page \cap arrivals = {},
                        NEW r \in items[p], r \in Listed', Unambiguous(r)'
                 PROVE  RankOf(r)' <= Skip(p + 1)'
      BY <1>5 DEF Behind
    <3>2. RankOf(r) <= Skip(p + 1)
      BY <1>1, <1>5 DEF ListInv, Behind
    <3>3. Skip(p + 1) \in Nat /\ Skip(p + 1)' = Skip(p + 1)
      BY <1>1, SkipType DEF Skip, EffectiveLimit
    <3> QED BY <1>2, <1>3, <3>1, <3>2, <3>3
  <2> QED BY <1>5, <2>1 DEF Ahead, PagesListed, NoRowMissed, CountsCoverPages
<1>6. RepeatsNeedArrivals'
  <2>1. arrivals \subseteq arrivals'
    OBVIOUS
  <2> QED BY <1>1, <2>1 DEF ListInv, RepeatsNeedArrivals
<1>7. ReportInv'
  BY DEF ListInv, ReportInv
<1> QED BY <1>4, <1>5, <1>6, <1>7 DEF ListInv

LEMMA TableSteps ==
  ASSUME ListInv, NEW r \in Rows,
         BeginInsert(r) \/ CommitInsert(r) \/ MoveIn(r) \/ MoveOut(r)
  PROVE  ListInv'
<1> USE DEF clientVars, pageVars, reportVars, historyVars
<1>0. /\ page \in Nat
      /\ \A p \in 1..page : items[p] \subseteq visible
      /\ throughout \subseteq Listed /\ arrivals \subseteq 0..page
  BY PageIsNat DEF ListInv
<1>1. CASE BeginInsert(r)
  <2>1. ListTypes'
    BY <1>1 DEF BeginInsert, ListInv, ListTypes, ListTypeOK, Listed
  <2>2. /\ UNCHANGED clientVars
        /\ \A q \in visible : createdAt'[q] = createdAt[q] /\ (Unambiguous(q)' => Unambiguous(q))
    BY <1>1 DEF BeginInsert, ListInv, ListTypes, ListTypeOK, Unambiguous
  <2>3. left' = left /\ throughout' = throughout /\ Listed' = Listed /\ arrivals' = arrivals
    BY <1>1 DEF BeginInsert, Listed
  <2> QED BY <2>1, <2>2, <2>3, TableStep
<1>2. CASE CommitInsert(r)
  <2>1. ListTypes'
    <3>1. throughout' \subseteq Listed' /\ arrivals' \subseteq 0..page
      <4>1. throughout' = throughout /\ Listed \subseteq Listed'
        BY <1>2 DEF CommitInsert, Listed
      <4>2. arrivals' \subseteq arrivals \cup {page}
        BY <1>2 DEF CommitInsert, Arrives
      <4>3. page \in 0..page
        BY <1>0
      <4> QED BY <1>0, <4>1, <4>2, <4>3
    <3>2. /\ inserting' \subseteq Rows /\ visible' \subseteq Rows /\ inRange' \subseteq Rows
          /\ inserting' \cap visible' = {}
          /\ edits' \in 0..MaxEdits
      BY <1>2, ListAssumption DEF CommitInsert, ListInv, ListTypes, ListTypeOK, Listed
    <3>3. \A p \in 1..page : items[p] \subseteq visible'
      BY <1>0, <1>2 DEF CommitInsert
    <3> QED BY <3>1, <3>2, <3>3, <1>2 DEF CommitInsert, ListInv, ListTypes, ListTypeOK
  <2>2. /\ UNCHANGED clientVars
        /\ \A q \in visible : createdAt'[q] = createdAt[q] /\ (Unambiguous(q)' => Unambiguous(q))
    BY <1>2 DEF CommitInsert, Unambiguous
  <2>3. /\ left' = left /\ throughout' = throughout /\ Listed \subseteq Listed'
        /\ \/ Listed' = Listed /\ arrivals' = arrivals
           \/ arrivals' = arrivals \cup {page}
    BY <1>2 DEF CommitInsert, Arrives, Listed
  <2> QED BY <2>1, <2>2, <2>3, TableStep
<1>3. CASE MoveIn(r)
  <2>1. ListTypes'
    <3>1. throughout' \subseteq Listed' /\ arrivals' \subseteq 0..page
      BY <1>0, <1>3 DEF MoveIn, Arrives, Listed
    <3>2. /\ inserting' \subseteq Rows /\ visible' \subseteq Rows /\ inRange' \subseteq Rows
          /\ inserting' \cap visible' = {}
          /\ edits' \in 0..MaxEdits
      BY <1>3, ListAssumption DEF MoveIn, ListInv, ListTypes, ListTypeOK, Listed
    <3>3. \A p \in 1..page : items[p] \subseteq visible'
      BY <1>0, <1>3 DEF MoveIn
    <3> QED BY <3>1, <3>2, <3>3, <1>3 DEF MoveIn, ListInv, ListTypes, ListTypeOK
  <2>2. /\ UNCHANGED clientVars
        /\ \A q \in visible : createdAt'[q] = createdAt[q] /\ (Unambiguous(q)' => Unambiguous(q))
    BY <1>3 DEF MoveIn, Unambiguous
  <2>3. /\ left' = left /\ throughout' = throughout /\ Listed \subseteq Listed'
        /\ arrivals' = arrivals \cup {page}
    BY <1>3 DEF MoveIn, Arrives, Listed
  <2> QED BY <2>1, <2>2, <2>3, TableStep
<1>4. CASE MoveOut(r)
  <2>1. ListTypes'
    <3>1. throughout' \subseteq Listed' /\ arrivals' \subseteq 0..page
      BY <1>0, <1>4 DEF MoveOut, Listed
    <3>2. /\ inserting' \subseteq Rows /\ visible' \subseteq Rows /\ inRange' \subseteq Rows
          /\ inserting' \cap visible' = {}
          /\ edits' \in 0..MaxEdits
      BY <1>4, ListAssumption DEF MoveOut, ListInv, ListTypes, ListTypeOK, Listed
    <3>3. \A p \in 1..page : items[p] \subseteq visible'
      BY <1>0, <1>4 DEF MoveOut
    <3> QED BY <3>1, <3>2, <3>3, <1>4 DEF MoveOut, ListInv, ListTypes, ListTypeOK
  <2>2. /\ UNCHANGED clientVars
        /\ \A q \in visible : createdAt'[q] = createdAt[q] /\ (Unambiguous(q)' => Unambiguous(q))
    BY <1>4 DEF MoveOut, Unambiguous
  <2>3. left' = TRUE /\ Listed' \subseteq Listed /\ arrivals' = arrivals
    BY <1>4 DEF MoveOut, Listed
  <2> QED BY <2>1, <2>2, <2>3, TableStep
<1> QED BY <1>1, <1>2, <1>3, <1>4

-----------------------------------------------------------------------------
(* Steps of the client.                                                    *)

\* The table stays as it is, and so do ranks.
LEMMA TableStays ==
  ASSUME UNCHANGED tableVars
  PROVE  /\ Listed' = Listed
         /\ \A r : RankOf(r)' = RankOf(r) /\ Unambiguous(r)' = Unambiguous(r)
BY DEF tableVars, Listed, RankOf, AtLeast, Unambiguous

LEMMA CountStep ==
  ASSUME ListInv, SelectCount
  PROVE  ListInv'
<1> USE DEF SelectCount, reportVars, historyVars
<1>1. /\ page \in Nat /\ page = Len(items)
      /\ throughout \subseteq Listed
  BY PageIsNat DEF ListInv
<1>2. RanksAreNumbers /\ Cardinality(Listed) \in Nat
  BY RankTypes, FS_CardinalityType DEF ListInv, RanksAreNumbers
<1>3. Listed' = Listed /\ \A r : RankOf(r)' = RankOf(r) /\ Unambiguous(r)' = Unambiguous(r)
  BY TableStays
<1>4. ListTypes'
  BY <1>2, <1>3 DEF tableVars, ListInv, ListTypes, ListTypeOK, Counted
<1>5. Ahead' /\ Behind'
  BY <1>3 DEF ListInv, Ahead, Behind, Shown, Skip, EffectiveLimit
<1>6. PagesListed' /\ ReportInv'
  BY <1>3 DEF ListInv, PagesListed, ReportInv
<1>7. NoRowMissed'
  <2> SUFFICES ASSUME ~(page = 0 \/ page * EffectiveLimit < Cardinality(Listed)), ~left,
                      NEW r \in throughout, Unambiguous(r)
               PROVE  \E p \in 1..page : r \in items[p]
    BY <1>3 DEF NoRowMissed, WalkIsOver, More, Counted, EffectiveLimit
  <2>1. Shown(r) \/ Skip(page + 1) < RankOf(r)
    BY DEF ListInv, Ahead
  <2>2. RankOf(r) <= Cardinality(Listed)
    <3>1. AtLeast(r) \subseteq Listed
      BY DEF AtLeast
    <3> QED BY <1>2, <3>1, RankWithin DEF RankOf, RanksAreNumbers
  <2>3. Skip(page + 1) = page * EffectiveLimit /\ Skip(page + 1) \in Nat
    BY <1>1, SkipType
  <2> QED BY <1>2, <2>1, <2>2, <2>3 DEF Shown, RanksAreNumbers
<1>8. RepeatsNeedArrivals'
  BY <1>3 DEF ListInv, RepeatsNeedArrivals
<1>9. CountsCoverPages'
  BY <1>3 DEF ListInv, CountsCoverPages, PagesListed, Counted, ShownBy, Skip, EffectiveLimit
<1> QED BY <1>4, <1>5, <1>6, <1>7, <1>8, <1>9 DEF ListInv

LEMMA ReportStep ==
  ASSUME ListInv, Report
  PROVE  ListInv'
<1> USE DEF Report, pageVars, historyVars
<1>1. page \in Nat /\ page = Len(items)
  BY PageIsNat DEF ListInv
<1>2. Listed' = Listed /\ \A r : RankOf(r)' = RankOf(r) /\ Unambiguous(r)' = Unambiguous(r)
  BY TableStays
<1>3. ListTypes'
  BY <1>2 DEF tableVars, ListInv, ListTypes, ListTypeOK
<1>4. Ahead' /\ Behind' /\ PagesListed'
  BY <1>2 DEF ListInv, Ahead, Behind, PagesListed, Shown, Skip, EffectiveLimit
<1>5. ReportInv'
  BY <1>1 DEF ListInv, ReportInv
<1>6. NoRowMissed' /\ RepeatsNeedArrivals'
  BY <1>2 DEF ListInv, NoRowMissed, WalkIsOver, More, EffectiveLimit, RepeatsNeedArrivals
<1>7. CountsCoverPages'
  <2>1. ~left => ShownBy(page) \subseteq Listed
    BY DEF ListInv, PagesListed, ShownBy
  <2> QED BY <2>1 DEF ListInv, CountsCoverPages, Filtered, ShownBy, Skip, EffectiveLimit
<1> QED BY <1>3, <1>4, <1>5, <1>6, <1>7 DEF ListInv

LEMMA StutteringStep ==
  ASSUME ListInv, UNCHANGED listVars
  PROVE  ListInv'
<1>1. UNCHANGED tableVars
  BY DEF listVars
<1>2. Listed' = Listed /\ \A r : RankOf(r)' = RankOf(r) /\ Unambiguous(r)' = Unambiguous(r)
  BY <1>1, TableStays
<1>3. UNCHANGED <<request, page, items, total, report, reportPage, reports, throughout,
                  arrivals, left, inserting, visible, createdAt, now, inRange, edits>>
  BY DEF listVars, tableVars, clientVars, pageVars, reportVars, historyVars
<1>4. ListTypes'
  BY <1>2, <1>3 DEF ListInv, ListTypes, ListTypeOK
<1>5. (Ahead /\ Behind /\ PagesListed /\ ReportInv)'
  BY <1>2, <1>3 DEF ListInv, Ahead, Behind, PagesListed, ReportInv, Shown, Skip, EffectiveLimit
<1>6. (NoRowMissed /\ RepeatsNeedArrivals /\ CountsCoverPages)'
  BY <1>2, <1>3
  DEF ListInv, NoRowMissed, WalkIsOver, More, RepeatsNeedArrivals, CountsCoverPages, ShownBy,
      Skip, EffectiveLimit
<1> QED BY <1>4, <1>5, <1>6 DEF ListInv

LEMMA ListInit_Inv ==
  ASSUME ListInit
  PROVE  ListInv
<1> USE DEF ListInit
<1>1. Listed = {} /\ Len(items) = 0 /\ 1..page = {}
  BY DEF Listed
<1>2. ListTypes
  BY <1>1, ListAssumption DEF ListTypes, ListTypeOK
<1>3. Ahead /\ Behind /\ PagesListed /\ ReportInv
  BY <1>1 DEF Ahead, Behind, PagesListed, ReportInv
<1>4. NoRowMissed /\ RepeatsNeedArrivals /\ CountsCoverPages
  <2>1. \A p, q \in 1..page : FALSE
    BY <1>1
  <2>2. ShownBy(reportPage) = {}
    BY <1>1 DEF ShownBy
  <2> QED BY <2>1, <2>2 DEF NoRowMissed, RepeatsNeedArrivals, CountsCoverPages
<1> QED BY <1>2, <1>3, <1>4 DEF ListInv

LEMMA SelectStep ==
  ASSUME ListInv, SelectItems
  PROVE  ListInv'
<1>0. PICK before \in FirstOf(Listed, Skip(page + 1)) :
        \E S \in FirstOf(Listed \ before, EffectiveLimit) :
          /\ items' = Append(items, S)
          /\ \/ request' = "counting" /\ UNCHANGED total
             \/ /\ TellsTotal(page + 1, S)
                /\ request' = "none"
                /\ total' = Skip(page + 1) + Cardinality(S)
  BY DEF SelectItems
<1>1. PICK S \in FirstOf(Listed \ before, EffectiveLimit) :
        /\ items' = Append(items, S)
        /\ \/ request' = "counting" /\ UNCHANGED total
           \/ /\ TellsTotal(page + 1, S)
              /\ request' = "none"
              /\ total' = Skip(page + 1) + Cardinality(S)
  BY <1>0
<1>2. /\ request = "none" /\ page' = page + 1
      /\ throughout' = IF page = 0 THEN Listed ELSE throughout
      /\ left' = IF page = 0 THEN FALSE ELSE left
      /\ UNCHANGED <<tableVars, reportVars, arrivals>>
  BY DEF SelectItems
<1>3. /\ page \in Nat /\ page = Len(items)
      /\ \A p \in 1..page : items[p] \subseteq visible
      /\ throughout \subseteq Listed /\ Listed \subseteq visible
      /\ arrivals \subseteq 0..page
      /\ ListTypes /\ items \in Seq(SUBSET Rows)
  BY PageIsNat DEF ListInv, ListTypes
<1>4. /\ Listed' = Listed
      /\ \A r : RankOf(r)' = RankOf(r) /\ Unambiguous(r)' = Unambiguous(r)
  BY <1>2, TableStays
<1>5. /\ \A r : RankOf(r) \in Nat
      /\ Listed \subseteq Rows
      /\ \A r \in Listed : 0 < RankOf(r)
  <2>1. ASSUME NEW r \in Listed
        PROVE  RankOf(r) # 0
    <3>1. r \in AtLeast(r)
      BY <1>3, ListedFinite DEF AtLeast
    <3> QED BY <1>3, <3>1, ListedFinite, FS_EmptySet DEF RankOf
  <2> QED BY <1>3, <2>1, ListedFinite
<1>6. /\ Skip(page + 1) \in Nat /\ Skip(page + 1) = page * EffectiveLimit
      /\ Skip(page + 2) = Skip(page + 1) + EffectiveLimit
      /\ EffectiveLimit \in Nat \ {0} /\ EffectiveLimit <= MaxPageLimit /\ MaxPageLimit \in Nat
      /\ Skip((page + 1) + 1) = (page + 1) * EffectiveLimit /\ (page + 1) + 1 = page + 2
  BY <1>3, SkipType, LimitType, ListAssumption
<1>7. /\ S \subseteq Listed /\ Cardinality(S) \in Nat
      /\ Cardinality(S) <= EffectiveLimit
      /\ S # {} => Skip(page + 1) + Cardinality(S) <= Cardinality(Listed)
      /\ \A r \in S : Skip(page + 1) < RankOf(r)
      /\ \A r \in S : Unambiguous(r) => RankOf(r) <= Skip(page + 2)
      /\ \A r \in Listed :
           Unambiguous(r) /\ Skip(page + 1) < RankOf(r) =>
             r \in S \/ (Cardinality(S) = EffectiveLimit /\ Skip(page + 2) < RankOf(r))
  BY <1>3, PageFacts
<1>8. /\ Len(items') = page + 1 /\ items' \in Seq(SUBSET Rows)
      /\ \A p \in 1..page : items'[p] = items[p]
      /\ items'[page + 1] = S
      /\ 1..page' = 1..page \cup {page + 1}
  BY <1>1, <1>2, <1>3, <1>5, <1>7
<1>9. \A p : Skip(p)' = Skip(p)
  BY DEF Skip, EffectiveLimit
<1>10. ListTypes'
  <2>1. throughout' \subseteq Listed' /\ arrivals' \subseteq 0..page'
    BY <1>2, <1>3, <1>4
  <2>2. \A p \in 1..page' : items'[p] \subseteq visible' /\ Cardinality(items'[p]) <= MaxPageLimit
    <3>1. visible' = visible
      BY <1>2 DEF tableVars
    <3>2. S \subseteq visible /\ Cardinality(S) <= MaxPageLimit
      BY <1>3, <1>6, <1>7
    <3>3. \A p \in 1..page : items[p] \subseteq visible /\ Cardinality(items[p]) <= MaxPageLimit
      BY <1>3 DEF ListTypes, ListTypeOK
    <3> QED BY <1>8, <3>1, <3>2, <3>3
  <2>3. total' \in Nat /\ request' \in {"none", "counting"}
    BY <1>1, <1>6, <1>7 DEF ListInv, ListTypes
  <2> QED BY <1>2, <1>3, <1>8, <2>1, <2>2, <2>3
       DEF ListTypes, ListTypeOK, tableVars, reportVars
\* A row that was there all along is on this page or beyond it.
<1>11. ASSUME ~left', NEW r \in throughout', Unambiguous(r)
       PROVE  \/ \E p \in 1..page : r \in items[p]
              \/ r \in S
              \/ Cardinality(S) = EffectiveLimit /\ Skip(page + 2) < RankOf(r)
  <2>1. r \in Listed
    BY <1>2, <1>3
  <2>2. CASE page = 0
    <3>1. Skip(page + 1) = 0
      BY <1>6, <2>2
    <3> QED BY <1>5, <1>7, <1>11, <2>1, <3>1
  <2>3. CASE page # 0
    <3>1. Shown(r) \/ Skip(page + 1) < RankOf(r)
      BY <1>2, <1>11, <2>3 DEF ListInv, Ahead
    <3> QED BY <1>7, <1>11, <2>1, <3>1 DEF Shown
  <2> QED BY <2>2, <2>3
<1>12. Ahead'
  <2> SUFFICES ASSUME ~left', NEW r \in throughout', Unambiguous(r)
               PROVE  (\E p \in 1..page' : r \in items'[p]) \/ Skip(page' + 1) < RankOf(r)
    BY <1>4, <1>9 DEF Ahead, Shown
  <2>1. Skip(page' + 1) = Skip(page + 2)
    BY <1>2, <1>6
  <2> QED BY <1>8, <1>11, <2>1
<1>13. Behind'
  <2> SUFFICES ASSUME NEW p \in 1..page', p..page' \cap arrivals = {},
                      NEW r \in items'[p], r \in Listed, Unambiguous(r)
               PROVE  RankOf(r) <= Skip(p + 1)
    BY <1>2, <1>4, <1>9 DEF Behind
  <2>1. CASE p = page + 1
    BY <1>6, <1>7, <1>8, <2>1
  <2>2. CASE p \in 1..page
    <3>1. p..page \subseteq p..page'
      BY <1>2, <1>3, <2>2
    <3> QED BY <1>8, <2>2, <3>1 DEF ListInv, Behind
  <2> QED BY <1>8, <2>1, <2>2
<1>14. PagesListed'
  <2> SUFFICES ASSUME ~left'
               PROVE  /\ \A p \in 1..page' : items'[p] \subseteq Listed
                      /\ S # {} => Skip(page + 1) + Cardinality(S) <= Cardinality(Listed)
    BY <1>2, <1>4, <1>8, <1>9 DEF PagesListed
  <2>1. \A p \in 1..page : items[p] \subseteq Listed
    BY <1>2 DEF ListInv, PagesListed
  <2> QED BY <1>7, <1>8, <2>1
<1>15. ReportInv'
  BY <1>2, <1>3 DEF ListInv, ReportInv, reportVars
<1>16. NoRowMissed'
  <2> SUFFICES ASSUME request' = "none", ~left', NEW r \in throughout', Unambiguous(r)
               PROVE  \E p \in 1..page' : r \in items'[p]
    BY <1>4 DEF NoRowMissed, WalkIsOver
  <2>1. TellsTotal(page + 1, S)
    BY <1>1
  <2>2. Cardinality(S) # EffectiveLimit
    BY <1>6, <1>7, <2>1 DEF TellsTotal
  <2> QED BY <1>8, <1>11, <2>2
<1>17. RepeatsNeedArrivals'
  <2> SUFFICES ASSUME NEW p \in 1..page', NEW q \in 1..page', p < q,
                      NEW r \in items'[p] \cap items'[q], Unambiguous(r)
               PROVE  \E k \in p..(q - 1) : k \in arrivals
    BY <1>2, <1>4 DEF RepeatsNeedArrivals
  <2>1. CASE q \in 1..page
    <3>1. p \in 1..page
      BY <1>3, <1>8, <2>1
    <3> QED BY <1>8, <2>1, <3>1 DEF ListInv, RepeatsNeedArrivals
  <2>2. CASE q = page + 1
    <3>1. p \in 1..page /\ q - 1 = page
      BY <1>3, <1>8, <2>2
    <3>2. r \in items[p] /\ r \in S /\ r \in Listed
      BY <1>7, <1>8, <2>2, <3>1
    <3> SUFFICES ASSUME p..page \cap arrivals = {} PROVE FALSE
      BY <3>1
    <3>3. RankOf(r) <= Skip(p + 1)
      BY <3>1, <3>2 DEF ListInv, Behind
    <3>4. Skip(p + 1) <= Skip(page + 1) /\ Skip(p + 1) \in Nat
      BY <1>3, <3>1, SkipGrows, SkipType
    <3>5. Skip(page + 1) < RankOf(r)
      BY <1>7, <3>2
    <3> QED BY <1>5, <1>6, <3>3, <3>4, <3>5
  <2> QED BY <1>8, <2>1, <2>2
<1>18. CountsCoverPages'
  <2> SUFFICES ASSUME ~left'
               PROVE  /\ request' = "none" => total' >= Skip(page + 1) + Cardinality(S)
                      /\ ShownBy(reportPage)' \subseteq report
    BY <1>2, <1>8, <1>9 DEF CountsCoverPages, reportVars
  <2>1. request' = "none" => total' >= Skip(page + 1) + Cardinality(S)
    BY <1>1, <1>6, <1>7
  <2>2. ShownBy(reportPage)' \subseteq report
    <3>1. reportPage \in 0..page /\ reportPage' = reportPage
      BY <1>2 DEF ListInv, ReportInv, reportVars
    <3>2. ShownBy(reportPage)' = ShownBy(reportPage)
      BY <1>3, <1>8, <3>1 DEF ShownBy
    <3>3. CASE page = 0
      BY <3>1, <3>2, <3>3 DEF ShownBy
    <3>4. CASE page # 0
      BY <1>2, <3>2, <3>4 DEF ListInv, CountsCoverPages
    <3> QED BY <3>3, <3>4
  <2> QED BY <2>1, <2>2
<1> QED BY <1>10, <1>12, <1>13, <1>14, <1>15, <1>16, <1>17, <1>18 DEF ListInv

LEMMA ListInvariant == ListSpec => []ListInv
<1>1. ListInit => ListInv
  BY ListInit_Inv
<1>2. ListInv /\ [ListNext]_listVars => ListInv'
  <2> SUFFICES ASSUME ListInv, [ListNext]_listVars PROVE ListInv'
    OBVIOUS
  <2>1. ASSUME NEW r \in Rows, BeginInsert(r) \/ CommitInsert(r) \/ MoveIn(r) \/ MoveOut(r)
        PROVE  ListInv'
    BY <2>1, TableSteps
  <2>2. CASE SelectItems
    BY <2>2, SelectStep
  <2>3. CASE SelectCount
    BY <2>3, CountStep
  <2>4. CASE Report
    BY <2>4, ReportStep
  <2>5. CASE UNCHANGED listVars
    BY <2>5, StutteringStep
  <2> QED BY <2>1, <2>2, <2>3, <2>4, <2>5 DEF ListNext
<1> QED BY <1>1, <1>2, PTL DEF ListSpec

\* Types; no page is longer than MAX_PAGE_LIMIT or shows a row that is not
\* committed.
THEOREM ListTypeCorrect == ListSpec => []ListTypeOK
<1>1. ListInv => ListTypeOK
  BY DEF ListInv, ListTypes
<1> QED BY <1>1, ListInvariant, PTL

\* findAll with a growing page number shows every row that stays in the list.
THEOREM NoRowIsMissed == ListSpec => []NoRowMissed
<1>1. ListInv => NoRowMissed
  BY DEF ListInv
<1> QED BY <1>1, ListInvariant, PTL

\* A row is shown twice only when rows have come into the list in between.
THEOREM RepeatsAreArrivals == ListSpec => []RepeatsNeedArrivals
<1>1. ListInv => RepeatsNeedArrivals
  BY DEF ListInv
<1> QED BY <1>1, ListInvariant, PTL

\* Totals, summaries and exports cover the pages before them.
THEOREM CountsCover == ListSpec => []CountsCoverPages
<1>1. ListInv => CountsCoverPages
  BY DEF ListInv
<1> QED BY <1>1, ListInvariant, PTL

=============================================================================
