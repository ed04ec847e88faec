--------------------------- MODULE SmokeTestProofs ---------------------------
(***************************************************************************)
(* The database that deployers migrate and revert, and the smoke test that *)
(* runs against it, for any number of deployers, commands, lost            *)
(* connections and crashes, and for every limit and interval.              *)
(***************************************************************************)
EXTENDS SmokeTest, TLAPS

-----------------------------------------------------------------------------
(* The catalogs between the statements of the migration.                   *)

ColumnsOf(t) ==
  CASE t = "businesses"   -> BusinessColumns
    [] t = "managers"     -> ManagerColumns
    [] t = "transactions" -> TransactionColumns
    [] t = "edit_logs"    -> EditLogColumns

Tables == {"businesses", "managers", "transactions", "edit_logs"}

\* The first k statements of Up with one operation.
Done(k, op) == {i \in 1..k : Up[i].op = op}

TablesMade(k) == {Up[i].table : i \in Done(k, "table")}
IndexesMade(k) == {Up[i].index : i \in Done(k, "index")}
ReferencesMade(k) == {Up[i].key : i \in Done(k, "reference")}

\* What Up has made of an empty catalog after k statements.
UpTo(k) ==
  [extension |-> k > 0, tables |-> [t \in TablesMade(k) |-> ColumnsOf(t)],
   indexes |-> IndexesMade(k), references |-> ReferencesMade(k)]

Whole == UpTo(Len(Up))

\* Nothing but the extension, if that.
Bare(extension) ==
  [extension |-> extension, tables |-> NoColumns, indexes |-> {}, references |-> {}]

\* What Down has left of the whole after k statements.
TablesKept(k) ==
  Tables \ {Down[i].table : i \in {j \in 1..k : Down[j].op = "dropTable"}}

ReferencesKept(k) ==
  {r \in ReferencesMade(Len(Up)) :
     /\ r.table \in TablesKept(k)
     /\ \A i \in 1..k : Down[i].op = "dropReference" =>
          r.table # Down[i].table \/ r.column # Down[i].column}

DownTo(k) ==
  [extension |-> TRUE, tables |-> [t \in TablesKept(k) |-> ColumnsOf(t)],
   indexes |-> {i \in IndexesMade(Len(Up)) : i.table \in TablesKept(k)},
   references |-> ReferencesKept(k)]

Reached(what, k) == IF what = "up" THEN UpTo(k) ELSE DownTo(k)

-----------------------------------------------------------------------------
(* The inductive invariant of the schema.                                  *)

SchemaTypeOK ==
  /\ recorded \in BOOLEAN
  /\ owner \in Deployers \cup {Nobody}
  /\ task \in [Deployers -> {"none", "up", "down"}]
  /\ step \in [Deployers -> Nat]
  /\ verdict \in [Deployers -> {"none", "ok", "refused", "broken"}]
  /\ overtaken \in [Deployers -> BOOLEAN]

\* What is committed is all or nothing, and the record says which.
CatalogRecorded ==
  \/ recorded /\ catalog = Whole
  \/ ~recorded /\ \E b \in BOOLEAN : catalog = Bare(b)

\* The open transaction started from what is committed, and has changed it.
OwnerGoesOn ==
  owner # Nobody =>
    /\ task[owner] # "none"
    /\ (recorded <=> task[owner] = "down")
    /\ step[owner] \in 1..Len(Statements(owner))
    /\ draft = Reached(task[owner], step[owner])
    /\ task[owner] = "up" /\ catalog.extension => step[owner] > 1

\* The others have changed nothing: all they may have behind them is a
\* statement that was without effect.
OthersAtStart ==
  \A d \in Deployers : task[d] # "none" /\ d # owner =>
    /\ step[d] \in {0, 1}
    /\ task[d] = "up" /\ step[d] = 1 => catalog.extension

\* A command that finds the opposite of what it looked for has been overtaken.
StaleIsOvertaken ==
  \A d \in Deployers :
    \/ task[d] = "up" /\ recorded
    \/ task[d] = "down" /\ ~recorded
    => overtaken[d]

SchemaInv ==
  /\ SchemaTypeOK /\ CatalogRecorded /\ OwnerGoesOn /\ OthersAtStart /\ StaleIsOvertaken
  /\ OnlyRivalsAreRefused

-----------------------------------------------------------------------------
(* The statements.                                                         *)

\* The migration, statement by statement.
LEMMA UpStatements ==
  /\ Len(Up) = 12
  /\ Up[1] = CreateExtension
  /\ Up[2] = CreateTable("businesses", BusinessColumns)
  /\ Up[3] = CreateTable("managers", ManagerColumns)
  /\ Up[4] = CreateIndex("managers", "idx_manager_business_id", {"businessId"})
  /\ Up[5] = CreateForeignKey("managers", "businessId", "businesses")
  /\ Up[6] = CreateTable("transactions", TransactionColumns)
  /\ Up[7] = CreateIndex("transactions", "idx_transaction_duplicate_lookup",
                         {"transactionId", "amount", "timestamp"})
  /\ Up[8] = CreateIndex("transactions", "idx_transaction_telegram_user_id", {"telegramUserId"})
  /\ Up[9] = CreateIndex("transactions", "idx_transaction_created_at", {"createdAt"})
  /\ Up[10] = CreateTable("edit_logs", EditLogColumns)
  /\ Up[11] = CreateIndex("edit_logs", "idx_edit_log_transaction_id", {"transactionId"})
  /\ Up[12] = CreateForeignKey("edit_logs", "transactionId", "transactions")
BY DEF Up

\* Its reversal.
LEMMA DownStatements ==
  /\ Len(Down) = 6
  /\ Down[1] = DropForeignKey("edit_logs", "transactionId")
  /\ Down[2] = DropTable("edit_logs")
  /\ Down[3] = DropTable("transactions")
  /\ Down[4] = DropForeignKey("managers", "businessId")
  /\ Down[5] = DropTable("managers")
  /\ Down[6] = DropTable("businesses")
BY DEF Down

\* The columns that indexes and keys name.
LEMMA ColumnsNamed ==
  /\ "businessId" \in Names(ManagerColumns)
  /\ {"transactionId", "amount", "timestamp"} \subseteq Names(TransactionColumns)
  /\ "telegramUserId" \in Names(TransactionColumns) /\ "createdAt" \in Names(TransactionColumns)
  /\ "transactionId" \in Names(EditLogColumns)
  /\ IsKeyOf(BusinessColumns, "id") /\ IsKeyOf(TransactionColumns, "id")
<1> USE DEF Column, Plain
<1>1. ASSUME NEW columns, NEW S, NEW n \in S, Plain(S) \subseteq columns
      PROVE  n \in Names(columns)
  <2>1. Column(n, {}) \in columns
    BY <1>1
  <2> QED BY <2>1 DEF Names
<1>2. "businessId" \in Names(ManagerColumns)
  BY <1>1 DEF ManagerColumns
<1>3. /\ {"transactionId", "amount", "timestamp"} \subseteq Names(TransactionColumns)
      /\ "telegramUserId" \in Names(TransactionColumns)
  BY <1>1 DEF TransactionColumns
<1>4. "createdAt" \in Names(TransactionColumns)
  <2>1. Column("createdAt", {"default"}) \in TransactionColumns
    BY DEF TransactionColumns
  <2> QED BY <2>1 DEF Names
<1>5. "transactionId" \in Names(EditLogColumns)
  BY <1>1 DEF EditLogColumns
<1>6. Id \in BusinessColumns /\ Id \in TransactionColumns
  BY DEF BusinessColumns, TransactionColumns
<1>7. IsKeyOf(BusinessColumns, "id") /\ IsKeyOf(TransactionColumns, "id")
  BY <1>6 DEF IsKeyOf, Id
<1> QED BY <1>2, <1>3, <1>4, <1>5, <1>7

\* What the order of the statements has to respect: a table is made once, with
\* its columns; indexes and keys come behind their tables, under other names.
LEMMA UpInOrder ==
  ASSUME NEW k \in 1..12
  PROVE  /\ Up[k].op \in {"extension", "table", "index", "reference"}
         /\ Up[k].op = "extension" <=> k = 1
         /\ Up[k].op = "table" =>
              /\ Up[k].columns = ColumnsOf(Up[k].table)
              /\ Up[k].table \in Tables
              /\ \A i \in Done(k - 1, "table") : Up[i].table # Up[k].table
         /\ Up[k].op = "index" =>
              /\ Up[k].table \in TablesMade(k - 1)
              /\ Up[k].index.table = Up[k].table
              /\ Up[k].index.columns \subseteq Names(ColumnsOf(Up[k].table))
              /\ \A i \in Done(k - 1, "index") : Up[i].index.name # Up[k].index.name
         /\ Up[k].op = "reference" =>
              /\ Up[k].table \in TablesMade(k - 1) /\ Up[k].key.target \in TablesMade(k - 1)
              /\ Up[k].key.table = Up[k].table
              /\ Up[k].key.column \in Names(ColumnsOf(Up[k].table))
              /\ IsKeyOf(ColumnsOf(Up[k].key.target), "id")
<1> USE UpStatements
    DEF CreateExtension, CreateTable, CreateIndex, CreateForeignKey
<1>1. /\ ColumnsOf("businesses") = BusinessColumns /\ ColumnsOf("managers") = ManagerColumns
      /\ ColumnsOf("transactions") = TransactionColumns /\ ColumnsOf("edit_logs") = EditLogColumns
  BY DEF ColumnsOf
<1>0. \A i \in 1..12 :
        /\ Up[i].op \in {"extension", "table", "index", "reference"}
        /\ Up[i].op = "extension" <=> i = 1
        /\ Up[i].op = "table" <=> i \in {2, 3, 6, 10}
        /\ Up[i].op = "index" <=> i \in {4, 7, 8, 9, 11}
        /\ Up[i].op = "reference" <=> i \in {5, 12}
  OBVIOUS
<1>2. /\ Up[k].op \in {"extension", "table", "index", "reference"}
      /\ Up[k].op = "extension" <=> k = 1
      /\ Up[k].op = "table" <=> k \in {2, 3, 6, 10}
      /\ Up[k].op = "index" <=> k \in {4, 7, 8, 9, 11}
      /\ Up[k].op = "reference" <=> k \in {5, 12}
  BY <1>0
<1>3. ASSUME Up[k].op = "table"
      PROVE  /\ Up[k].columns = ColumnsOf(Up[k].table)
             /\ Up[k].table \in Tables
             /\ \A i \in Done(k - 1, "table") : Up[i].table # Up[k].table
  <2>1. Up[k].columns = ColumnsOf(Up[k].table) /\ Up[k].table \in Tables
    BY <1>1, <1>2, <1>3 DEF Tables
  <2>2. \A i \in Done(k - 1, "table") : i \in {2, 3, 6, 10} /\ i < k
    BY <1>0 DEF Done
  <2> QED BY <1>2, <1>3, <2>1, <2>2
<1>4. \A i \in 1..(k - 1) : Up[i].op = "table" => Up[i].table \in TablesMade(k - 1)
  BY DEF TablesMade, Done
<1>5. ASSUME Up[k].op = "index"
      PROVE  /\ Up[k].table \in TablesMade(k - 1)
             /\ Up[k].index.table = Up[k].table
             /\ Up[k].index.columns \subseteq Names(ColumnsOf(Up[k].table))
             /\ \A i \in Done(k - 1, "index") : Up[i].index.name # Up[k].index.name
  <2>1. /\ Up[k].index.table = Up[k].table
        /\ Up[k].index.columns \subseteq Names(ColumnsOf(Up[k].table))
    BY <1>1, <1>2, <1>5, ColumnsNamed
  <2>2. Up[k].table \in TablesMade(k - 1)
    BY <1>2, <1>4, <1>5
  <2>3. \A i \in Done(k - 1, "index") : i \in {4, 7, 8, 9, 11} /\ i < k
    BY <1>0 DEF Done
  <2> QED BY <1>2, <1>5, <2>1, <2>2, <2>3
<1>6. ASSUME Up[k].op = "reference"
      PROVE  /\ Up[k].table \in TablesMade(k - 1) /\ Up[k].key.target \in TablesMade(k - 1)
             /\ Up[k].key.table = Up[k].table
             /\ Up[k].key.column \in Names(ColumnsOf(Up[k].table))
             /\ IsKeyOf(ColumnsOf(Up[k].key.target), "id")
  <2>1. CASE k = 5
    BY <1>1, <1>4, <2>1, ColumnsNamed
  <2>2. CASE k = 12
    BY <1>1, <1>4, <2>2, ColumnsNamed
  <2> QED BY <1>2, <1>6, <2>1, <2>2
<1> QED BY <1>2, <1>3, <1>5, <1>6

\* One statement more has been done.
LEMMA DoneMore ==
  ASSUME NEW k \in 0..11, NEW op
  PROVE  Done(k + 1, op) = IF Up[k + 1].op = op THEN Done(k, op) \cup {k + 1} ELSE Done(k, op)
<1>1. 1..(k + 1) = (1..k) \cup {k + 1}
  OBVIOUS
<1> QED BY <1>1 DEF Done

\* None of the statements of a migration is refused when it started from an
\* empty catalog, and each makes what it stands for.
LEMMA UpGoesOn ==
  ASSUME NEW k \in 0..11
  PROVE  /\ Executable(Up[k + 1], UpTo(k))
         /\ Executed(Up[k + 1], UpTo(k)) = UpTo(k + 1)
<1> DEFINE s == Up[k + 1]
           c == UpTo(k)
<1>1. /\ s.op \in {"extension", "table", "index", "reference"}
      /\ s.op = "extension" <=> k + 1 = 1
      /\ s.op = "table" =>
           /\ s.columns = ColumnsOf(s.table)
           /\ s.table \in Tables
           /\ \A i \in Done(k, "table") : Up[i].table # s.table
      /\ s.op = "index" =>
           /\ s.table \in TablesMade(k)
           /\ s.index.table = s.table
           /\ s.index.columns \subseteq Names(ColumnsOf(s.table))
           /\ \A i \in Done(k, "index") : Up[i].index.name # s.index.name
      /\ s.op = "reference" =>
           /\ s.table \in TablesMade(k) /\ s.key.target \in TablesMade(k)
           /\ s.key.table = s.table
           /\ s.key.column \in Names(ColumnsOf(s.table))
           /\ IsKeyOf(ColumnsOf(s.key.target), "id")
  <2>1. k + 1 \in 1..12 /\ (k + 1) - 1 = k
    OBVIOUS
  <2> QED BY <2>1, UpInOrder
<1>2. /\ c.extension = (k > 0) /\ c.indexes = IndexesMade(k) /\ c.references = ReferencesMade(k)
      /\ DOMAIN c.tables = TablesMade(k)
      /\ \A t \in TablesMade(k) : c.tables[t] = ColumnsOf(t)
      /\ c.tables = [t \in TablesMade(k) |-> ColumnsOf(t)]
  BY DEF UpTo
<1>3. UpTo(k + 1) =
        [extension |-> TRUE, tables |-> [t \in TablesMade(k + 1) |-> ColumnsOf(t)],
         indexes |-> IndexesMade(k + 1), references |-> ReferencesMade(k + 1)]
  <2>1. (k + 1 > 0) = TRUE
    OBVIOUS
  <2> QED BY <2>1 DEF UpTo
<1>4. /\ TablesMade(k + 1) = IF s.op = "table" THEN TablesMade(k) \cup {s.table} ELSE TablesMade(k)
      /\ IndexesMade(k + 1) = IF s.op = "index" THEN IndexesMade(k) \cup {s.index} ELSE IndexesMade(k)
      /\ ReferencesMade(k + 1) =
           IF s.op = "reference" THEN ReferencesMade(k) \cup {s.key} ELSE ReferencesMade(k)
  BY DoneMore DEF TablesMade, IndexesMade, ReferencesMade
<1>5. c = [extension |-> k > 0, tables |-> [t \in TablesMade(k) |-> ColumnsOf(t)],
           indexes |-> IndexesMade(k), references |-> ReferencesMade(k)]
  BY DEF UpTo
<1> HIDE DEF s, c
<1>6. CASE s.op = "extension"
  <2>1. Executable(s, c)
    BY <1>6 DEF Executable
  <2>2. Executed(s, c) = [c EXCEPT !.extension = TRUE]
    BY <1>6 DEF Executed
  <2>3. Executed(s, c) = UpTo(k + 1)
    BY <1>3, <1>4, <1>5, <1>6, <2>2
  <2> QED BY <2>1, <2>3 DEF s, c
<1>7. CASE s.op = "table"
  <2>1. s.table \notin TablesMade(k) /\ k > 0
    BY <1>1, <1>7 DEF TablesMade
  <2>2. Executable(s, c)
    BY <1>2, <1>7, <2>1 DEF Executable, Has
  <2>3. Executed(s, c) =
          [c EXCEPT !.tables = [t \in DOMAIN @ \cup {s.table} |->
                                  IF t = s.table THEN s.columns ELSE @[t]]]
    BY <1>7 DEF Executed
  <2>4. [t \in DOMAIN c.tables \cup {s.table} |-> IF t = s.table THEN s.columns ELSE c.tables[t]]
          = [t \in TablesMade(k + 1) |-> ColumnsOf(t)]
    BY <1>1, <1>2, <1>4, <1>7
  <2>5. Executed(s, c) = UpTo(k + 1)
    BY <1>3, <1>4, <1>5, <1>7, <2>1, <2>3, <2>4
  <2> QED BY <2>2, <2>5 DEF s, c
<1>8. CASE s.op = "index"
  <2>1. k > 0
    BY <1>1, <1>8
  <2>2. \A i \in c.indexes : i.name # s.index.name
    BY <1>1, <1>2, <1>8 DEF IndexesMade
  <2>3. Executable(s, c)
    BY <1>1, <1>2, <1>8, <2>2 DEF Executable, Has
  <2>4. Executed(s, c) = [c EXCEPT !.indexes = @ \cup {s.index}]
    BY <1>8 DEF Executed
  <2>5. Executed(s, c) = UpTo(k + 1)
    BY <1>3, <1>4, <1>5, <1>8, <2>1, <2>4
  <2> QED BY <2>3, <2>5 DEF s, c
<1>9. CASE s.op = "reference"
  <2>1. k > 0
    BY <1>1, <1>9
  <2>2. Executable(s, c)
    BY <1>1, <1>2, <1>9 DEF Executable, Has
  <2>3. Executed(s, c) = [c EXCEPT !.references = @ \cup {s.key}]
    BY <1>9 DEF Executed
  <2>4. Executed(s, c) = UpTo(k + 1)
    BY <1>3, <1>4, <1>5, <1>9, <2>1, <2>3
  <2> QED BY <2>2, <2>4 DEF s, c
<1> QED BY <1>1, <1>6, <1>7, <1>8, <1>9

\* The two keys.
LEMMA KeysMade ==
  /\ ReferencesMade(12) =
       {[table |-> "managers", column |-> "businessId", target |-> "businesses"],
        [table |-> "edit_logs", column |-> "transactionId", target |-> "transactions"]}
  /\ TablesMade(12) = Tables
  /\ \A i \in IndexesMade(12) : i.table \in Tables
<1> USE UpStatements
    DEF CreateExtension, CreateTable, CreateIndex, CreateForeignKey
<1>1. /\ Done(12, "reference") = {5, 12} /\ Done(12, "table") = {2, 3, 6, 10}
      /\ Done(12, "index") = {4, 7, 8, 9, 11}
  <2>1. \A i \in 1..12 : /\ Up[i].op = "reference" <=> i \in {5, 12}
                         /\ Up[i].op = "table" <=> i \in {2, 3, 6, 10}
                         /\ Up[i].op = "index" <=> i \in {4, 7, 8, 9, 11}
    OBVIOUS
  <2>2. /\ \A i \in {5, 12} : i \in 1..12
        /\ \A i \in {2, 3, 6, 10} : i \in 1..12
        /\ \A i \in {4, 7, 8, 9, 11} : i \in 1..12
    OBVIOUS
  <2> QED BY <2>1, <2>2 DEF Done
<1>2. ReferencesMade(12) = {Up[5].key, Up[12].key}
  BY <1>1 DEF ReferencesMade
<1>3. TablesMade(12) = {Up[2].table, Up[3].table, Up[6].table, Up[10].table}
  BY <1>1 DEF TablesMade
<1>4. \A i \in IndexesMade(12) : i.table \in Tables
  BY <1>1 DEF IndexesMade, Tables
<1> QED BY <1>2, <1>3, <1>4 DEF Tables

\* The tables are dropped once each, and a table that a key refers to after the
\* key's own table.
LEMMA DownInOrder ==
  /\ \A k \in 1..6 : /\ Down[k].op \in {"dropReference", "dropTable"}
                     /\ Down[k].op = "dropTable" <=> k \in {2, 3, 5, 6}
  /\ TablesKept(0) = Tables /\ TablesKept(1) = Tables
  /\ TablesKept(2) = {"businesses", "managers", "transactions"}
  /\ TablesKept(3) = {"businesses", "managers"} /\ TablesKept(4) = {"businesses", "managers"}
  /\ TablesKept(5) = {"businesses"} /\ TablesKept(6) = {}
  /\ \A r \in ReferencesKept(1) : r.table # "edit_logs"
  /\ \A r \in ReferencesKept(4) : r.table \notin {"managers", "edit_logs"}
<1> USE DownStatements DEF DropForeignKey, DropTable
<1> DEFINE Gone(k) == {j \in 1..k : Down[j].op = "dropTable"}
<1>1. \A k \in 1..6 : /\ Down[k].op \in {"dropReference", "dropTable"}
                      /\ Down[k].op = "dropTable" <=> k \in {2, 3, 5, 6}
  OBVIOUS
<1>2. /\ Gone(0) = {} /\ Gone(1) = {} /\ Gone(2) = {2} /\ Gone(3) = {2, 3} /\ Gone(4) = {2, 3}
      /\ Gone(5) = {2, 3, 5} /\ Gone(6) = {2, 3, 5, 6}
  BY <1>1
<1>3. \A k \in 0..6 : TablesKept(k) = Tables \ {Down[i].table : i \in Gone(k)}
  BY DEF TablesKept
<1> HIDE DEF Gone
<1>4. /\ Down[2].table = "edit_logs" /\ Down[3].table = "transactions"
      /\ Down[5].table = "managers" /\ Down[6].table = "businesses"
  OBVIOUS
<1>5. TablesKept(0) = Tables /\ TablesKept(1) = Tables
  <2>1. /\ TablesKept(0) = Tables \ {Down[i].table : i \in Gone(0)}
        /\ TablesKept(1) = Tables \ {Down[i].table : i \in Gone(1)}
    BY <1>3
  <2> QED BY <1>2, <2>1 DEF Tables
<1>6. TablesKept(2) = {"businesses", "managers", "transactions"}
  BY <1>2, <1>3, <1>4 DEF Tables
<1>7. TablesKept(3) = {"businesses", "managers"} /\ TablesKept(4) = {"businesses", "managers"}
  BY <1>2, <1>3, <1>4 DEF Tables
<1>8. TablesKept(5) = {"businesses"} /\ TablesKept(6) = {}
  BY <1>2, <1>3, <1>4 DEF Tables
<1>9. ReferencesKept(1) \subseteq ReferencesMade(12) /\ ReferencesKept(4) \subseteq ReferencesMade(12)
  BY UpStatements DEF ReferencesKept
<1>10. \A r \in ReferencesKept(1) : r.table # "edit_logs"
  <2>1. \A r \in ReferencesKept(1) : r.table # "edit_logs" \/ r.column # "transactionId"
    BY DEF ReferencesKept
  <2> QED BY <1>9, <2>1, KeysMade
<1>11. \A r \in ReferencesKept(4) : r.table \notin {"managers", "edit_logs"}
  <2>1. \A r \in ReferencesKept(4) :
          /\ r.table # "managers" \/ r.column # "businessId"
          /\ r.table \in {"businesses", "managers"}
    BY <1>7 DEF ReferencesKept
  <2> QED BY <1>9, <2>1, KeysMade
<1> QED BY <1>1, <1>5, <1>6, <1>7, <1>8, <1>10, <1>11

\* None of the statements of a reversal is refused when it started from the
\* whole schema, and each leaves what it should.
LEMMA DownGoesOn ==
  ASSUME NEW k \in 0..5
  PROVE  /\ Executable(Down[k + 1], DownTo(k))
         /\ Executed(Down[k + 1], DownTo(k)) = DownTo(k + 1)
<1> DEFINE s == Down[k + 1]
           c == DownTo(k)
<1>1. /\ c = [extension |-> TRUE, tables |-> [t \in TablesKept(k) |-> ColumnsOf(t)],
              indexes |-> {i \in IndexesMade(Len(Up)) : i.table \in TablesKept(k)},
              references |-> ReferencesKept(k)]
      /\ DownTo(k + 1) =
           [extension |-> TRUE, tables |-> [t \in TablesKept(k + 1) |-> ColumnsOf(t)],
            indexes |-> {i \in IndexesMade(Len(Up)) : i.table \in TablesKept(k + 1)},
            references |-> ReferencesKept(k + 1)]
  BY DEF DownTo
<1>2. /\ s.op \in {"dropReference", "dropTable"}
      /\ s.op = "dropTable" <=> k + 1 \in {2, 3, 5, 6}
  <2>1. k + 1 \in 1..6
    OBVIOUS
  <2> QED BY <2>1, DownInOrder
<1>3. 1..(k + 1) = (1..k) \cup {k + 1}
  OBVIOUS
<1>4. TablesKept(k + 1) =
        IF s.op = "dropTable" THEN TablesKept(k) \ {s.table} ELSE TablesKept(k)
  <2> DEFINE Gone(n) == {j \in 1..n : Down[j].op = "dropTable"}
  <2>1. Gone(k + 1) = IF s.op = "dropTable" THEN Gone(k) \cup {k + 1} ELSE Gone(k)
    BY <1>3
  <2>2. {Down[i].table : i \in Gone(k + 1)} =
          IF s.op = "dropTable" THEN {Down[i].table : i \in Gone(k)} \cup {s.table}
          ELSE {Down[i].table : i \in Gone(k)}
    BY <2>1
  <2> HIDE DEF s
  <2> QED BY <2>2 DEF TablesKept
<1>5. ReferencesKept(k + 1) =
        IF s.op = "dropReference"
          THEN {r \in ReferencesKept(k) : r.table # s.table \/ r.column # s.column}
          ELSE {r \in ReferencesKept(k) : r.table # s.table}
  <2>1. CASE s.op = "dropReference"
    BY <1>2, <1>3, <1>4, <2>1 DEF ReferencesKept
  <2>2. CASE s.op = "dropTable"
    BY <1>2, <1>3, <1>4, <2>2 DEF ReferencesKept
  <2> QED BY <1>2, <2>1, <2>2
<1> HIDE DEF c
<1>6. CASE s.op = "dropReference"
  <2>1. Executable(s, c)
    BY <1>6 DEF Executable
  <2>2. Executed(s, c) =
          [c EXCEPT !.references = {r \in @ : r.table # s.table \/ r.column # s.column}]
    BY <1>6 DEF Executed
  <2>3. TablesKept(k + 1) = TablesKept(k)
    BY <1>4, <1>6
  <2> HIDE DEF s
  <2>4. Executed(s, c) = DownTo(k + 1)
    BY <1>1, <1>5, <1>6, <2>2, <2>3
  <2> QED BY <2>1, <2>4 DEF s, c
<1>7. CASE s.op = "dropTable"
  <2>1. s.table \in TablesKept(k) /\ \A r \in ReferencesKept(k) : r.target # s.table
    <3>1. /\ Down[2].table = "edit_logs" /\ Down[3].table = "transactions"
          /\ Down[5].table = "managers" /\ Down[6].table = "businesses"
      BY DownStatements DEF DropTable
    <3>2. \A r \in ReferencesKept(k) :
            /\ r.table \in TablesKept(k)
            /\ \/ r.table = "managers" /\ r.target = "businesses"
               \/ r.table = "edit_logs" /\ r.target = "transactions"
      BY KeysMade, UpStatements DEF ReferencesKept
    <3>3. CASE k = 1
      BY <3>1, <3>2, <3>3, DownInOrder DEF Tables
    <3>4. CASE k = 2
      BY <3>1, <3>2, <3>4, DownInOrder
    <3>5. CASE k = 4
      BY <3>1, <3>2, <3>5, DownInOrder
    <3>6. CASE k = 5
      BY <3>1, <3>2, <3>6, DownInOrder
    <3> QED BY <1>2, <1>7, <3>3, <3>4, <3>5, <3>6
  <2>2. Executable(s, c)
    <3>1. DOMAIN c.tables = TablesKept(k) /\ c.references = ReferencesKept(k)
      BY <1>1
    <3> QED BY <1>7, <2>1, <3>1 DEF Executable, Has
  <2>3. Executed(s, c) =
          [c EXCEPT !.tables = [t \in DOMAIN @ \ {s.table} |-> @[t]],
                    !.indexes = {i \in @ : i.table # s.table},
                    !.references = {r \in @ : r.table # s.table}]
    BY <1>7 DEF Executed
  <2>4. TablesKept(k + 1) = TablesKept(k) \ {s.table}
    BY <1>4, <1>7
  <2>5. ReferencesKept(k + 1) = {r \in ReferencesKept(k) : r.table # s.table}
    BY <1>5, <1>7
  <2> HIDE DEF s
  <2>6. [t \in DOMAIN c.tables \ {s.table} |-> c.tables[t]]
          = [t \in TablesKept(k + 1) |-> ColumnsOf(t)]
    BY <1>1, <2>4
  <2>7. {i \in c.indexes : i.table # s.table}
          = {i \in IndexesMade(Len(Up)) : i.table \in TablesKept(k + 1)}
    BY <1>1, <2>4
  <2>8. {r \in c.references : r.table # s.table} = ReferencesKept(k + 1)
    BY <1>1, <2>5
  <2>9. Executed(s, c) = DownTo(k + 1)
    BY <1>1, <2>3, <2>6, <2>7, <2>8
  <2> QED BY <2>2, <2>9 DEF s, c
<1> QED BY <1>2, <1>6, <1>7 DEF s, c

\* Both sequences begin and end at a catalog that may be committed.
LEMMA Ends ==
  /\ UpTo(0) = Bare(FALSE) /\ UpTo(1) = Bare(TRUE) /\ UpTo(12) = Whole
  /\ DownTo(0) = Whole /\ DownTo(6) = Bare(TRUE)
<1>1. (0 > 0) = FALSE /\ (1 > 0) = TRUE /\ (12 > 0) = TRUE
  OBVIOUS
<1>2. TablesMade(0) = {} /\ IndexesMade(0) = {} /\ ReferencesMade(0) = {}
  BY DEF TablesMade, IndexesMade, ReferencesMade, Done
<1>3. TablesMade(1) = {} /\ IndexesMade(1) = {} /\ ReferencesMade(1) = {}
  <2>1. Done(1, "table") = {} /\ Done(1, "index") = {} /\ Done(1, "reference") = {}
    BY UpStatements DEF CreateExtension, Done
  <2> QED BY <2>1 DEF TablesMade, IndexesMade, ReferencesMade
<1>4. [t \in {} |-> ColumnsOf(t)] = NoColumns
  BY DEF NoColumns
<1>5. UpTo(0) = Bare(FALSE)
  BY <1>1, <1>2, <1>4 DEF UpTo, Bare
<1>6. UpTo(1) = Bare(TRUE)
  BY <1>1, <1>3, <1>4 DEF UpTo, Bare
<1>7. UpTo(12) = Whole /\ Whole.extension = TRUE
  BY <1>1, UpStatements DEF Whole, UpTo
<1>8. {i \in IndexesMade(Len(Up)) : i.table \in {}} = {}
  OBVIOUS
<1>9. ReferencesKept(6) = {} /\ {i \in IndexesMade(Len(Up)) : i.table \in TablesKept(6)} = {}
  BY DownInOrder DEF ReferencesKept
<1>10. DownTo(6) = Bare(TRUE)
  BY <1>4, <1>9, DownInOrder DEF DownTo, Bare
<1>11. ReferencesKept(0) = ReferencesMade(12)
  BY KeysMade, DownInOrder, UpStatements DEF ReferencesKept, Tables
<1>12. {i \in IndexesMade(12) : i.table \in TablesKept(0)} = IndexesMade(12)
  BY KeysMade, DownInOrder
<1>13. DownTo(0) = UpTo(12)
  BY <1>1, <1>11, <1>12, KeysMade, DownInOrder, UpStatements DEF DownTo, UpTo
<1> QED BY <1>5, <1>6, <1>7, <1>10, <1>13

\* What tells the catalogs apart.
LEMMA CatalogsDiffer ==
  /\ \A k \in 1..12 : UpTo(k).extension = TRUE
  /\ \A k \in 2..12 : Has(UpTo(k), "businesses")
  /\ \A b \in BOOLEAN : Bare(b).extension = b /\ \A t : ~Has(Bare(b), t)
  /\ \A b \in BOOLEAN : Bare(b).references = {}
  /\ Whole.extension = TRUE /\ \A t \in Tables : Has(Whole, t)
  /\ Whole.references = ReferencesMade(12)
  /\ \E r \in Whole.references : r.table = "edit_logs" /\ r.column = "transactionId"
  /\ \A r \in Whole.references : r.target # "edit_logs"
  /\ \A k \in 1..6 : \A r \in DownTo(k).references : r.table # "edit_logs"
<1>1. ASSUME NEW k \in 1..12
      PROVE  UpTo(k).extension = TRUE /\ (k > 1 => Has(UpTo(k), "businesses"))
  <2>1. (k > 0) = TRUE
    OBVIOUS
  <2>2. UpTo(k).extension = TRUE /\ DOMAIN UpTo(k).tables = TablesMade(k)
    BY <2>1 DEF UpTo
  <2>3. k > 1 => 2 \in Done(k, "table") /\ Up[2].table = "businesses"
    BY UpStatements DEF Done, CreateTable
  <2>4. k > 1 => "businesses" \in TablesMade(k)
    BY <2>3 DEF TablesMade
  <2> QED BY <2>2, <2>4 DEF Has
<1>2. ASSUME NEW b \in BOOLEAN
      PROVE  Bare(b).extension = b /\ Bare(b).references = {} /\ \A t : ~Has(Bare(b), t)
  BY DEF Bare, NoColumns, Has
<1>3. /\ Whole.extension = TRUE /\ Whole.references = ReferencesMade(12)
      /\ DOMAIN Whole.tables = TablesMade(12)
  <2>1. (12 > 0) = TRUE
    OBVIOUS
  <2> QED BY <2>1, UpStatements DEF Whole, UpTo
<1>4. \A t \in Tables : Has(Whole, t)
  BY <1>3, KeysMade DEF Has
<1>5. /\ \E r \in Whole.references : r.table = "edit_logs" /\ r.column = "transactionId"
      /\ \A r \in Whole.references : r.target # "edit_logs"
  <2>1. [table |-> "edit_logs", column |-> "transactionId", target |-> "transactions"]
          \in Whole.references
    BY <1>3, KeysMade
  <2> QED BY <1>3, <2>1, KeysMade
<1>6. ASSUME NEW k \in 1..6, NEW r \in DownTo(k).references
      PROVE  r.table # "edit_logs"
  <2>1. r \in ReferencesKept(k)
    BY DEF DownTo
  <2>2. r \in ReferencesKept(1)
    <3>1. r \in ReferencesMade(Len(Up)) /\ r.table \in TablesKept(1)
      BY <2>1, DownInOrder, KeysMade, UpStatements DEF ReferencesKept, TablesKept
    <3>2. \A i \in 1..1 : i \in 1..k
      OBVIOUS
    <3> QED BY <2>1, <3>1, <3>2 DEF ReferencesKept
  <2> QED BY <2>2, DownInOrder
<1>7. \A k \in 2..12 : k \in 1..12 /\ k > 1
  OBVIOUS
<1> QED BY <1>1, <1>2, <1>3, <1>4, <1>5, <1>6, <1>7

\* The first two statements of a command, as they meet what is committed.
LEMMA FirstStatements ==
  /\ \A c : Executable(Up[1], c) /\ Executable(Down[1], c)
  /\ \A b \in BOOLEAN :
       /\ Executed(Up[1], Bare(b)) = Bare(TRUE)
       /\ Executed(Down[1], Bare(b)) = Bare(b)
       /\ ~Executable(Down[2], Bare(b))
  /\ Executed(Up[1], Whole) = Whole
  /\ ~Executable(Up[2], Whole)
  /\ Executable(Up[2], Bare(TRUE)) /\ Executed(Up[2], Bare(TRUE)) = UpTo(2)
  /\ Executed(Down[1], Whole) = DownTo(1)
  /\ Executable(Down[2], Whole) /\ Executed(Down[2], Whole) = DownTo(2)
<1>1. /\ Up[1] = CreateExtension /\ Up[2] = CreateTable("businesses", BusinessColumns)
      /\ Down[1] = DropForeignKey("edit_logs", "transactionId")
      /\ Down[2] = DropTable("edit_logs")
  BY UpStatements, DownStatements
<1>2. \A c : Executable(Up[1], c) /\ Executable(Down[1], c)
  BY <1>1 DEF Executable, CreateExtension, DropForeignKey
<1>3. ASSUME NEW b \in BOOLEAN
      PROVE  /\ Executed(Up[1], Bare(b)) = Bare(TRUE)
             /\ Executed(Down[1], Bare(b)) = Bare(b)
             /\ ~Executable(Down[2], Bare(b))
  <2>1. Executed(Up[1], Bare(b)) = Bare(TRUE)
    <3>1. Executed(Up[1], Bare(b)) = [Bare(b) EXCEPT !.extension = TRUE]
      BY <1>1 DEF Executed, CreateExtension
    <3> QED BY <3>1 DEF Bare
  <2>2. Executed(Down[1], Bare(b)) = Bare(b)
    BY <1>1 DEF Executed, DropForeignKey, Bare
  <2>3. ~Executable(Down[2], Bare(b))
    BY <1>1, CatalogsDiffer DEF Executable, DropTable
  <2> QED BY <2>1, <2>2, <2>3
<1>4. Executed(Up[1], Whole) = Whole
  <2>1. (12 > 0) = TRUE
    OBVIOUS
  <2>2. Whole = [extension |-> TRUE, tables |-> Whole.tables,
                 indexes |-> Whole.indexes, references |-> Whole.references]
    BY <2>1, UpStatements DEF Whole, UpTo
  <2>3. Executed(Up[1], Whole) = [Whole EXCEPT !.extension = TRUE]
    BY <1>1 DEF Executed, CreateExtension
  <2> QED BY <2>2, <2>3
<1>5. ~Executable(Up[2], Whole)
  BY <1>1, CatalogsDiffer DEF Executable, CreateTable, Tables
<1>6. Executable(Up[2], Bare(TRUE)) /\ Executed(Up[2], Bare(TRUE)) = UpTo(2)
  <2>1. 1 \in 0..11 /\ 1 + 1 = 2
    OBVIOUS
  <2> QED BY <2>1, UpGoesOn, Ends
<1>7. Executed(Down[1], Whole) = DownTo(1)
  <2>1. 0 \in 0..5 /\ 0 + 1 = 1
    OBVIOUS
  <2> QED BY <2>1, DownGoesOn, Ends
<1>8. Executable(Down[2], Whole)
  BY <1>1, CatalogsDiffer DEF Executable, DropTable, Tables
<1>9. Executed(Down[2], Whole) = DownTo(2)
  <2> DEFINE After(c) == [c EXCEPT !.tables = [t \in DOMAIN @ \ {"edit_logs"} |-> @[t]],
                                   !.indexes = {i \in @ : i.table # "edit_logs"},
                                   !.references = {r \in @ : r.table # "edit_logs"}]
  <2>1. \A c : Executed(Down[2], c) = After(c)
    BY <1>1 DEF Executed, DropTable
  <2>2. Executed(Down[2], DownTo(1)) = DownTo(2)
    <3>1. 1 \in 0..5 /\ 1 + 1 = 2
      OBVIOUS
    <3> QED BY <3>1, DownGoesOn
  <2> DEFINE T == [t \in Tables |-> ColumnsOf(t)]
             I == {i \in IndexesMade(Len(Up)) : i.table \in Tables}
             Catalog(keys) ==
               [extension |-> TRUE, tables |-> T, indexes |-> I, references |-> keys]
  <2>3. Whole = Catalog(Whole.references) /\ DownTo(1) = Catalog(ReferencesKept(1))
    <3>1. DownTo(0) = Catalog(ReferencesKept(0)) /\ DownTo(1) = Catalog(ReferencesKept(1))
      BY DownInOrder DEF DownTo
    <3> QED BY <3>1, Ends
  <2>4. {r \in Whole.references : r.table # "edit_logs"}
          = {r \in ReferencesKept(1) : r.table # "edit_logs"}
    <3>1. Whole.references = ReferencesMade(Len(Up))
      BY CatalogsDiffer, UpStatements
    <3>2. \A i \in 1..1 : i = 1
      OBVIOUS
    <3>3. Down[1].table = "edit_logs"
      BY <1>1 DEF DropForeignKey
    <3>4. \A r \in ReferencesMade(Len(Up)) : r.table \in TablesKept(1)
      BY KeysMade, DownInOrder, UpStatements DEF Tables
    <3> QED BY <3>1, <3>2, <3>3, <3>4 DEF ReferencesKept
  <2> HIDE DEF T, I
  <2>5. After(Whole) = After(DownTo(1))
    <3>1. ASSUME NEW keys
          PROVE  After(Catalog(keys)) =
                   [extension |-> TRUE, tables |-> [t \in DOMAIN T \ {"edit_logs"} |-> T[t]],
                    indexes |-> {i \in I : i.table # "edit_logs"},
                    references |-> {r \in keys : r.table # "edit_logs"}]
      <4> DEFINE c == Catalog(keys)
      <4>1. c = Catalog(keys) /\ c.tables = T /\ c.indexes = I /\ c.references = keys
        OBVIOUS
      <4> HIDE DEF c
      <4> DEFINE A == [t \in DOMAIN c.tables \ {"edit_logs"} |-> c.tables[t]]
                 B == {i \in c.indexes : i.table # "edit_logs"}
                 C == {r \in c.references : r.table # "edit_logs"}
      <4>2. A = [t \in DOMAIN T \ {"edit_logs"} |-> T[t]]
        BY <4>1
      <4>3. /\ B = {i \in I : i.table # "edit_logs"}
            /\ C = {r \in keys : r.table # "edit_logs"}
        BY <4>1
      <4>4. After(c) = [[[c EXCEPT !.tables = A] EXCEPT !.indexes = B] EXCEPT !.references = C]
        OBVIOUS
      <4> HIDE DEF A, B, C, After
      <4>5. After(c) = [extension |-> TRUE, tables |-> A, indexes |-> B, references |-> C]
        BY <4>1, <4>4
      <4> QED BY <4>1, <4>2, <4>3, <4>5
    <3> HIDE DEF After, Catalog
    <3>2. After(Catalog(Whole.references)) = After(Catalog(ReferencesKept(1)))
      BY <2>4, <3>1
    <3> QED BY <2>3, <3>2
  <2> QED BY <2>1, <2>2, <2>5
<1> QED BY <1>2, <1>3, <1>4, <1>5, <1>6, <1>7, <1>8, <1>9

-----------------------------------------------------------------------------
(* The steps of deployers.                                                 *)

\* A transaction that is under way reaches what its statements make.
LEMMA OwnerExecutes ==
  ASSUME SchemaInv, NEW d \in Deployers, owner = d, InProgress(d)
  PROVE  /\ Executable(Current(d), View(d))
         /\ Executed(Current(d), View(d)) = Reached(task[d], step[d] + 1)
<1> USE SchemaAssumption DEF SchemaInv
<1>1. /\ View(d) = Reached(task[d], step[d]) /\ task[d] \in {"up", "down"}
      /\ step[d] \in 1..Len(Statements(d)) /\ step[d] < Len(Statements(d))
  BY DEF OwnerGoesOn, SchemaTypeOK, View, InProgress
<1>2. CASE task[d] = "up"
  <2>1. Statements(d) = Up
    BY <1>2 DEF Statements
  <2>2. step[d] \in 0..11 /\ Current(d) = Up[step[d] + 1]
    BY <1>1, <2>1, UpStatements DEF Current
  <2> QED BY <1>1, <1>2, <2>2, UpGoesOn DEF Reached
<1>3. CASE task[d] = "down"
  <2>1. Statements(d) = Down
    BY <1>3 DEF Statements
  <2>2. step[d] \in 0..5 /\ Current(d) = Down[step[d] + 1]
    BY <1>1, <2>1, DownStatements DEF Current
  <2> QED BY <1>1, <1>3, <2>2, DownGoesOn DEF Reached
<1> QED BY <1>1, <1>2, <1>3

\* A command that changes something for the first time does so to what is
\* committed, when nobody else has a transaction open.
LEMMA OtherExecutes ==
  ASSUME SchemaInv, NEW d \in Deployers, owner # d, InProgress(d),
         ~Waits(d, Current(d)), Executable(Current(d), View(d)),
         NEW c, c = Executed(Current(d), View(d))
  PROVE  \/ /\ c = View(d) /\ step[d] = 0
            /\ task[d] = "up" => catalog.extension
         \/ /\ c # View(d) /\ owner = Nobody
            /\ c = Reached(task[d], step[d] + 1)
            /\ recorded <=> task[d] = "down"
            /\ task[d] = "up" /\ catalog.extension => step[d] + 1 > 1
<1> USE SchemaAssumption DEF SchemaInv
<1>1. /\ View(d) = catalog /\ task[d] \in {"up", "down"} /\ step[d] \in {0, 1}
      /\ task[d] = "up" /\ step[d] = 1 => catalog.extension
  BY DEF OthersAtStart, SchemaTypeOK, View, InProgress
<1>2. \/ recorded = TRUE /\ catalog = Whole
      \/ recorded = FALSE /\ \E b \in BOOLEAN : catalog = Bare(b)
  BY DEF CatalogRecorded, SchemaTypeOK
<1>3. owner # Nobody =>
        /\ task[owner] \in {"up", "down"} /\ (recorded <=> task[owner] = "down")
        /\ task[owner] = "up" => /\ step[owner] \in 1..12 /\ draft = UpTo(step[owner])
                                 /\ catalog.extension => step[owner] > 1
        /\ task[owner] = "down" => step[owner] \in 1..6 /\ draft = DownTo(step[owner])
  BY UpStatements, DownStatements DEF OwnerGoesOn, SchemaTypeOK, Reached, Statements
<1>4. owner # Nobody => ~Touched(Current(d))
  BY DEF Waits
<1>5. CASE task[d] = "up" /\ step[d] = 0
  <2>1. Current(d) = Up[1] /\ Up[1].op = "extension"
    BY <1>5, UpStatements DEF Current, Statements, CreateExtension
  <2>2. CASE catalog = Whole
    BY <1>1, <1>5, <2>1, <2>2, FirstStatements, CatalogsDiffer
  <2>3. CASE catalog = Bare(TRUE)
    BY <1>1, <1>5, <2>1, <2>3, FirstStatements, CatalogsDiffer
  <2>4. CASE recorded = FALSE /\ catalog = Bare(FALSE)
    <3>1. c = UpTo(1) /\ c # catalog /\ catalog.extension = FALSE
      BY <1>1, <2>1, <2>4, FirstStatements, CatalogsDiffer, Ends
    <3>2. owner = Nobody
      <4> SUFFICES ASSUME owner # Nobody PROVE FALSE
        OBVIOUS
      <4>1. draft.extension = TRUE
        BY <1>3, <2>4, CatalogsDiffer
      <4> QED BY <1>4, <2>1, <3>1, <4>1 DEF Touched
    <3>3. ~recorded /\ task[d] # "down" /\ step[d] + 1 = 1
      BY <1>5, <2>4
    <3>4. c = Reached(task[d], step[d] + 1) /\ ~catalog.extension
      BY <1>5, <3>1, <3>3 DEF Reached
    <3> QED BY <1>1, <3>1, <3>2, <3>3, <3>4
  <2> QED BY <1>2, <2>2, <2>3, <2>4
<1>6. CASE task[d] = "up" /\ step[d] = 1
  <2>1. Current(d) = Up[2] /\ Up[2].op = "table" /\ Up[2].table = "businesses"
    BY <1>6, UpStatements DEF Current, Statements, CreateTable
  <2>2. recorded = FALSE /\ catalog = Bare(TRUE)
    BY <1>1, <1>2, <1>6, <2>1, FirstStatements, CatalogsDiffer
  <2>3. c = UpTo(2) /\ c # catalog /\ ~Has(catalog, "businesses")
    <3>1. c = UpTo(2)
      BY <1>1, <2>1, <2>2, FirstStatements
    <3>2. 2 \in 2..12
      OBVIOUS
    <3>3. Has(c, "businesses") /\ ~Has(catalog, "businesses")
      BY <2>2, <3>1, <3>2, CatalogsDiffer
    <3> QED BY <3>1, <3>3
  <2>4. owner = Nobody
    <3> SUFFICES ASSUME owner # Nobody PROVE FALSE
      OBVIOUS
    <3>0. ~recorded /\ catalog.extension
      BY <1>1, <1>6, <2>2
    <3>1. step[owner] \in 2..12 /\ draft = UpTo(step[owner])
      <4>1. task[owner] = "up"
        BY <1>3, <3>0
      <4>2. step[owner] \in 1..12 /\ step[owner] > 1 /\ draft = UpTo(step[owner])
        BY <1>3, <3>0, <4>1
      <4> QED BY <4>2
    <3>2. Has(draft, "businesses")
      BY <3>1, CatalogsDiffer
    <3> QED BY <1>4, <2>1, <2>3, <3>2 DEF Touched
  <2>5. ~recorded /\ task[d] # "down" /\ step[d] + 1 = 2 /\ 2 > 1
    BY <1>6, <2>2
  <2>6. c = Reached(task[d], step[d] + 1)
    BY <1>6, <2>3, <2>5 DEF Reached
  <2> QED BY <1>1, <2>3, <2>4, <2>5, <2>6
<1>7. CASE task[d] = "down"
  <2>1. /\ step[d] = 0 => Current(d) = Down[1]
        /\ step[d] = 1 => Current(d) = Down[2]
    BY <1>7 DEF Current, Statements
  <2>2. \A k \in {1, 2} : Down[k].op # "extension" /\ Down[k].table = "edit_logs"
    BY DownStatements DEF DropForeignKey, DropTable
  <2>3. CASE recorded = FALSE /\ \E b \in BOOLEAN : catalog = Bare(b)
    <3>1. step[d] = 0
      BY <1>1, <2>1, <2>3, FirstStatements
    <3> QED BY <1>1, <1>7, <2>1, <2>3, <3>1, FirstStatements
  <2>4. CASE recorded = TRUE /\ catalog = Whole
    <3>1. PICK r \in catalog.references : r.table = "edit_logs"
      BY <2>4, CatalogsDiffer
    <3>2. c = DownTo(step[d] + 1) /\ step[d] + 1 \in 1..6
      BY <1>1, <2>1, <2>4, FirstStatements
    <3>3. c # catalog
      BY <3>1, <3>2, CatalogsDiffer
    <3>4. owner = Nobody
      <4> SUFFICES ASSUME owner # Nobody PROVE FALSE
        OBVIOUS
      <4>1. \A k \in draft.references : k.table # "edit_logs"
        BY <1>3, <2>4, CatalogsDiffer
      <4>2. Current(d).op # "extension" /\ Current(d).table = "edit_logs"
        BY <1>1, <2>1, <2>2
      <4>3. {k \in catalog.references : k.table = Current(d).table}
              # {k \in draft.references : k.table = Current(d).table}
        BY <3>1, <4>1, <4>2
      <4> QED BY <1>4, <4>2, <4>3 DEF Touched
    <3> QED BY <1>1, <1>7, <2>4, <3>2, <3>3, <3>4 DEF Reached
  <2> QED BY <1>2, <2>3, <2>4
<1> QED BY <1>1, <1>5, <1>6, <1>7

-----------------------------------------------------------------------------
(* The whole schema is what the entities need.                             *)

\* What columns are called, and which of them have a mark: plain ones have none.
LEMMA ColumnParts ==
  ASSUME NEW S, NEW T
  PROVE  /\ Names(Plain(S) \cup T) = S \cup Names(T)
         /\ \A mark : Marked(Plain(S) \cup T, mark) = Marked(T, mark)
<1>1. \A n \in S : Column(n, {}) \in Plain(S) /\ Column(n, {}).name = n
  BY DEF Plain, Column
<1>2. \A col \in Plain(S) : col.name \in S /\ col.marks = {}
  BY DEF Plain, Column
<1>3. Names(Plain(S) \cup T) \subseteq S \cup Names(T)
  BY <1>2 DEF Names
<1>4. S \cup Names(T) \subseteq Names(Plain(S) \cup T)
  BY <1>1 DEF Names
<1>5. ASSUME NEW mark
      PROVE  {k \in Plain(S) \cup T : mark \in k.marks} = {k \in T : mark \in k.marks}
  BY <1>2
<1> QED BY <1>3, <1>4, <1>5 DEF Marked

\* The tables, indexes and keys of the whole schema.
LEMMA WholeParts ==
  /\ \A t \in Tables : Has(Whole, t) /\ Whole.tables[t] = ColumnsOf(t)
  /\ Whole.indexes = {Up[4].index, Up[7].index, Up[8].index, Up[9].index, Up[11].index}
  /\ Whole.references = {Up[5].key, Up[12].key}
<1>1. /\ DOMAIN Whole.tables = Tables /\ \A t \in Tables : Whole.tables[t] = ColumnsOf(t)
      /\ Whole.indexes = IndexesMade(12) /\ Whole.references = ReferencesMade(12)
  BY KeysMade, UpStatements DEF Whole, UpTo
<1>2. /\ Done(12, "reference") = {5, 12}
      /\ Done(12, "index") = {4, 7, 8, 9, 11}
  <2>1. \A i \in 1..12 : /\ Up[i].op = "reference" <=> i \in {5, 12}
                         /\ Up[i].op = "index" <=> i \in {4, 7, 8, 9, 11}
    BY UpStatements DEF CreateExtension, CreateTable, CreateIndex, CreateForeignKey
  <2>2. /\ \A i \in {5, 12} : i \in 1..12
        /\ \A i \in {4, 7, 8, 9, 11} : i \in 1..12
    OBVIOUS
  <2> QED BY <2>1, <2>2 DEF Done
<1>3. ReferencesMade(12) = {Up[5].key, Up[12].key}
  BY <1>2 DEF ReferencesMade
<1>4. IndexesMade(12) = {Up[4].index, Up[7].index, Up[8].index, Up[9].index, Up[11].index}
  BY <1>2 DEF IndexesMade
<1> QED BY <1>1, <1>3, <1>4 DEF Has

\* The names of a few columns.
LEMMA FewNames ==
  ASSUME NEW a, NEW b, NEW c
  PROVE  /\ Names({}) = {} /\ Names({a}) = {a.name} /\ Names({a, b}) = {a.name, b.name}
         /\ Names({a, b, c}) = {a.name, b.name, c.name}
BY DEF Names

\* Each entity finds its table as it declares it.
LEMMA WholeFits == \A e \in Entities : Fits(e, Whole)
<1>1. /\ Up[4].index = [table |-> "managers", name |-> "idx_manager_business_id",
                        columns |-> {"businessId"}]
      /\ Up[7].index = [table |-> "transactions", name |-> "idx_transaction_duplicate_lookup",
                        columns |-> {"transactionId", "amount", "timestamp"}]
      /\ Up[8].index = [table |-> "transactions", name |-> "idx_transaction_telegram_user_id",
                        columns |-> {"telegramUserId"}]
      /\ Up[9].index = [table |-> "transactions", name |-> "idx_transaction_created_at",
                        columns |-> {"createdAt"}]
      /\ Up[11].index = [table |-> "edit_logs", name |-> "idx_edit_log_transaction_id",
                         columns |-> {"transactionId"}]
      /\ Up[5].key = [table |-> "managers", column |-> "businessId", target |-> "businesses"]
      /\ Up[12].key = [table |-> "edit_logs", column |-> "transactionId",
                       target |-> "transactions"]
  BY UpStatements DEF CreateIndex, CreateForeignKey
<1> DEFINE IndexesOf(t) == {i.columns : i \in {k \in Whole.indexes : k.table = t}}
           KeysOf(t) == {<<k.column, k.target>> : k \in {r \in Whole.references : r.table = t}}
<1>2. /\ IndexesOf("businesses") = {} /\ IndexesOf("managers") = {{"businessId"}}
      /\ IndexesOf("transactions") =
           {{"transactionId", "amount", "timestamp"}, {"telegramUserId"}, {"createdAt"}}
      /\ IndexesOf("edit_logs") = {{"transactionId"}}
  <2>1. {k \in Whole.indexes : k.table = "businesses"} = {}
    BY <1>1, WholeParts
  <2>2. {k \in Whole.indexes : k.table = "managers"} = {Up[4].index}
    BY <1>1, WholeParts
  <2>3. {k \in Whole.indexes : k.table = "transactions"} =
          {Up[7].index, Up[8].index, Up[9].index}
    BY <1>1, WholeParts
  <2>4. {k \in Whole.indexes : k.table = "edit_logs"} = {Up[11].index}
    BY <1>1, WholeParts
  <2>5. IndexesOf("businesses") = {}
    BY <2>1
  <2>6. IndexesOf("managers") = {Up[4].index.columns}
    BY <2>2
  <2>7. IndexesOf("transactions") =
          {Up[7].index.columns, Up[8].index.columns, Up[9].index.columns}
    BY <2>3
  <2>8. IndexesOf("edit_logs") = {Up[11].index.columns}
    BY <2>4
  <2>9. /\ Up[4].index.columns = {"businessId"} /\ Up[11].index.columns = {"transactionId"}
        /\ Up[7].index.columns = {"transactionId", "amount", "timestamp"}
        /\ Up[8].index.columns = {"telegramUserId"} /\ Up[9].index.columns = {"createdAt"}
    BY <1>1
  <2> HIDE DEF IndexesOf
  <2>10. IndexesOf("managers") = {{"businessId"}} /\ IndexesOf("edit_logs") = {{"transactionId"}}
    BY <2>6, <2>8, <2>9
  <2>11. IndexesOf("transactions") =
           {{"transactionId", "amount", "timestamp"}, {"telegramUserId"}, {"createdAt"}}
    BY <2>7, <2>9
  <2> QED BY <2>5, <2>10, <2>11
<1>3. /\ KeysOf("businesses") = {} /\ KeysOf("managers") = {<<"businessId", "businesses">>}
      /\ KeysOf("transactions") = {}
      /\ KeysOf("edit_logs") = {<<"transactionId", "transactions">>}
  <2>1. /\ {r \in Whole.references : r.table = "businesses"} = {}
        /\ {r \in Whole.references : r.table = "transactions"} = {}
        /\ {r \in Whole.references : r.table = "managers"} = {Up[5].key}
        /\ {r \in Whole.references : r.table = "edit_logs"} = {Up[12].key}
    BY <1>1, WholeParts
  <2> QED BY <1>1, <2>1
<1> HIDE DEF IndexesOf, KeysOf
<1>4. \A t \in Tables : Has(Whole, t) /\ Whole.tables[t] = ColumnsOf(t)
  BY WholeParts
<1>5. ASSUME NEW e, e.table \in Tables,
             Names(ColumnsOf(e.table)) = e.supplied \cup e.generated \cup e.optional,
             e.generated = Marked(ColumnsOf(e.table), "default"),
             e.optional = Marked(ColumnsOf(e.table), "nullable"),
             e.unique = Marked(ColumnsOf(e.table), "unique"),
             e.indexes = IndexesOf(e.table), e.keys = KeysOf(e.table)
      PROVE  Fits(e, Whole)
  BY <1>4, <1>5 DEF Fits, IndexesOf, KeysOf
<1>0. /\ Id.name = "id" /\ \A n, m : Column(n, m).name = n
      /\ \A columns, mark : Marked(columns, mark) = Names({k \in columns : mark \in k.marks})
  BY DEF Id, Column, Marked, Names
<1>6. Fits(BusinessEntity, Whole)
  <2> DEFINE T == {Id, Column("name", {"unique"}), Column("createdAt", {"default"})}
             P == {}
  <2>1. ColumnsOf("businesses") = Plain(P) \cup T
    BY DEF ColumnsOf, BusinessColumns, Plain
  <2>2. Names(T) = {"id", "name", "createdAt"}
    BY DEF Names, Column, Id
  <2>3. Marked(T, "default") = {"id", "createdAt"}
    <3> DEFINE D == {Id, Column("createdAt", {"default"})}
    <3>1. {k \in T : "default" \in k.marks} = D
      BY DEF Column, Id
    <3>2. Names(D) = {Id.name, Column("createdAt", {"default"}).name}
      BY FewNames
    <3> HIDE DEF T, D
    <3>3. Marked(T, "default") = Names(D)
      BY <1>0, <3>1
    <3> QED BY <1>0, <3>2, <3>3
  <2>4. Marked(T, "nullable") = {}
    <3> DEFINE D == {}
    <3>1. {k \in T : "nullable" \in k.marks} = D
      BY DEF Column, Id
    <3>2. Names(D) = {}
      BY FewNames
    <3> HIDE DEF T, D
    <3>3. Marked(T, "nullable") = Names(D)
      BY <1>0, <3>1
    <3> QED BY <1>0, <3>2, <3>3
  <2>5. Marked(T, "unique") = {"name"}
    <3> DEFINE D == {Column("name", {"unique"})}
    <3>1. {k \in T : "unique" \in k.marks} = D
      BY DEF Column, Id
    <3>2. Names(D) = {Column("name", {"unique"}).name}
      BY FewNames
    <3> HIDE DEF T, D
    <3>3. Marked(T, "unique") = Names(D)
      BY <1>0, <3>1
    <3> QED BY <1>0, <3>2, <3>3
  <2> HIDE DEF T, P
  <2>6. /\ Names(ColumnsOf("businesses")) = P \cup Names(T)
        /\ \A mark : Marked(ColumnsOf("businesses"), mark) = Marked(T, mark)
    <3>1. /\ Names(Plain(P) \cup T) = P \cup Names(T)
          /\ \A mark : Marked(Plain(P) \cup T, mark) = Marked(T, mark)
      BY ColumnParts
    <3> QED BY <2>1, <3>1
  <2>7. /\ BusinessEntity.table = "businesses" /\ "businesses" \in Tables
        /\ BusinessEntity.supplied = {"name"}
        /\ BusinessEntity.generated = {"id", "createdAt"}
        /\ BusinessEntity.optional = {}
        /\ BusinessEntity.unique = {"name"}
    BY DEF BusinessEntity, Tables, P
  <2>8. /\ BusinessEntity.indexes = IndexesOf("businesses")
        /\ BusinessEntity.keys = KeysOf("businesses")
    BY <1>2, <1>3 DEF BusinessEntity
  <2>9. /\ BusinessEntity.generated = Marked(ColumnsOf("businesses"), "default")
        /\ BusinessEntity.optional = Marked(ColumnsOf("businesses"), "nullable")
        /\ BusinessEntity.unique = Marked(ColumnsOf("businesses"), "unique")
    BY <2>3, <2>4, <2>5, <2>6, <2>7
  <2>10. Names(ColumnsOf("businesses")) =
           BusinessEntity.supplied \cup BusinessEntity.generated \cup BusinessEntity.optional
    BY <2>2, <2>6, <2>7 DEF P
  <2> QED BY <1>5, <2>7, <2>8, <2>9, <2>10
<1>7. Fits(ManagerEntity, Whole)
  <2> DEFINE T == {Id, Column("email", {"unique"})}
             P == {"businessId", "passwordHash"}
  <2>1. ColumnsOf("managers") = Plain(P) \cup T
    BY DEF ColumnsOf, ManagerColumns, Plain
  <2>2. Names(T) = {"id", "email"}
    BY DEF Names, Column, Id
  <2>3. Marked(T, "default") = {"id"}
    <3> DEFINE D == {Id}
    <3>1. {k \in T : "default" \in k.marks} = D
      BY DEF Column, Id
    <3>2. Names(D) = {Id.name}
      BY FewNames
    <3> HIDE DEF T, D
    <3>3. Marked(T, "default") = Names(D)
      BY <1>0, <3>1
    <3> QED BY <1>0, <3>2, <3>3
  <2>4. Marked(T, "nullable") = {}
    <3> DEFINE D == {}
    <3>1. {k \in T : "nullable" \in k.marks} = D
      BY DEF Column, Id
    <3>2. Names(D) = {}
      BY FewNames
    <3> HIDE DEF T, D
    <3>3. Marked(T, "nullable") = Names(D)
      BY <1>0, <3>1
    <3> QED BY <1>0, <3>2, <3>3
  <2>5. Marked(T, "unique") = {"email"}
    <3> DEFINE D == {Column("email", {"unique"})}
    <3>1. {k \in T : "unique" \in k.marks} = D
      BY DEF Column, Id
    <3>2. Names(D) = {Column("email", {"unique"}).name}
      BY FewNames
    <3> HIDE DEF T, D
    <3>3. Marked(T, "unique") = Names(D)
      BY <1>0, <3>1
    <3> QED BY <1>0, <3>2, <3>3
  <2> HIDE DEF T, P
  <2>6. /\ Names(ColumnsOf("managers")) = P \cup Names(T)
        /\ \A mark : Marked(ColumnsOf("managers"), mark) = Marked(T, mark)
    <3>1. /\ Names(Plain(P) \cup T) = P \cup Names(T)
          /\ \A mark : Marked(Plain(P) \cup T, mark) = Marked(T, mark)
      BY ColumnParts
    <3> QED BY <2>1, <3>1
  <2>7. /\ ManagerEntity.table = "managers" /\ "managers" \in Tables
        /\ ManagerEntity.supplied = {"businessId", "email", "passwordHash"}
        /\ ManagerEntity.generated = {"id"}
        /\ ManagerEntity.optional = {}
        /\ ManagerEntity.unique = {"email"}
    BY DEF ManagerEntity, Tables, P
  <2>8. /\ ManagerEntity.indexes = IndexesOf("managers")
        /\ ManagerEntity.keys = KeysOf("managers")
    BY <1>2, <1>3 DEF ManagerEntity
  <2>9. /\ ManagerEntity.generated = Marked(ColumnsOf("managers"), "default")
        /\ ManagerEntity.optional = Marked(ColumnsOf("managers"), "nullable")
        /\ ManagerEntity.unique = Marked(ColumnsOf("managers"), "unique")
    BY <2>3, <2>4, <2>5, <2>6, <2>7
  <2>10. Names(ColumnsOf("managers")) =
           ManagerEntity.supplied \cup ManagerEntity.generated \cup ManagerEntity.optional
    BY <2>2, <2>6, <2>7 DEF P
  <2> QED BY <1>5, <2>7, <2>8, <2>9, <2>10
<1>8. Fits(TransactionEntity, Whole)
  <2> DEFINE T == {Id, Column("isDuplicate", {"default"}),
                   Column("imageUrl", {"nullable"}), Column("createdAt", {"default"})}
             P == {"telegramUserId", "telegramName", "amount", "transactionId",
                 "timestamp", "bankName", "confidence"}
  <2>1. ColumnsOf("transactions") = Plain(P) \cup T
    BY DEF ColumnsOf, TransactionColumns, Plain
  <2>2. Names(T) = {"id", "isDuplicate", "imageUrl", "createdAt"}
    BY DEF Names, Column, Id
  <2>3. Marked(T, "default") = {"id", "isDuplicate", "createdAt"}
    <3> DEFINE D == {Id, Column("isDuplicate", {"default"}),
           Column("createdAt", {"default"})}
    <3>1. {k \in T : "default" \in k.marks} = D
      BY DEF Column, Id
    <3>2. Names(D) = {Id.name, Column("isDuplicate", {"default"}).name, Column("createdAt", {"default"}).name}
      BY DEF Names
    <3> HIDE DEF T, D
    <3>3. Marked(T, "default") = Names(D)
      BY <1>0, <3>1
    <3> QED BY <1>0, <3>2, <3>3
  <2>4. Marked(T, "nullable") = {"imageUrl"}
    <3> DEFINE D == {Column("imageUrl", {"nullable"})}
    <3>1. {k \in T : "nullable" \in k.marks} = D
      BY DEF Column, Id
    <3>2. Names(D) = {Column("imageUrl", {"nullable"}).name}
      BY FewNames
    <3> HIDE DEF T, D
    <3>3. Marked(T, "nullable") = Names(D)
      BY <1>0, <3>1
    <3> QED BY <1>0, <3>2, <3>3
  <2>5. Marked(T, "unique") = {}
    <3> DEFINE D == {}
    <3>1. {k \in T : "unique" \in k.marks} = D
      BY DEF Column, Id
    <3>2. Names(D) = {}
      BY FewNames
    <3> HIDE DEF T, D
    <3>3. Marked(T, "unique") = Names(D)
      BY <1>0, <3>1
    <3> QED BY <1>0, <3>2, <3>3
  <2> HIDE DEF T, P
  <2>6. /\ Names(ColumnsOf("transactions")) = P \cup Names(T)
        /\ \A mark : Marked(ColumnsOf("transactions"), mark) = Marked(T, mark)
    <3>1. /\ Names(Plain(P) \cup T) = P \cup Names(T)
          /\ \A mark : Marked(Plain(P) \cup T, mark) = Marked(T, mark)
      BY ColumnParts
    <3> QED BY <2>1, <3>1
  <2>7. /\ TransactionEntity.table = "transactions" /\ "transactions" \in Tables
        /\ TransactionEntity.supplied = P
        /\ TransactionEntity.generated = {"id", "isDuplicate", "createdAt"}
        /\ TransactionEntity.optional = {"imageUrl"}
        /\ TransactionEntity.unique = {}
    BY DEF TransactionEntity, Tables, P
  <2>8. /\ TransactionEntity.indexes = IndexesOf("transactions")
        /\ TransactionEntity.keys = KeysOf("transactions")
    BY <1>2, <1>3 DEF TransactionEntity
  <2>9. /\ TransactionEntity.generated = Marked(ColumnsOf("transactions"), "default")
        /\ TransactionEntity.optional = Marked(ColumnsOf("transactions"), "nullable")
        /\ TransactionEntity.unique = Marked(ColumnsOf("transactions"), "unique")
    BY <2>3, <2>4, <2>5, <2>6, <2>7
  <2>10. Names(ColumnsOf("transactions")) =
           TransactionEntity.supplied \cup TransactionEntity.generated \cup TransactionEntity.optional
    BY <2>2, <2>6, <2>7 DEF P
  <2> QED BY <1>5, <2>7, <2>8, <2>9, <2>10
<1>9. Fits(EditLogEntity, Whole)
  <2> DEFINE T == {Id, Column("oldValue", {"nullable"}),
                   Column("newValue", {"nullable"}), Column("editedAt", {"default"})}
             P == {"transactionId", "fieldName", "editedBy"}
  <2>1. ColumnsOf("edit_logs") = Plain(P) \cup T
    BY DEF ColumnsOf, EditLogColumns, Plain
  <2>2. Names(T) = {"id", "oldValue", "newValue", "editedAt"}
    BY DEF Names, Column, Id
  <2>3. Marked(T, "default") = {"id", "editedAt"}
    <3> DEFINE D == {Id, Column("editedAt", {"default"})}
    <3>1. {k \in T : "default" \in k.marks} = D
      BY DEF Column, Id
    <3>2. Names(D) = {Id.name, Column("editedAt", {"default"}).name}
      BY FewNames
    <3> HIDE DEF T, D
    <3>3. Marked(T, "default") = Names(D)
      BY <1>0, <3>1
    <3> QED BY <1>0, <3>2, <3>3
  <2>4. Marked(T, "nullable") = {"oldValue", "newValue"}
    <3> DEFINE D == {Column("oldValue", {"nullable"}), Column("newValue", {"nullable"})}
    <3>1. {k \in T : "nullable" \in k.marks} = D
      BY DEF Column, Id
    <3>2. Names(D) = {Column("oldValue", {"nullable"}).name, Column("newValue", {"nullable"}).name}
      BY FewNames
    <3> HIDE DEF T, D
    <3>3. Marked(T, "nullable") = Names(D)
      BY <1>0, <3>1
    <3> QED BY <1>0, <3>2, <3>3
  <2>5. Marked(T, "unique") = {}
    <3> DEFINE D == {}
    <3>1. {k \in T : "unique" \in k.marks} = D
      BY DEF Column, Id
    <3>2. Names(D) = {}
      BY FewNames
    <3> HIDE DEF T, D
    <3>3. Marked(T, "unique") = Names(D)
      BY <1>0, <3>1
    <3> QED BY <1>0, <3>2, <3>3
  <2> HIDE DEF T, P
  <2>6. /\ Names(ColumnsOf("edit_logs")) = P \cup Names(T)
        /\ \A mark : Marked(ColumnsOf("edit_logs"), mark) = Marked(T, mark)
    <3>1. /\ Names(Plain(P) \cup T) = P \cup Names(T)
          /\ \A mark : Marked(Plain(P) \cup T, mark) = Marked(T, mark)
      BY ColumnParts
    <3> QED BY <2>1, <3>1
  <2>7. /\ EditLogEntity.table = "edit_logs" /\ "edit_logs" \in Tables
        /\ EditLogEntity.supplied = P
        /\ EditLogEntity.generated = {"id", "editedAt"}
        /\ EditLogEntity.optional = {"oldValue", "newValue"}
        /\ EditLogEntity.unique = {}
    BY DEF EditLogEntity, Tables, P
  <2>8. /\ EditLogEntity.indexes = IndexesOf("edit_logs")
        /\ EditLogEntity.keys = KeysOf("edit_logs")
    BY <1>2, <1>3 DEF EditLogEntity
  <2>9. /\ EditLogEntity.generated = Marked(ColumnsOf("edit_logs"), "default")
        /\ EditLogEntity.optional = Marked(ColumnsOf("edit_logs"), "nullable")
        /\ EditLogEntity.unique = Marked(ColumnsOf("edit_logs"), "unique")
    BY <2>3, <2>4, <2>5, <2>6, <2>7
  <2>10. Names(ColumnsOf("edit_logs")) =
           EditLogEntity.supplied \cup EditLogEntity.generated \cup EditLogEntity.optional
    BY <2>2, <2>6, <2>7 DEF P
  <2> QED BY <1>5, <2>7, <2>8, <2>9, <2>10
<1> QED BY <1>6, <1>7, <1>8, <1>9 DEF Entities

-----------------------------------------------------------------------------
(* The invariant of the schema is kept.                                    *)

\* Nothing is wrong with an empty database.
LEMMA SchemaStarts == SchemaInit => SchemaInv
<1> SUFFICES ASSUME SchemaInit PROVE SchemaInv
  OBVIOUS
<1> USE SchemaAssumption DEF SchemaInit
<1>1. SchemaTypeOK
  BY DEF SchemaTypeOK
<1>2. CatalogRecorded
  BY DEF CatalogRecorded, Bare, Empty
<1>3. OwnerGoesOn /\ OthersAtStart /\ StaleIsOvertaken /\ OnlyRivalsAreRefused
  BY DEF OwnerGoesOn, OthersAtStart, StaleIsOvertaken, OnlyRivalsAreRefused
<1> QED BY <1>1, <1>2, <1>3 DEF SchemaInv

\* What the invariant says of one deployer and of the open transaction, in the
\* terms of the steps.
LEMMA SchemaFacts ==
  ASSUME SchemaInv
  PROVE  /\ owner # Nobody => owner \in Deployers /\ task[owner] \in {"up", "down"}
         /\ \A d \in Deployers :
              /\ task[d] = "up" => Statements(d) = Up /\ Len(Statements(d)) = 12
              /\ task[d] = "down" => Statements(d) = Down /\ Len(Statements(d)) = 6
              /\ owner = d => View(d) = draft
              /\ owner # d => View(d) = catalog
              /\ task[d] \in {"none", "up", "down"}
BY UpStatements, DownStatements, SchemaAssumption
   DEF SchemaInv, SchemaTypeOK, OwnerGoesOn, Statements, View

\* A command begins.
LEMMA BeginsKept ==
  ASSUME SchemaInv, NEW d \in Deployers, Migrate(d) \/ Revert(d)
  PROVE  SchemaInv'
<1> USE SchemaAssumption
<1>1. SchemaTypeOK /\ task[d] = "none" /\ owner # d
  BY DEF Migrate, Revert, SchemaInv, OwnerGoesOn
<1>2. UNCHANGED <<catalog, recorded, owner, draft>>
  BY DEF Migrate, Revert
<1>3. CASE Migrate(d) /\ recorded
  <2>1. UNCHANGED <<task, step, overtaken>> /\ verdict' = [verdict EXCEPT ![d] = "ok"]
    BY <1>3 DEF Migrate
  <2>2. SchemaTypeOK'
    BY <1>1, <1>2, <2>1 DEF SchemaTypeOK
  <2>3. CatalogRecorded' /\ OwnerGoesOn' /\ OthersAtStart' /\ StaleIsOvertaken'
    BY <1>2, <2>1
       DEF SchemaInv, CatalogRecorded, OwnerGoesOn, OthersAtStart, StaleIsOvertaken, Statements
  <2>4. OnlyRivalsAreRefused'
    BY <1>1, <2>1 DEF SchemaInv, SchemaTypeOK, OnlyRivalsAreRefused
  <2> QED BY <2>2, <2>3, <2>4 DEF SchemaInv
<1>4. CASE ~(Migrate(d) /\ recorded)
  <2>1. PICK what \in {"up", "down"} :
          /\ Begin(d, what) /\ verdict' = [verdict EXCEPT ![d] = "none"]
          /\ recorded <=> what = "down"
    BY <1>4 DEF Migrate, Revert
  <2>2. /\ task' = [task EXCEPT ![d] = what] /\ step' = [step EXCEPT ![d] = 0]
        /\ overtaken' = [overtaken EXCEPT ![d] = FALSE]
    BY <2>1 DEF Begin
  <2>3. \A e \in Deployers : e # d =>
          /\ task'[e] = task[e] /\ step'[e] = step[e] /\ overtaken'[e] = overtaken[e]
          /\ verdict'[e] = verdict[e]
    BY <1>1, <2>1, <2>2 DEF SchemaTypeOK
  <2>4. task'[d] = what /\ step'[d] = 0 /\ verdict'[d] = "none"
    BY <1>1, <2>1, <2>2 DEF SchemaTypeOK
  <2>5. SchemaTypeOK'
    BY <1>1, <1>2, <2>1, <2>2 DEF SchemaTypeOK
  <2>6. CatalogRecorded'
    BY <1>2 DEF SchemaInv, CatalogRecorded
  <2>7. OwnerGoesOn'
    BY <1>1, <1>2, <2>3 DEF SchemaInv, SchemaTypeOK, OwnerGoesOn, Statements
  <2>8. OthersAtStart'
    BY <1>2, <2>3, <2>4 DEF SchemaInv, OthersAtStart
  <2>9. StaleIsOvertaken' /\ OnlyRivalsAreRefused'
    BY <1>2, <2>1, <2>3, <2>4 DEF SchemaInv, StaleIsOvertaken, OnlyRivalsAreRefused
  <2> QED BY <2>5, <2>6, <2>7, <2>8, <2>9 DEF SchemaInv
<1> QED BY <1>3, <1>4

\* A transaction ends without a commit; when a statement was refused, another
\* command has been committed meanwhile.
LEMMA ClosesKept ==
  ASSUME SchemaInv, NEW d \in Deployers, NEW how \in {"ok", "refused", "broken"},
         Close(d, how), UNCHANGED <<catalog, recorded, overtaken>>,
         how = "refused" => overtaken[d]
  PROVE  SchemaInv'
<1> USE SchemaAssumption
<1>1. /\ task' = [task EXCEPT ![d] = "none"] /\ verdict' = [verdict EXCEPT ![d] = how]
      /\ owner' = (IF owner = d THEN Nobody ELSE owner)
      /\ owner' # Nobody => draft' = draft
      /\ UNCHANGED step /\ SchemaTypeOK
  BY DEF Close, SchemaInv
<1>2. /\ task'[d] = "none" /\ verdict'[d] = how
      /\ \A e \in Deployers : e # d => task'[e] = task[e] /\ verdict'[e] = verdict[e]
  BY <1>1 DEF SchemaTypeOK
<1>3. SchemaTypeOK'
  BY <1>1 DEF SchemaTypeOK
<1>4. CatalogRecorded'
  BY DEF SchemaInv, CatalogRecorded
<1>5. OwnerGoesOn'
  BY <1>1, <1>2 DEF SchemaInv, SchemaTypeOK, OwnerGoesOn, Statements
<1>6. OthersAtStart'
  BY <1>1, <1>2 DEF SchemaInv, OthersAtStart
<1>7. StaleIsOvertaken' /\ OnlyRivalsAreRefused'
  BY <1>1, <1>2 DEF SchemaInv, StaleIsOvertaken, OnlyRivalsAreRefused
<1> QED BY <1>3, <1>4, <1>5, <1>6, <1>7 DEF SchemaInv

\* A refused statement is the second one of a command that has been overtaken:
\* the tables that it would make are there, or those that it would drop are not.
LEMMA RefusedIsOvertaken ==
  ASSUME SchemaInv, NEW d \in Deployers, Fail(d)
  PROVE  overtaken[d]
<1>1. InProgress(d) /\ ~Executable(Current(d), View(d)) /\ owner # d
  BY OwnerExecutes DEF Fail
<1>2. /\ View(d) = catalog /\ task[d] \in {"up", "down"} /\ step[d] \in {0, 1}
      /\ task[d] = "up" /\ step[d] = 1 => catalog.extension
  BY <1>1, SchemaFacts DEF InProgress, SchemaInv, OthersAtStart
<1>3. /\ task[d] = "up" => Current(d) = Up[step[d] + 1]
      /\ task[d] = "down" => Current(d) = Down[step[d] + 1]
  BY DEF Current, Statements
<1>4. step[d] = 1
  BY <1>1, <1>2, <1>3, FirstStatements
<1>5. CASE task[d] = "up"
  <2>1. ~Executable(Up[2], catalog)
    BY <1>1, <1>2, <1>3, <1>4, <1>5
  <2>2. recorded
    <3> SUFFICES ASSUME ~recorded PROVE FALSE
      OBVIOUS
    <3>1. PICK b \in BOOLEAN : catalog = Bare(b)
      BY DEF SchemaInv, CatalogRecorded
    <3>2. catalog = Bare(TRUE)
      BY <1>2, <1>4, <1>5, <3>1, CatalogsDiffer
    <3> QED BY <2>1, <3>2, FirstStatements
  <2> QED BY <1>5, <2>2 DEF SchemaInv, StaleIsOvertaken
<1>6. CASE task[d] = "down"
  <2>1. ~Executable(Down[2], catalog)
    BY <1>1, <1>2, <1>3, <1>4, <1>6
  <2>2. ~recorded
    BY <2>1, FirstStatements DEF SchemaInv, CatalogRecorded
  <2> QED BY <1>6, <2>2 DEF SchemaInv, StaleIsOvertaken
<1> QED BY <1>2, <1>5, <1>6

\* A command is committed: it is the owner's, and has run to its end.
LEMMA CommitKept ==
  ASSUME SchemaInv, NEW d \in Deployers, Commit(d)
  PROVE  SchemaInv'
<1> USE SchemaAssumption
<1>1. SchemaTypeOK /\ task[d] \in {"up", "down"} /\ step[d] = Len(Statements(d))
  BY SchemaFacts DEF SchemaInv, Commit
<1>2. owner = d
  <2>1. step[d] = 12 \/ step[d] = 6
    BY <1>1, SchemaFacts
  <2>2. step[d] \notin {0, 1}
    BY <2>1
  <2> QED BY <1>1, <2>2 DEF SchemaInv, OthersAtStart
<1>3. View(d) = Reached(task[d], step[d])
  BY <1>2, SchemaFacts DEF SchemaInv, OwnerGoesOn
<1>4. /\ task[d] = "up" => catalog' = Whole /\ recorded' = TRUE
      /\ task[d] = "down" => catalog' = Bare(TRUE) /\ recorded' = FALSE
  <2>1. catalog' = View(d) /\ recorded' = (task[d] = "up")
    BY DEF Commit
  <2> QED BY <1>1, <1>3, <2>1, SchemaFacts, Ends DEF Reached
<1>5. catalog'.extension = TRUE
  BY <1>1, <1>4, CatalogsDiffer
<1>6. /\ task' = [task EXCEPT ![d] = "none"] /\ verdict' = [verdict EXCEPT ![d] = "ok"]
      /\ owner' = Nobody /\ UNCHANGED step
      /\ overtaken' = [e \in Deployers |-> overtaken[e] \/ (e # d /\ task[e] # "none")]
  BY <1>2 DEF Commit, Close
<1>7. /\ task'[d] = "none" /\ verdict'[d] = "ok"
      /\ \A e \in Deployers : e # d =>
           /\ task'[e] = task[e] /\ verdict'[e] = verdict[e]
           /\ overtaken[e] \/ task[e] # "none" => overtaken'[e]
  BY <1>1, <1>6 DEF SchemaTypeOK
<1>8. SchemaTypeOK'
  <2>1. recorded' \in BOOLEAN
    BY <1>1, <1>4
  <2>2. overtaken' \in [Deployers -> BOOLEAN]
    BY <1>6
  <2> QED BY <1>1, <1>6, <2>1, <2>2 DEF SchemaTypeOK
<1>9. CatalogRecorded'
  BY <1>1, <1>4 DEF CatalogRecorded
<1>10. OwnerGoesOn'
  BY <1>6 DEF OwnerGoesOn
<1>11. OthersAtStart'
  BY <1>2, <1>5, <1>6, <1>7 DEF SchemaInv, OthersAtStart
<1>12. StaleIsOvertaken' /\ OnlyRivalsAreRefused'
  BY <1>7 DEF SchemaInv, StaleIsOvertaken, OnlyRivalsAreRefused
<1> QED BY <1>8, <1>9, <1>10, <1>11, <1>12 DEF SchemaInv

\* A statement is executed.
LEMMA ExecuteKept ==
  ASSUME SchemaInv, NEW d \in Deployers, Execute(d)
  PROVE  SchemaInv'
<1> USE SchemaAssumption
<1> DEFINE c == Executed(Current(d), View(d))
<1>1. /\ SchemaTypeOK /\ InProgress(d) /\ ~Waits(d, Current(d))
      /\ Executable(Current(d), View(d)) /\ Kept(d, c)
      /\ step' = [step EXCEPT ![d] = @ + 1]
      /\ UNCHANGED <<recorded, task, verdict, overtaken>>
  BY DEF Execute, SchemaInv
<1>2. /\ owner' = (IF c = View(d) THEN owner ELSE d)
      /\ draft' = (IF owner' = d THEN c ELSE draft)
      /\ UNCHANGED catalog
  BY <1>1 DEF Kept
<1>3. /\ step'[d] = step[d] + 1 /\ step[d] \in Nat
      /\ \A e \in Deployers : e # d => step'[e] = step[e]
  BY <1>1 DEF SchemaTypeOK
<1>4. SchemaTypeOK'
  BY <1>1, <1>2 DEF SchemaTypeOK
<1>5. CatalogRecorded' /\ StaleIsOvertaken' /\ OnlyRivalsAreRefused'
  BY <1>1, <1>2
     DEF SchemaInv, CatalogRecorded, StaleIsOvertaken, OnlyRivalsAreRefused
<1>6. task[d] \in {"up", "down"} /\ step[d] + 1 \in 1..Len(Statements(d))
  BY <1>1, <1>3, SchemaFacts DEF InProgress
<1>7. CASE owner = d
  <2>1. c = Reached(task[d], step[d] + 1)
    BY <1>1, <1>7, OwnerExecutes
  <2> HIDE DEF c
  <2>2. owner' = d /\ draft' = Reached(task[d], step[d] + 1)
    BY <1>2, <1>7, <2>1
  <2>3. /\ recorded <=> task[d] = "down"
        /\ task[d] = "up" /\ catalog.extension => step[d] + 1 > 1
    BY <1>3, <1>7 DEF SchemaInv, OwnerGoesOn
  <2>4. OwnerGoesOn'
    BY <1>1, <1>2, <1>3, <1>6, <2>2, <2>3 DEF OwnerGoesOn, Statements
  <2>5. OthersAtStart'
    BY <1>1, <1>2, <1>3, <1>7, <2>2 DEF SchemaInv, OthersAtStart
  <2> QED BY <1>4, <1>5, <2>4, <2>5 DEF SchemaInv
<1>8. CASE owner # d /\ c = View(d)
  <2>1. step[d] = 0 /\ task[d] = "up" => catalog.extension
    BY <1>1, <1>8, OtherExecutes
  <2>2. step[d] = 0
    BY <1>1, <1>8, OtherExecutes
  <2>3. task[d] = "up" => catalog.extension
    BY <2>1, <2>2
  <2> HIDE DEF c
  <2>4. UNCHANGED <<owner, draft>>
    BY <1>2, <1>8
  <2>5. OwnerGoesOn'
    BY <1>1, <1>2, <1>3, <1>8, <2>4 DEF SchemaInv, SchemaTypeOK, OwnerGoesOn, Statements
  <2>6. OthersAtStart'
    BY <1>1, <1>2, <1>3, <2>2, <2>3, <2>4 DEF SchemaInv, OthersAtStart
  <2> QED BY <1>4, <1>5, <2>5, <2>6 DEF SchemaInv
<1>9. CASE owner # d /\ c # View(d)
  <2>1. /\ owner = Nobody /\ c = Reached(task[d], step[d] + 1)
        /\ recorded <=> task[d] = "down"
        /\ task[d] = "up" /\ catalog.extension => step[d] + 1 > 1
    BY <1>1, <1>9, OtherExecutes
  <2> HIDE DEF c
  <2>2. owner' = d /\ draft' = Reached(task[d], step[d] + 1)
    BY <1>2, <1>9, <2>1
  <2>3. OwnerGoesOn'
    BY <1>1, <1>2, <1>3, <1>6, <2>1, <2>2 DEF OwnerGoesOn, Statements
  <2>4. OthersAtStart'
    BY <1>1, <1>2, <1>3, <2>1, <2>2 DEF SchemaInv, OthersAtStart
  <2> QED BY <1>4, <1>5, <2>3, <2>4 DEF SchemaInv
<1> QED BY <1>7, <1>8, <1>9

\* Every step keeps it.
LEMMA SchemaStepKept == SchemaInv /\ [SchemaNext]_schemaVars => SchemaInv'
<1> SUFFICES ASSUME SchemaInv, [SchemaNext]_schemaVars PROVE SchemaInv'
  OBVIOUS
<1>1. CASE UNCHANGED schemaVars
  BY <1>1
     DEF schemaVars, SchemaInv, SchemaTypeOK, CatalogRecorded, OwnerGoesOn, OthersAtStart,
         StaleIsOvertaken, OnlyRivalsAreRefused, Statements
<1>2. ASSUME NEW d \in Deployers, Break(d)
      PROVE  SchemaInv'
  BY <1>2, ClosesKept DEF Break
<1>3. ASSUME NEW d \in Deployers, Fail(d)
      PROVE  SchemaInv'
  BY <1>3, ClosesKept, RefusedIsOvertaken DEF Fail
<1> QED BY <1>1, <1>2, <1>3, BeginsKept, ExecuteKept, CommitKept DEF SchemaNext, SchemaStep

\* The invariant implies that the record and the tables agree.
LEMMA RecordedIsWhole == SchemaInv => SchemaWhole
<1> SUFFICES ASSUME SchemaInv PROVE SchemaWhole
  OBVIOUS
<1>1. CASE recorded
  BY <1>1, WholeFits DEF SchemaInv, CatalogRecorded, SchemaWhole
<1>2. CASE ~recorded
  <2>1. PICK b \in BOOLEAN : catalog = Bare(b)
    BY <1>2 DEF SchemaInv, CatalogRecorded
  <2> QED BY <1>2, <2>1 DEF SchemaWhole, Bare, NoColumns
<1> QED BY <1>1, <1>2

\* What is committed is recorded, and only rivals are refused, under any number
\* of deployers, commands and lost connections.
THEOREM SchemaRecorded == SchemaSpec => [](SchemaWhole /\ OnlyRivalsAreRefused)
<1>1. SchemaInv => SchemaWhole /\ OnlyRivalsAreRefused
  BY RecordedIsWhole DEF SchemaInv
<1> QED BY <1>1, SchemaStarts, SchemaStepKept, PTL DEF SchemaSpec

-----------------------------------------------------------------------------
(* The inductive invariant of the smoke test.                              *)

SmokeTypeOK ==
  /\ now \in 0..MaxClock
  /\ hits \in [Handlers -> Seq(Nat)] /\ blocked \subseteq Handlers
  /\ lag \in Nat /\ others \in Nat /\ runs \in Nat
  /\ phase \in {"idle", "probe", "rest", "post", "accepted", "list", "answer", "sleep",
                "summary", "passed", "failed"}
  /\ startTime \in Nat /\ startTime <= now /\ startTime <= LastStart
  /\ wakeAt \in Nat
  /\ createdAt \in Int
  /\ reason \in {"none", "unreachable", "throttled", "refused", "timeout", "error"}
  /\ runs = 0 => phase = "idle"
  /\ reason \in {"timeout", "throttled"} => phase = "failed"

\* With the clocks together, a row is not older than the run that it belongs to,
\* and the script that has read the table after it was saved goes on with it.
RowIsTaken ==
  lag = 0 =>
    /\ job = "saved" => createdAt >= startTime
    /\ overlooked =>
         /\ phase \in {"answer", "summary", "passed", "failed"}
         /\ phase = "answer" => seen
         /\ reason # "timeout"

\* The handler has not been called for this address.
Fresh(h) == hits[h] = <<>> /\ h \notin blocked

Alone == runs <= 1 /\ others = 0

\* A script that is alone finds the throttler as it left it: each poll that still
\* counts has cost it an interval, but the last, which is about to.
PollsPaid ==
  Alone =>
    /\ phase \in {"idle", "probe", "rest", "post"} => Fresh("webhook")
    /\ phase \in {"idle", "probe", "rest", "post", "accepted"} => Fresh("list")
    /\ phase \notin {"passed", "failed"} => Fresh("summary")
    /\ phase \in {"list", "answer", "sleep"} => "list" \notin blocked
    /\ phase = "list" => now >= startTime + Len(hits["list"]) * PollInterval
    /\ phase = "answer" =>
         now + PollInterval >= startTime + Len(hits["list"]) * PollInterval
    /\ phase = "sleep" => wakeAt >= startTime + Len(hits["list"]) * PollInterval
    /\ reason = "throttled" => now >= startTime + Limit * PollInterval

SmokeInv == SmokeTypeOK /\ RowIsTaken /\ PollsPaid

-----------------------------------------------------------------------------
(* The throttler.                                                          *)

ThrottleTypeOK ==
  now \in Nat /\ hits \in [Handlers -> Seq(Nat)] /\ blocked \subseteq Handlers

\* A request counts at its handler only, and an admitted one by one.
LEMMA Counted ==
  ASSUME ThrottleTypeOK, NEW h \in Handlers, Count(h)
  PROVE  /\ hits' \in [Handlers -> Seq(Nat)] /\ blocked' \subseteq Handlers
         /\ \A g \in Handlers \ {h} : hits'[g] = hits[g] /\ (g \in blocked' <=> g \in blocked)
         /\ Admits(h) => h \notin blocked' /\ Len(hits'[h]) = Len(hits[h]) + 1
<1> USE DEF ThrottleTypeOK
<1>1. CASE h \in blocked
  BY <1>1 DEF Count, Admits
<1>2. CASE h \notin blocked
  <2>1. /\ hits' = [hits EXCEPT ![h] = Append(@, now)]
        /\ blocked' = IF Admits(h) THEN blocked ELSE blocked \cup {h}
    BY <1>2 DEF Count
  <2>2. hits[h] \in Seq(Nat) /\ Append(hits[h], now) \in Seq(Nat)
    OBVIOUS
  <2>3. hits' \in [Handlers -> Seq(Nat)] /\ hits'[h] = Append(hits[h], now)
    BY <2>1, <2>2
  <2>4. Len(hits'[h]) = Len(hits[h]) + 1
    BY <2>2, <2>3
  <2>5. \A g \in Handlers \ {h} : hits'[g] = hits[g] /\ (g \in blocked' <=> g \in blocked)
    BY <2>1
  <2> QED BY <1>2, <2>1, <2>3, <2>4, <2>5
<1> QED BY <1>1, <1>2

\* When nobody calls, counts only go.
LEMMA TimeCounts ==
  ASSUME ThrottleTypeOK, now <= MaxClock, TimePasses
  PROVE  /\ hits' \in [Handlers -> Seq(Nat)] /\ blocked' \subseteq Handlers
         /\ now' \in Nat /\ now <= now' /\ now' <= MaxClock
         /\ \A g \in Handlers :
              g \notin blocked => g \notin blocked' /\ Len(hits'[g]) <= Len(hits[g])
         /\ \A g \in Handlers : Fresh(g) => Fresh(g)'
<1> USE ThrottleAssumption DEF ThrottleTypeOK
<1>1. CASE Tick
  BY <1>1 DEF Tick, Fresh
<1>2. ASSUME NEW h \in Handlers, Forget(h)
      PROVE  /\ hits' \in [Handlers -> Seq(Nat)] /\ UNCHANGED <<now, blocked>>
             /\ \A g \in Handlers : Len(hits'[g]) <= Len(hits[g])
             /\ \A g \in Handlers : Fresh(g) => Fresh(g)'
  <2>1. /\ hits' = [hits EXCEPT ![h] = Tail(@)] /\ UNCHANGED <<now, blocked>>
        /\ hits[h] # <<>>
    BY <1>2 DEF Forget, Expired
  <2>2. hits[h] \in Seq(Nat) /\ Tail(hits[h]) \in Seq(Nat) /\ Len(Tail(hits[h])) <= Len(hits[h])
    BY <2>1
  <2>3. hits' \in [Handlers -> Seq(Nat)]
    BY <2>1, <2>2
  <2>4. \A g \in Handlers : g # h => hits'[g] = hits[g]
    BY <2>1
  <2>5. hits'[h] = Tail(hits[h])
    BY <2>1
  <2>6. ASSUME NEW g \in Handlers
        PROVE  Len(hits'[g]) <= Len(hits[g]) /\ (Fresh(g) => Fresh(g)')
    <3>1. CASE g = h
      BY <2>1, <2>2, <2>5, <3>1 DEF Fresh
    <3>2. CASE g # h
      <4>1. hits'[g] = hits[g] /\ hits[g] \in Seq(Nat)
        BY <2>4, <3>2
      <4> QED BY <2>1, <4>1 DEF Fresh
    <3> QED BY <3>1, <3>2
  <2> QED BY <2>1, <2>3, <2>6
<1> QED BY <1>1, <1>2 DEF TimePasses

\* A backend that starts has no counts.
LEMMA Forgotten ==
  ASSUME ForgetHits
  PROVE  /\ hits' \in [Handlers -> Seq(Nat)] /\ blocked' \subseteq Handlers
         /\ \A g \in Handlers : Fresh(g)' /\ Len(hits'[g]) = 0
BY DEF ForgetHits, Fresh

-----------------------------------------------------------------------------
(* The steps of the smoke test.                                            *)

\* The script, the backend and the worker leave the schema to the deployers.
LEMMA SmokeLeavesSchema == [SmokeNext]_smokeVars => [SchemaNext]_schemaVars
BY DEF SmokeNext, ScriptStep, smokeVars, Run, ProbeFails, ProbeAnswered, ProbeAgain, PostServed,
       PostAnswered, ListRead, ListAnswered, PollAgain, SummaryAnswered, RequestRefused, Save,
       GiveUpJob, StartBackend, CrashBackend, OtherRequest, Frame

\* The smoke test runs against the database of the deployers: it implements the
\* schema's specification.
THEOREM SmokeImplementsSchema == SmokeSafeSpec => SchemaSpec
<1>1. SmokeInit => SchemaInit
  BY DEF SmokeInit
<1> QED BY <1>1, SmokeLeavesSchema, PTL DEF SmokeSafeSpec, SchemaSpec

\* The record says whether the tables are there as the entities need them.
THEOREM SmokeSchemaWhole == SmokeSafeSpec => []SchemaWhole
<1>1. SchemaWhole /\ OnlyRivalsAreRefused => SchemaWhole
  OBVIOUS
<1> QED BY <1>1, SchemaRecorded, SmokeImplementsSchema, PTL

\* Whoever is refused a statement has been overtaken by another deployer.
THEOREM SmokeOnlyRivals == SmokeSafeSpec => []OnlyRivalsAreRefused
<1>1. SchemaWhole /\ OnlyRivalsAreRefused => OnlyRivalsAreRefused
  OBVIOUS
<1> QED BY <1>1, SchemaRecorded, SmokeImplementsSchema, PTL

\* The four routes.
LEMMA Routes ==
  /\ Handlers = {"health", "webhook", "list", "summary"}
  /\ MaxClock \in Nat /\ Limit \in Nat \ {0} /\ TimeoutMs \in Nat /\ LastStart \in Nat
  /\ PollInterval \in Nat /\ HealthInterval \in Nat /\ HealthTimeout \in Nat
  /\ LastStart + TimeoutMs <= MaxClock
BY SmokeAssumption, ThrottleAssumption

\* At the start.
LEMMA SmokeStarts == SmokeInit => SmokeInv
<1> SUFFICES ASSUME SmokeInit PROVE SmokeInv
  OBVIOUS
<1>0. lag \in Nat
  BY SmokeAssumption DEF SmokeInit
<1> USE Routes DEF SmokeInit, ThrottleInit
<1>1. SmokeTypeOK
  BY <1>0 DEF SmokeTypeOK
<1>2. RowIsTaken
  BY DEF RowIsTaken
<1>3. PollsPaid
  BY DEF PollsPaid, Fresh
<1> QED BY <1>1, <1>2, <1>3 DEF SmokeInv

\* A run begins.
LEMMA RunKept == SmokeInv /\ Run => SmokeInv'
<1> SUFFICES ASSUME SmokeInv, Run PROVE SmokeInv'
  OBVIOUS
<1> USE Routes DEF SmokeInv
<1>1. UNCHANGED <<now, hits, blocked, lag, others, serving, crashes>>
  BY DEF Run, throttleVars, hostVars
<1>2. /\ runs' = runs + 1 /\ phase' = "probe" /\ startTime' = now /\ wakeAt' = now + HealthTimeout
      /\ reason' = "none" /\ job' = "none" /\ createdAt' = 0 /\ seen' = FALSE
      /\ overlooked' = FALSE /\ Ended /\ now <= LastStart
  BY DEF Run
<1>3. SmokeTypeOK'
  BY <1>1, <1>2 DEF SmokeTypeOK
<1>4. RowIsTaken'
  BY <1>1, <1>2 DEF RowIsTaken
<1>5. PollsPaid'
  <2> SUFFICES ASSUME Alone' PROVE Fresh("webhook")' /\ Fresh("list")' /\ Fresh("summary")'
    BY <1>2 DEF PollsPaid
  <2>1. runs = 0 /\ phase = "idle" /\ Alone
    BY <1>1, <1>2 DEF SmokeTypeOK, Alone
  <2> QED BY <1>1, <2>1 DEF PollsPaid, Fresh
<1> QED BY <1>3, <1>4, <1>5

\* What the script may do to its phase and reason without a request: the row and
\* the throttler stay as they are.
LEMMA WaitsKept ==
  ASSUME SmokeInv,
         ProbeFails \/ ProbeAgain \/ PostAnswered \/ ListAnswered \/ PollAgain \/ RequestRefused
  PROVE  SmokeInv'
<1> USE Routes DEF SmokeInv
<1>1. UNCHANGED <<now, hits, blocked, lag, others, job, createdAt, startTime, seen, overlooked, runs>>
  BY DEF ProbeFails, ProbeAgain, PostAnswered, ListAnswered, PollAgain, RequestRefused,
         throttleVars, hostVars, rowVars, StartTime
<1>2. \A h \in Handlers : Fresh(h)' <=> Fresh(h)
  BY <1>1 DEF Fresh
<1>3. Alone' <=> Alone
  BY <1>1 DEF Alone
<1>4. CASE ProbeFails
  <2>1. /\ phase = "probe" /\ phase' \in {"rest", "failed"}
        /\ reason' = "unreachable" \/ (reason' = reason /\ phase' = "rest")
        /\ wakeAt' = wakeAt \/ wakeAt' = now + HealthInterval
    BY <1>4 DEF ProbeFails, AfterProbe, Fails
  <2>2. SmokeTypeOK'
    BY <1>1, <2>1 DEF SmokeTypeOK
  <2>3. RowIsTaken'
    BY <1>1, <2>1 DEF RowIsTaken
  <2>4. PollsPaid'
    BY <1>1, <1>2, <1>3, <2>1 DEF PollsPaid, SmokeTypeOK
  <2> QED BY <2>2, <2>3, <2>4
<1>5. CASE ProbeAgain
  <2>1. phase = "rest" /\ phase' = "probe" /\ wakeAt' = now + HealthTimeout /\ reason' = reason
    BY <1>5 DEF ProbeAgain
  <2>2. SmokeTypeOK'
    BY <1>1, <2>1 DEF SmokeTypeOK
  <2>3. RowIsTaken'
    BY <1>1, <2>1 DEF RowIsTaken
  <2>4. PollsPaid'
    BY <1>1, <1>2, <1>3, <2>1 DEF PollsPaid, SmokeTypeOK
  <2> QED BY <2>2, <2>3, <2>4
<1>6. CASE PostAnswered
  <2>1. /\ phase = "accepted" /\ wakeAt' = wakeAt
        /\ \/ phase' = "list" /\ reason' = reason
           \/ phase' = "failed" /\ reason' = "timeout"
    BY <1>6 DEF PostAnswered, NextPoll, Fails
  <2>2. SmokeTypeOK'
    BY <1>1, <2>1 DEF SmokeTypeOK
  <2>3. RowIsTaken'
    BY <1>1, <2>1 DEF RowIsTaken
  <2>4. PollsPaid'
    <3>1. Fresh("list") => Len(hits["list"]) * PollInterval = 0
      BY DEF Fresh
    <3> QED BY <1>1, <1>2, <1>3, <2>1, <3>1 DEF PollsPaid, SmokeTypeOK, Fresh
  <2> QED BY <2>2, <2>3, <2>4
<1>7. CASE ListAnswered
  <2>1. /\ phase = "answer" /\ reason' = reason
        /\ \/ seen /\ phase' = "summary" /\ wakeAt' = wakeAt
           \/ ~seen /\ phase' = "sleep" /\ wakeAt' = now + PollInterval
    BY <1>7 DEF ListAnswered, Sleep
  <2>2. SmokeTypeOK'
    BY <1>1, <2>1 DEF SmokeTypeOK
  <2>3. RowIsTaken'
    BY <1>1, <2>1 DEF RowIsTaken
  <2>4. PollsPaid'
    BY <1>1, <1>2, <1>3, <2>1 DEF PollsPaid, SmokeTypeOK
  <2> QED BY <2>2, <2>3, <2>4
<1>8. CASE PollAgain
  <2>1. /\ phase = "sleep" /\ wakeAt' = wakeAt
        /\ \/ phase' = "list" /\ reason' = reason /\ now >= wakeAt
           \/ phase' = "failed" /\ reason' = "timeout"
    <3>1. CASE now - startTime < TimeoutMs
      <4>1. now # MaxClock
        BY <3>1 DEF SmokeTypeOK
      <4> QED BY <1>8, <3>1, <4>1 DEF PollAgain, NextPoll, Due
    <3>2. CASE ~(now - startTime < TimeoutMs)
      BY <1>8, <3>2 DEF PollAgain, NextPoll, Fails
    <3> QED BY <3>1, <3>2
  <2>2. SmokeTypeOK'
    BY <1>1, <2>1 DEF SmokeTypeOK
  <2>3. RowIsTaken'
    BY <1>1, <2>1 DEF RowIsTaken
  <2>4. PollsPaid'
    <3>1. Len(hits["list"]) * PollInterval \in Nat
      BY DEF SmokeTypeOK
    <3> QED BY <1>1, <1>2, <1>3, <2>1, <3>1 DEF PollsPaid, SmokeTypeOK
  <2> QED BY <2>2, <2>3, <2>4
<1>9. CASE RequestRefused
  <2>1. /\ phase \in {"post", "list", "summary"} /\ wakeAt' = wakeAt
        /\ phase' = "failed" /\ reason' = "refused"
    BY <1>9 DEF RequestRefused, Fails
  <2>2. SmokeTypeOK'
    BY <1>1, <2>1 DEF SmokeTypeOK
  <2>3. RowIsTaken'
    BY <1>1, <2>1 DEF RowIsTaken
  <2>4. PollsPaid'
    BY <1>1, <1>2, <1>3, <2>1 DEF PollsPaid, SmokeTypeOK
  <2> QED BY <2>2, <2>3, <2>4
<1> QED BY <1>4, <1>5, <1>6, <1>7, <1>8, <1>9

\* A poll more is an interval more.
LEMMA OneMore ==
  ASSUME NEW n \in Nat
  PROVE  /\ (n + 1) * PollInterval = n * PollInterval + PollInterval
         /\ n * PollInterval \in Nat
         /\ Limit <= n => Limit * PollInterval <= n * PollInterval
         /\ \A k \in Nat : k <= n => k * PollInterval <= n * PollInterval
BY Routes

\* The requests of the script are counted where they arrive.
LEMMA RequestsKept ==
  ASSUME SmokeInv, ProbeAnswered \/ PostServed \/ ListRead \/ SummaryAnswered
  PROVE  SmokeInv'
<1> USE Routes DEF SmokeInv
<1>1. /\ UNCHANGED <<now, lag, others, createdAt, startTime, runs>>
      /\ ~PostServed => UNCHANGED job
      /\ ~ListRead => UNCHANGED <<seen, overlooked>>
  BY DEF ProbeAnswered, PostServed, ListRead, SummaryAnswered, throttleVars, hostVars, rowVars
<1>2. ThrottleTypeOK
  BY DEF ThrottleTypeOK, SmokeTypeOK
<1>3. Alone' <=> Alone
  BY <1>1 DEF Alone
<1>4. ASSUME NEW h \in Handlers, Count(h)
      PROVE  /\ hits' \in [Handlers -> Seq(Nat)] /\ blocked' \subseteq Handlers
             /\ \A g \in Handlers : g # h => hits'[g] = hits[g] /\ (g \in blocked' <=> g \in blocked)
             /\ \A g \in Handlers : g # h => (Fresh(g)' <=> Fresh(g))
             /\ Admits(h) => h \notin blocked' /\ Len(hits'[h]) = Len(hits[h]) + 1
  BY <1>2, <1>4, Counted DEF Fresh
<1>5. CASE ProbeAnswered
  <2>1. /\ phase = "probe" /\ phase' \in {"rest", "failed", "post"} /\ Count("health")
        /\ reason' = "unreachable" \/ reason' = reason
        /\ phase' = "failed" => reason' = "unreachable"
        /\ wakeAt' = wakeAt \/ wakeAt' = now + HealthInterval
    BY <1>5 DEF ProbeAnswered, AfterProbe, Fails
  <2>2. SmokeTypeOK'
    BY <1>1, <1>4, <2>1 DEF SmokeTypeOK
  <2>3. RowIsTaken'
    BY <1>1, <1>5, <2>1 DEF RowIsTaken, ProbeAnswered, ListRead, PostServed, rowVars
  <2>4. PollsPaid'
    BY <1>1, <1>3, <1>4, <2>1 DEF PollsPaid, SmokeTypeOK
  <2> QED BY <2>2, <2>3, <2>4
<1>6. CASE PostServed
  <2>1. /\ phase = "post" /\ Count("webhook") /\ wakeAt' = wakeAt /\ UNCHANGED <<seen, overlooked>>
        /\ \/ phase' = "accepted" /\ job' = "queued" /\ reason' = reason
           \/ phase' = "failed" /\ reason' = "refused" /\ job' = job
           \/ phase' = "failed" /\ reason' = "throttled" /\ job' = job /\ ~Admits("webhook")
    BY <1>6 DEF PostServed, Fails
  <2>2. SmokeTypeOK'
    BY <1>1, <1>4, <2>1 DEF SmokeTypeOK
  <2>3. RowIsTaken'
    BY <1>1, <2>1 DEF RowIsTaken
  <2>4. Fresh("webhook") => Admits("webhook")
    BY DEF Fresh, Admits, WithinLimit
  <2>5. PollsPaid'
    BY <1>1, <1>3, <1>4, <2>1, <2>4 DEF PollsPaid, SmokeTypeOK
  <2> QED BY <2>2, <2>3, <2>5
<1>7. CASE ListRead
  <2>1. /\ phase = "list" /\ Count("list") /\ wakeAt' = wakeAt /\ job' = job
        /\ \/ /\ phase' = "failed" /\ reason' = "throttled" /\ ~Admits("list")
              /\ UNCHANGED <<seen, overlooked>>
           \/ phase' = "failed" /\ reason' = "error" /\ UNCHANGED <<seen, overlooked>>
           \/ /\ phase' = "answer" /\ reason' = reason /\ Admits("list")
              /\ seen' = Matches /\ overlooked' = (job = "saved")
    BY <1>7 DEF ListRead, Fails, rowVars
  <2>2. SmokeTypeOK'
    BY <1>1, <1>4, <2>1 DEF SmokeTypeOK
  <2>3. RowIsTaken'
    <3>1. CASE phase' = "failed"
      BY <1>1, <2>1, <3>1 DEF RowIsTaken
    <3>2. CASE phase' = "answer"
      <4> SUFFICES ASSUME lag = 0
                   PROVE  /\ job' = "saved" => createdAt' >= startTime'
                          /\ overlooked' => seen' /\ reason' # "timeout"
        BY <1>1, <3>2 DEF RowIsTaken
      <4>1. job = "saved" => createdAt >= startTime
        BY DEF RowIsTaken
      <4>2. overlooked' <=> job = "saved"
        BY <2>1, <3>2
      <4>3. seen' <=> Matches
        BY <2>1, <3>2
      <4>4. reason' # "timeout"
        BY <2>1, <3>2 DEF SmokeTypeOK
      <4> QED BY <1>1, <2>1, <4>1, <4>2, <4>3, <4>4 DEF Matches
    <3> QED BY <2>1, <3>1, <3>2
  <2>4. PollsPaid'
    <3> SUFFICES ASSUME Alone PROVE PollsPaid'
      BY <1>3 DEF PollsPaid
    <3> DEFINE L == Len(hits["list"])
    <3>1. /\ L \in Nat /\ now >= startTime + L * PollInterval /\ "list" \notin blocked
          /\ Fresh("summary") /\ now \in Nat /\ startTime \in Nat
      BY <2>1 DEF PollsPaid, SmokeTypeOK
    <3>2. CASE phase' = "answer"
      <4>1. /\ reason' # "throttled" /\ "list" \notin blocked' /\ Len(hits'["list"]) = L + 1
            /\ Fresh("summary")'
        BY <1>4, <2>1, <3>1, <3>2 DEF SmokeTypeOK
      <4>2. now + PollInterval >= startTime + Len(hits'["list"]) * PollInterval
        <5> HIDE DEF L
        <5> QED BY <3>1, <4>1, OneMore
      <4> QED BY <1>1, <3>2, <4>1, <4>2 DEF PollsPaid
    <3>3. CASE phase' = "failed" /\ reason' = "error"
      BY <3>3 DEF PollsPaid
    <3>4. CASE phase' = "failed" /\ reason' = "throttled" /\ ~Admits("list")
      <4>1. Limit <= L
        BY <3>1, <3>4 DEF Admits, WithinLimit
      <4>2. now >= startTime + Limit * PollInterval
        <5> HIDE DEF L
        <5> QED BY <3>1, <4>1, OneMore
      <4> QED BY <1>1, <3>4, <4>2 DEF PollsPaid
    <3> QED BY <2>1, <3>2, <3>3, <3>4
  <2> QED BY <2>2, <2>3, <2>4
<1>8. CASE SummaryAnswered
  <2>1. /\ phase = "summary" /\ Count("summary") /\ wakeAt' = wakeAt
        /\ UNCHANGED <<job, seen, overlooked>>
        /\ \/ phase' = "failed" /\ reason' = "throttled" /\ ~Admits("summary")
           \/ phase' = "failed" /\ reason' = "error"
           \/ phase' = "passed" /\ reason' = reason
    BY <1>8 DEF SummaryAnswered, Fails, rowVars
  <2>2. SmokeTypeOK'
    BY <1>1, <1>4, <2>1 DEF SmokeTypeOK
  <2>3. RowIsTaken'
    BY <1>1, <2>1 DEF RowIsTaken
  <2>4. Fresh("summary") => Admits("summary")
    BY DEF Fresh, Admits, WithinLimit
  <2>5. PollsPaid'
    BY <1>1, <1>3, <1>4, <2>1, <2>4 DEF PollsPaid, SmokeTypeOK
  <2> QED BY <2>2, <2>3, <2>5
<1> QED BY <1>5, <1>6, <1>7, <1>8

\* The worker saves the row, or gives it up.
LEMMA WorkerKept == SmokeInv /\ (Save \/ GiveUpJob) => SmokeInv'
<1> SUFFICES ASSUME SmokeInv, Save \/ GiveUpJob PROVE SmokeInv'
  OBVIOUS
<1> USE Routes DEF SmokeInv
<1>1. /\ UNCHANGED <<now, hits, blocked, lag, others, scriptVars>>
      /\ \/ job' = "saved" /\ createdAt' = now - lag
         \/ job' = "lost" /\ createdAt' = createdAt
  BY DEF Save, GiveUpJob, throttleVars, hostVars
<1>2. UNCHANGED <<phase, startTime, wakeAt, reason, seen, overlooked, runs>>
  BY <1>1 DEF scriptVars
<1>3. SmokeTypeOK'
  BY <1>1, <1>2 DEF SmokeTypeOK
<1>4. RowIsTaken'
  BY <1>1, <1>2 DEF RowIsTaken, SmokeTypeOK
<1>5. PollsPaid'
  BY <1>1, <1>2 DEF PollsPaid, Alone, Fresh
<1> QED BY <1>3, <1>4, <1>5

\* The backend starts, or dies with the request that is under way; others call
\* it; time passes.
LEMMA HostKept ==
  ASSUME SmokeInv,
         \/ StartBackend \/ CrashBackend \/ \E h \in Handlers : OtherRequest(h)
         \/ TimePasses /\ Frame
  PROVE  SmokeInv'
<1> USE Routes DEF SmokeInv
<1>1. ThrottleTypeOK /\ now <= MaxClock
  BY DEF ThrottleTypeOK, SmokeTypeOK
<1>2. CASE StartBackend
  <2>1. /\ UNCHANGED <<now, lag, others, job, createdAt, phase, startTime, wakeAt, reason, seen,
                       overlooked, runs>>
        /\ ForgetHits
    BY <1>2 DEF StartBackend, scriptVars, rowVars
  <2>2. /\ hits' \in [Handlers -> Seq(Nat)] /\ blocked' = {}
        /\ \A g \in Handlers : Fresh(g)' /\ Len(hits'[g]) = 0
    BY <2>1, Forgotten DEF ForgetHits
  <2>3. SmokeTypeOK'
    BY <2>1, <2>2 DEF SmokeTypeOK
  <2>4. RowIsTaken'
    BY <2>1 DEF RowIsTaken
  <2>5. PollsPaid'
    <3>1. Len(hits'["list"]) * PollInterval = 0 /\ Len(hits["list"]) * PollInterval \in Nat
      BY <2>2, OneMore DEF SmokeTypeOK
    <3> QED BY <2>1, <2>2, <3>1 DEF PollsPaid, SmokeTypeOK, Alone
  <2> QED BY <2>3, <2>4, <2>5
<1>3. CASE CrashBackend
  <2>1. /\ UNCHANGED <<now, hits, blocked, lag, others, job, createdAt, startTime, seen, overlooked,
                       runs>>
        /\ \/ /\ phase = "probe" /\ phase' \in {"rest", "failed"}
              /\ reason' = "unreachable" \/ (reason' = reason /\ phase' = "rest")
              /\ wakeAt' = wakeAt \/ wakeAt' = now + HealthInterval
           \/ /\ phase \in {"post", "accepted", "list", "answer", "summary"}
              /\ phase' = "failed" /\ reason' = "refused" /\ wakeAt' = wakeAt
           \/ /\ phase \notin {"probe", "post", "accepted", "list", "answer", "summary"}
              /\ UNCHANGED <<phase, reason, wakeAt>>
    <3>1. UNCHANGED <<now, hits, blocked, lag, others, job, createdAt, startTime, seen, overlooked,
                      runs>>
      BY <1>3 DEF CrashBackend, throttleVars, rowVars
    <3>2. CASE phase = "probe"
      BY <1>3, <3>1, <3>2 DEF CrashBackend, AfterProbe, Fails
    <3>3. CASE phase \in {"post", "accepted", "list", "answer", "summary"}
      BY <1>3, <3>1, <3>3 DEF CrashBackend, Fails
    <3>4. CASE phase \notin {"probe", "post", "accepted", "list", "answer", "summary"}
      BY <1>3, <3>1, <3>4 DEF CrashBackend
    <3> QED BY <3>2, <3>3, <3>4
  <2>2. SmokeTypeOK'
    BY <2>1 DEF SmokeTypeOK
  <2>3. RowIsTaken'
    BY <2>1 DEF RowIsTaken
  <2>4. PollsPaid'
    BY <2>1 DEF PollsPaid, SmokeTypeOK, Alone, Fresh
  <2> QED BY <2>2, <2>3, <2>4
<1>4. ASSUME NEW h \in Handlers, OtherRequest(h)
      PROVE  SmokeInv'
  <2>1. /\ UNCHANGED <<now, lag, job, createdAt, phase, startTime, wakeAt, reason, seen, overlooked,
                       runs>>
        /\ others' = others + 1 /\ Count(h)
    BY <1>4 DEF OtherRequest, scriptVars, rowVars
  <2>2. hits' \in [Handlers -> Seq(Nat)] /\ blocked' \subseteq Handlers
    BY <1>1, <2>1, Counted
  <2>3. SmokeTypeOK'
    BY <2>1, <2>2 DEF SmokeTypeOK
  <2>4. RowIsTaken'
    BY <2>1 DEF RowIsTaken
  <2>5. PollsPaid'
    BY <2>1 DEF PollsPaid, Alone, SmokeTypeOK
  <2> QED BY <2>3, <2>4, <2>5
<1>5. CASE TimePasses /\ Frame
  <2>1. UNCHANGED <<lag, others, job, createdAt, phase, startTime, wakeAt, reason, seen, overlooked,
                    runs>>
    BY <1>5 DEF Frame, scriptVars, rowVars, hostVars
  <2>2. /\ hits' \in [Handlers -> Seq(Nat)] /\ blocked' \subseteq Handlers
        /\ now' \in Nat /\ now <= now' /\ now' <= MaxClock
        /\ \A g \in Handlers :
             g \notin blocked => g \notin blocked' /\ Len(hits'[g]) <= Len(hits[g])
        /\ \A g \in Handlers : Fresh(g) => Fresh(g)'
    BY <1>1, <1>5, TimeCounts
  <2>3. SmokeTypeOK'
    BY <2>1, <2>2 DEF SmokeTypeOK
  <2>4. RowIsTaken'
    BY <2>1 DEF RowIsTaken
  <2>5. PollsPaid'
    <3> DEFINE L == Len(hits["list"]) * PollInterval
               M == Len(hits'["list"]) * PollInterval
               Q == Limit * PollInterval
    <3>1. /\ L \in Nat /\ M \in Nat /\ Q \in Nat
          /\ Len(hits'["list"]) <= Len(hits["list"]) => M <= L
      <4>1. Len(hits["list"]) \in Nat /\ Len(hits'["list"]) \in Nat
        BY <2>2 DEF SmokeTypeOK
      <4> QED BY <4>1, OneMore
    <3>2. now \in Nat /\ startTime \in Nat /\ wakeAt \in Nat /\ (Alone' <=> Alone)
      BY <2>1 DEF SmokeTypeOK, Alone
    <3>3. Alone => /\ phase = "list" => now >= startTime + L
                   /\ phase = "answer" => now + PollInterval >= startTime + L
                   /\ phase = "sleep" => wakeAt >= startTime + L
                   /\ reason = "throttled" => now >= startTime + Q
      BY DEF PollsPaid
    <3>4. Alone /\ phase \in {"list", "answer", "sleep"} => "list" \notin blocked' /\ M <= L
      BY <2>2, <3>1 DEF PollsPaid
    <3> HIDE DEF L, M, Q
    <3>5. Alone => /\ phase = "list" => now' >= startTime + M
                   /\ phase = "answer" => now' + PollInterval >= startTime + M
                   /\ phase = "sleep" => wakeAt >= startTime + M
                   /\ reason = "throttled" => now' >= startTime + Q
      <4> SUFFICES ASSUME Alone
                   PROVE  /\ phase = "list" => now' >= startTime + M
                          /\ phase = "answer" => now' + PollInterval >= startTime + M
                          /\ phase = "sleep" => wakeAt >= startTime + M
                          /\ reason = "throttled" => now' >= startTime + Q
        OBVIOUS
      <4>1. now' \in Nat /\ now <= now'
        BY <2>2
      <4>2. ASSUME phase = "list" PROVE now' >= startTime + M
        <5>1. now >= startTime + L /\ M <= L
          BY <3>3, <3>4, <4>2
        <5> QED BY <3>1, <3>2, <4>1, <5>1
      <4>3. ASSUME phase = "answer" PROVE now' + PollInterval >= startTime + M
        <5>1. now + PollInterval >= startTime + L
          BY <3>3, <4>3
        <5>2. M <= L
          BY <3>4, <4>3
        <5>3. PICK t \in Int : t = now'
          BY <4>1
        <5>4. now <= t
          BY <4>1, <5>3
        <5>5. t + PollInterval >= startTime + M
          BY <3>1, <3>2, <5>1, <5>2, <5>4
        <5> QED BY <5>3, <5>5
      <4>4. ASSUME phase = "sleep" PROVE wakeAt >= startTime + M
        <5>1. wakeAt >= startTime + L /\ M <= L
          BY <3>3, <3>4, <4>4
        <5> QED BY <3>1, <3>2, <5>1
      <4>5. ASSUME reason = "throttled" PROVE now' >= startTime + Q
        <5>1. now >= startTime + Q
          BY <3>3, <4>5
        <5> QED BY <3>1, <3>2, <4>1, <5>1
      <4> QED BY <4>2, <4>3, <4>4, <4>5
    <3>6. Alone => /\ phase \in {"idle", "probe", "rest", "post"} => Fresh("webhook")'
                   /\ phase \in {"idle", "probe", "rest", "post", "accepted"} => Fresh("list")'
                   /\ phase \notin {"passed", "failed"} => Fresh("summary")'
                   /\ phase \in {"list", "answer", "sleep"} => "list" \notin blocked'
      BY <2>2, <3>4 DEF PollsPaid
    <3> SUFFICES ASSUME Alone PROVE PollsPaid'
      BY <3>2 DEF PollsPaid
    <3> QED BY <2>1, <3>5, <3>6 DEF PollsPaid, M, Q
  <2> QED BY <2>3, <2>4, <2>5
<1> QED BY <1>2, <1>3, <1>4, <1>5

\* Every step keeps the invariant.
LEMMA SmokeStepKept == SmokeInv /\ [SmokeNext]_smokeVars => SmokeInv'
<1> SUFFICES ASSUME SmokeInv, [SmokeNext]_smokeVars PROVE SmokeInv'
  OBVIOUS
<1>1. ASSUME UNCHANGED <<throttleVars, scriptVars, rowVars, hostVars>>
      PROVE  SmokeInv'
  <2>1. UNCHANGED <<now, hits, blocked, lag, others, job, createdAt, phase, startTime, wakeAt,
                    reason, seen, overlooked, runs>>
    BY <1>1 DEF throttleVars, scriptVars, rowVars, hostVars
  <2> QED BY <2>1 DEF SmokeInv, SmokeTypeOK, RowIsTaken, PollsPaid, Alone, Fresh
<1>2. CASE UNCHANGED smokeVars
  BY <1>1, <1>2 DEF smokeVars
<1>3. CASE SchemaNext /\ UNCHANGED throttleVars /\ Frame
  BY <1>1, <1>3 DEF Frame
<1> QED BY <1>2, <1>3, RunKept, WaitsKept, RequestsKept, WorkerKept, HostKept
        DEF SmokeNext, ScriptStep

\* The invariant holds in every state.
THEOREM SmokeInvariant == SmokeSafeSpec => []SmokeInv
BY SmokeStarts, SmokeStepKept, PTL DEF SmokeSafeSpec

\* A verdict of a timeout never overlooks the row of the run, when the clocks
\* agree.
THEOREM SmokeTimeout == SmokeSafeSpec => []TimeoutMeansNoRow
<1>1. SmokeInv => TimeoutMeansNoRow
  BY DEF SmokeInv, RowIsTaken, TimeoutMeansNoRow
<1> QED BY <1>1, SmokeInvariant, PTL

\* A script that is alone at its address is not refused before Limit intervals
\* have passed.
THEOREM SmokePolls == SmokeSafeSpec => []PollsHaveTheirTime
<1>1. SmokeInv => PollsHaveTheirTime
  BY DEF SmokeInv, SmokeTypeOK, PollsPaid, Alone, PollsHaveTheirTime
<1> QED BY <1>1, SmokeInvariant, PTL

=============================================================================
