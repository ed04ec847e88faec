------------------------------- MODULE Schema -------------------------------
(***************************************************************************)
(* The database schema: the statements of the migration InitialSchema, up  *)
(* and down, which deployers execute inside a transaction (TypeORM runs a  *)
(* migration in one) while others may do the same, and what the entities   *)
(* of the backend expect of the tables.                                    *)
(***************************************************************************)
EXTENDS Naturals, Sequences, FiniteSetsExt

CONSTANTS
  Deployers,   \* those who may run db:migrate or revert it
  Nobody,
  MaxCommands, \* bound: commands in one behaviour
  MaxBreaks    \* bound: connections lost during a command

ASSUME SchemaAssumption ==
  /\ Nobody \notin Deployers
  /\ MaxCommands \in Nat
  /\ MaxBreaks \in Nat

VARIABLES
  catalog,   \* what is committed: extension, tables, indexes, references
  recorded,  \* the table "migrations" names InitialSchema
  owner,     \* the deployer whose transaction has changed something
  draft,     \* the catalog as that transaction sees it
  task,      \* deployer -> what its command does
  step,      \* deployer -> statements executed so far
  verdict,   \* deployer -> how its last command ended
  overtaken, \* history: another command committed during this one
  commands, breaks

schemaVars ==
  <<catalog, recorded, owner, draft, task, step, verdict, overtaken, commands, breaks>>

-----------------------------------------------------------------------------
(* The migration, as data.                                                 *)

Column(name, marks) == [name |-> name, marks |-> marks]
Id == Column("id", {"primary", "default"})
Plain(names) == {Column(n, {}) : n \in names}

BusinessColumns ==
  {Id, Column("name", {"unique"}), Column("createdAt", {"default"})}

ManagerColumns ==
  {Id, Column("email", {"unique"})} \cup Plain({"businessId", "passwordHash"})

TransactionColumns ==
  Plain({"telegramUserId", "telegramName", "amount", "transactionId", "timestamp",
         "bankName", "confidence"})
    \cup {Id, Column("isDuplicate", {"default"}), Column("imageUrl", {"nullable"}),
          Column("createdAt", {"default"})}

EditLogColumns ==
  Plain({"transactionId", "fieldName", "editedBy"})
    \cup {Id, Column("oldValue", {"nullable"}), Column("newValue", {"nullable"}),
          Column("editedAt", {"default"})}

CreateExtension == [op |-> "extension", table |-> "none"]
CreateTable(t, columns) == [op |-> "table", table |-> t, columns |-> columns]
CreateIndex(t, name, columns) ==
  [op |-> "index", table |-> t, index |-> [table |-> t, name |-> name, columns |-> columns]]
CreateForeignKey(t, column, target) ==
  [op |-> "reference", table |-> t, key |-> [table |-> t, column |-> column, target |-> target]]

\* The table of managers before the one it refers to.
Up_ManagersFirst ==
  <<CreateExtension,
    CreateTable("managers", ManagerColumns),
    CreateForeignKey("managers", "businessId", "businesses"),
    CreateTable("businesses", BusinessColumns)>>

Up ==
  <<CreateExtension,
    CreateTable("businesses", BusinessColumns),
    CreateTable("managers", ManagerColumns),
    CreateIndex("managers", "idx_manager_business_id", {"businessId"}),
    CreateForeignKey("managers", "businessId", "businesses"),
    CreateTable("transactions", TransactionColumns),
    CreateIndex("transactions", "idx_transaction_duplicate_lookup",
                {"transactionId", "amount", "timestamp"}),
    CreateIndex("transactions", "idx_transaction_telegram_user_id", {"telegramUserId"}),
    CreateIndex("transactions", "idx_transaction_created_at", {"createdAt"}),
    CreateTable("edit_logs", EditLogColumns),
    CreateIndex("edit_logs", "idx_edit_log_transaction_id", {"transactionId"}),
    CreateForeignKey("edit_logs", "transactionId", "transactions")>>

DropForeignKey(t, column) == [op |-> "dropReference", table |-> t, column |-> column]
DropTable(t) == [op |-> "dropTable", table |-> t]

Down ==
  <<DropForeignKey("edit_logs", "transactionId"),
    DropTable("edit_logs"),
    DropTable("transactions"),
    DropForeignKey("managers", "businessId"),
    DropTable("managers"),
    DropTable("businesses")>>

-----------------------------------------------------------------------------
(* What PostgreSQL makes of a statement.                                   *)

NoColumns == [t \in {} |-> {}]
Empty == [extension |-> FALSE, tables |-> NoColumns, indexes |-> {}, references |-> {}]

Has(c, t) == t \in DOMAIN c.tables
Names(columns) == {col.name : col \in columns}
IsKeyOf(columns, name) ==
  \E col \in columns : col.name = name /\ col.marks \cap {"primary", "unique"} # {}

\* A default of uuid_generate_v4() needs the extension; DROP TABLE has no CASCADE.
Executable(s, c) ==
  CASE s.op = "extension" -> TRUE
    [] s.op = "table"     -> ~Has(c, s.table) /\ c.extension
    [] s.op = "index"     -> /\ Has(c, s.table)
                             /\ s.index.columns \subseteq Names(c.tables[s.table])
                             /\ \A i \in c.indexes : i.name # s.index.name
    [] s.op = "reference" -> /\ Has(c, s.table) /\ Has(c, s.key.target)
                             /\ s.key.column \in Names(c.tables[s.table])
                             /\ IsKeyOf(c.tables[s.key.target], "id")
    [] s.op = "dropReference" -> TRUE
    [] s.op = "dropTable" -> /\ Has(c, s.table)
                             /\ \A k \in c.references : k.target = s.table => k.table = s.table

\* The down of the code looks a key up before it drops it; a table takes its
\* indexes and keys with it.
Executed(s, c) ==
  CASE s.op = "extension" -> [c EXCEPT !.extension = TRUE]
    [] s.op = "table"     ->
         [c EXCEPT !.tables = [t \in DOMAIN @ \cup {s.table} |->
                                 IF t = s.table THEN s.columns ELSE @[t]]]
    [] s.op = "index"     -> [c EXCEPT !.indexes = @ \cup {s.index}]
    [] s.op = "reference" -> [c EXCEPT !.references = @ \cup {s.key}]
    [] s.op = "dropReference" ->
         [c EXCEPT !.references = {k \in @ : k.table # s.table \/ k.column # s.column}]
    [] s.op = "dropTable" ->
         [c EXCEPT !.tables = [t \in DOMAIN @ \ {s.table} |-> @[t]],
                   !.indexes = {i \in @ : i.table # s.table},
                   !.references = {k \in @ : k.table # s.table}]

\* What a transaction that has changed nothing yet finds in its way: objects
\* that an open transaction has made or dropped.
Touched(s) ==
  CASE s.op = "extension" -> catalog.extension # draft.extension
    [] OTHER -> \/ Has(catalog, s.table) # Has(draft, s.table)
                \/ {k \in catalog.references : k.table = s.table}
                     # {k \in draft.references : k.table = s.table}

Waits(d, s) == owner \notin {Nobody, d} /\ Touched(s)

View(d) == IF owner = d THEN draft ELSE catalog

-----------------------------------------------------------------------------

SchemaInit ==
  /\ catalog = Empty
  /\ recorded = FALSE
  /\ owner = Nobody
  /\ draft = Empty
  /\ task = [d \in Deployers |-> "none"]
  /\ step = [d \in Deployers |-> 0]
  /\ verdict = [d \in Deployers |-> "none"]
  /\ overtaken = [d \in Deployers |-> FALSE]
  /\ commands = 0
  /\ breaks = 0

Begin(d, what) ==
  /\ task' = [task EXCEPT ![d] = what]
  /\ step' = [step EXCEPT ![d] = 0]
  /\ overtaken' = [overtaken EXCEPT ![d] = FALSE]

\* migration:run looks for what is pending before it opens its transaction.
Migrate(d) ==
  /\ task[d] = "none"
  /\ commands < MaxCommands
  /\ commands' = commands + 1
  /\ IF recorded
       THEN /\ verdict' = [verdict EXCEPT ![d] = "ok"]
            /\ UNCHANGED <<task, step, overtaken>>
       ELSE /\ Begin(d, "up")
            /\ verdict' = [verdict EXCEPT ![d] = "none"]
  /\ UNCHANGED <<catalog, recorded, owner, draft, breaks>>

Revert(d) ==
  /\ task[d] = "none"
  /\ commands < MaxCommands
  /\ recorded
  /\ commands' = commands + 1
  /\ Begin(d, "down")
  /\ verdict' = [verdict EXCEPT ![d] = "none"]
  /\ UNCHANGED <<catalog, recorded, owner, draft, breaks>>

Statements(d) == IF task[d] = "up" THEN Up ELSE Down

Current(d) == Statements(d)[step[d] + 1]

InProgress(d) == task[d] # "none" /\ step[d] < Len(Statements(d))

\* Every statement is a transaction of its own.
Kept_PerStatement(d, c) == catalog' = c /\ UNCHANGED <<owner, draft>>

\* Changes belong to the transaction of the migration.
Kept(d, c) ==
  /\ owner' = IF c = View(d) THEN owner ELSE d
  /\ draft' = IF owner' = d THEN c ELSE draft
  /\ UNCHANGED catalog

Execute(d) ==
  /\ InProgress(d)
  /\ ~Waits(d, Current(d))
  /\ Executable(Current(d), View(d))
  /\ Kept(d, Executed(Current(d), View(d)))
  /\ step' = [step EXCEPT ![d] = @ + 1]
  /\ UNCHANGED <<recorded, task, verdict, overtaken, commands, breaks>>

\* The end of a transaction.
Close(d, how) ==
  /\ task' = [task EXCEPT ![d] = "none"]
  /\ verdict' = [verdict EXCEPT ![d] = how]
  /\ owner' = IF owner = d THEN Nobody ELSE owner
  /\ draft' = IF owner' = Nobody THEN Empty ELSE draft
  /\ UNCHANGED <<step, commands>>

Fail(d) ==
  /\ InProgress(d)
  /\ ~Waits(d, Current(d))
  /\ ~Executable(Current(d), View(d))
  /\ Close(d, "refused")
  /\ UNCHANGED <<catalog, recorded, overtaken, breaks>>

\* The process or its connection dies before the commit.
Break(d) ==
  /\ task[d] # "none"
  /\ breaks < MaxBreaks
  /\ breaks' = breaks + 1
  /\ Close(d, "broken")
  /\ UNCHANGED <<catalog, recorded, overtaken>>

\* The migration is recorded, or struck from the record, with its changes.
Commit(d) ==
  /\ task[d] # "none"
  /\ step[d] = Len(Statements(d))
  /\ catalog' = View(d)
  /\ recorded' = (task[d] = "up")
  /\ Close(d, "ok")
  /\ overtaken' = [e \in Deployers |-> overtaken[e] \/ (e # d /\ task[e] # "none")]
  /\ UNCHANGED breaks

SchemaStep == \E d \in Deployers : Execute(d) \/ Fail(d) \/ Commit(d)

SchemaNext ==
  \/ \E d \in Deployers : Migrate(d) \/ Revert(d) \/ Break(d)
  \/ SchemaStep

SchemaSpec == SchemaInit /\ [][SchemaNext]_schemaVars

-----------------------------------------------------------------------------
(* What the entities expect.                                               *)

\* Columns that an insert carries, that the database fills, and that may be
\* null; indexes and keys by their columns.
BusinessEntity ==
  [table |-> "businesses", supplied |-> {"name"}, generated |-> {"id", "createdAt"},
   optional |-> {}, unique |-> {"name"}, indexes |-> {}, keys |-> {}]

ManagerEntity ==
  [table |-> "managers", supplied |-> {"businessId", "email", "passwordHash"},
   generated |-> {"id"}, optional |-> {}, unique |-> {"email"},
   indexes |-> {{"businessId"}}, keys |-> {<<"businessId", "businesses">>}]

TransactionEntity ==
  [table |-> "transactions",
   supplied |-> {"telegramUserId", "telegramName", "amount", "transactionId", "timestamp",
                 "bankName", "confidence"},
   generated |-> {"id", "isDuplicate", "createdAt"}, optional |-> {"imageUrl"}, unique |-> {},
   indexes |-> {{"transactionId", "amount", "timestamp"}, {"telegramUserId"}, {"createdAt"}},
   keys |-> {}]

EditLogEntity ==
  [table |-> "edit_logs", supplied |-> {"transactionId", "fieldName", "editedBy"},
   generated |-> {"id", "editedAt"}, optional |-> {"oldValue", "newValue"}, unique |-> {},
   indexes |-> {{"transactionId"}}, keys |-> {<<"transactionId", "transactions">>}]

Entities == {BusinessEntity, ManagerEntity, TransactionEntity, EditLogEntity}

Marked(columns, mark) == {col.name : col \in {k \in columns : mark \in k.marks}}

\* No insert of the entity is refused for a column, and every look-up that it
\* declares an index for has one.
Fits(e, c) ==
  /\ Has(c, e.table)
  /\ Names(c.tables[e.table]) = e.supplied \cup e.generated \cup e.optional
  /\ e.generated = Marked(c.tables[e.table], "default")
  /\ e.optional = Marked(c.tables[e.table], "nullable")
  /\ e.unique = Marked(c.tables[e.table], "unique")
  /\ e.indexes = {i.columns : i \in {k \in c.indexes : k.table = e.table}}
  /\ e.keys = {<<k.column, k.target>> : k \in {r \in c.references : r.table = e.table}}

-----------------------------------------------------------------------------
(* Properties.                                                             *)

\* Whoever migrates, reverts, loses the connection or does it at the same time
\* as another: the record says that the migration was made exactly when the
\* tables are there as the entities need them, and otherwise there are none.
SchemaWhole ==
  IF recorded THEN \A e \in Entities : Fits(e, catalog)
  ELSE DOMAIN catalog.tables = {} /\ catalog.references = {}

\* The migration and its reversal can be repeated in any order: a statement is
\* refused only because another deployer has committed meanwhile.
OnlyRivalsAreRefused ==
  \A d \in Deployers : verdict[d] = "refused" => overtaken[d]

=============================================================================
