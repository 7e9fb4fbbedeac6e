------------------------------- MODULE Schema -------------------------------
(***************************************************************************)
(* The PostgreSQL schema as the Alembic migrations see it, and the         *)
(* statements they issue.  A database is a record                          *)
(*                                                                         *)
(*   types      the native enum types, each with its set of values         *)
(*   tables     table name -> Table                                        *)
(*   sequences  the names of the sequences                                 *)
(*   users      the rows of table users: account -> row                    *)
(*   latest     what incidents.latest_analysis_run_id holds: "none" (NULL  *)
(*              in every row), "run" (an analysis run that exists) or      *)
(*              "lost" (the id of a row that is gone)                      *)
(*                                                                         *)
(* A table keeps its references, its unique constraints, its indexes       *)
(* (without the prefix ix_<table>_) and the columns that have an enum type *)
(* or that some later statement changes.  Nullability, server defaults,    *)
(* check constraints and the order of columns are left out, and so are the *)
(* rows of every table but users.                                          *)
(***************************************************************************)
EXTENDS Naturals, Sequences, FiniteSets, Functions

CONSTANT Null

Table(refs, columns, uniques, indexes) ==
    [refs |-> refs, columns |-> columns,
     uniques |-> uniques, indexes |-> indexes]

Cascade(t) == [table |-> t, ondelete |-> "cascade"]
SetNull(t) == [table |-> t, ondelete |-> "set null"]
Restricts(t) == [table |-> t, ondelete |-> "restrict"]

\* The column types that are not enum types of the database.
Builtin == {"varchar_150", "varchar_255", "text", "timestamptz"}

EmptyDatabase ==
    [types |-> << >>, tables |-> << >>, sequences |-> {},
     users |-> << >>, latest |-> "none"]

-----------------------------------------------------------------------------
\* The statements.

\* Enum.create(checkfirst=True), and Enum.drop or DROP TYPE IF EXISTS.
CreateType(n, values) == [kind |-> "create type", name |-> n, values |-> values]
DropType(n) == [kind |-> "drop type", name |-> n]

\* op.create_table and the op.create_index calls that follow it;
\* the op.drop_index calls before op.drop_table, and op.drop_table.
CreateTable(t, refs, columns, uniques, indexes) ==
    [kind |-> "create table", table |-> t,
     as |-> Table(refs, columns, uniques, indexes)]
DropTable(t, indexes) ==
    [kind |-> "drop table", table |-> t, indexes |-> indexes]
DropTableIfExists(t) == [kind |-> "drop table if exists", table |-> t]

AddReference(t, c, ref) ==
    [kind |-> "add reference", table |-> t, column |-> c, ref |-> ref]
DropReference(t, c) == [kind |-> "drop reference", table |-> t, column |-> c]

CreateIndex(t, i) == [kind |-> "create index", table |-> t, index |-> i]
CreateIndexIfMissing(t, i) ==
    [kind |-> "create index if not exists", table |-> t, index |-> i]
DropIndex(t, i) == [kind |-> "drop index", table |-> t, index |-> i]
DropIndexIfExists(t, i) ==
    [kind |-> "drop index if exists", table |-> t, index |-> i]

CreateSequence(n) == [kind |-> "create sequence", name |-> n]
DropSequence(n) == [kind |-> "drop sequence", name |-> n]

AddColumn(t, c, type, default) ==
    [kind |-> "add column", table |-> t, column |-> c, type |-> type,
     default |-> default]
DropColumn(t, c) == [kind |-> "drop column", table |-> t, column |-> c]
RenameColumn(t, c, new) ==
    [kind |-> "rename column", table |-> t, column |-> c, new |-> new]
AlterColumn(t, c, type) ==
    [kind |-> "alter column", table |-> t, column |-> c, type |-> type]

\* UPDATE users SET c = value WHERE d = match
UpdateUsers(c, value, d, match) ==
    [kind |-> "update users", column |-> c, value |-> value,
     where |-> d, match |-> match]

-----------------------------------------------------------------------------
\* What PostgreSQL accepts.

\* The tables other than t that reference t.
Dependents(db, t) ==
    {u \in DOMAIN db.tables \ {t} :
        \E c \in DOMAIN db.tables[u].refs : db.tables[u].refs[c].table = t}

TypeInUse(db, n) ==
    \E t \in DOMAIN db.tables : n \in Range(db.tables[t].columns)

\* The tables and types that a new table t names exist.
Resolves(db, t, table) ==
    /\ \A c \in DOMAIN table.refs :
          table.refs[c].table \in DOMAIN db.tables \union {t}
    /\ Range(table.columns) \subseteq DOMAIN db.types \union Builtin

HasColumn(db, t, c) ==
    t \in DOMAIN db.tables /\ c \in DOMAIN db.tables[t].columns

\* A row breaks the reference that statement s adds.
DanglingFor(db, s) ==
    /\ s.kind = "add reference"
    /\ s.table = "incidents" /\ s.column = "latest_analysis_run_id"
    /\ db.latest = "lost"

\* A stored name is longer than the type statement s gives its column.
TooLongFor(db, s) ==
    /\ s.kind = "alter column"
    /\ s.column = "full_name" /\ s.type = "varchar_150"
    /\ \E a \in DOMAIN db.users : db.users[a].full_name = "long"

\* Statement s names things that exist, or that do not exist yet.
WellFormed(s, db) ==
    CASE s.kind \in {"create type", "create sequence", "drop sequence",
                     "drop table if exists", "drop index if exists"} -> TRUE
      [] s.kind = "drop type" -> ~TypeInUse(db, s.name)
      [] s.kind = "create table" ->
            s.table \notin DOMAIN db.tables /\ Resolves(db, s.table, s.as)
      [] s.kind = "drop table" ->
            /\ s.table \in DOMAIN db.tables
            /\ s.indexes \subseteq db.tables[s.table].indexes
            /\ Dependents(db, s.table) = {}
      [] s.kind = "add reference" ->
            /\ {s.table, s.ref.table} \subseteq DOMAIN db.tables
            /\ s.column \notin DOMAIN db.tables[s.table].refs
      [] s.kind = "drop reference" ->
            /\ s.table \in DOMAIN db.tables
            /\ s.column \in DOMAIN db.tables[s.table].refs
      [] s.kind = "create index" ->
            /\ s.table \in DOMAIN db.tables
            /\ s.index \notin db.tables[s.table].indexes
      [] s.kind = "create index if not exists" -> s.table \in DOMAIN db.tables
      [] s.kind = "drop index" ->
            /\ s.table \in DOMAIN db.tables
            /\ s.index \in db.tables[s.table].indexes
      [] s.kind = "add column" ->
            /\ s.table \in DOMAIN db.tables
            /\ ~HasColumn(db, s.table, s.column)
            /\ s.type \in DOMAIN db.types \union Builtin
      [] s.kind = "rename column" ->
            /\ HasColumn(db, s.table, s.column)
            /\ ~HasColumn(db, s.table, s.new)
      [] s.kind \in {"drop column", "alter column"} ->
            HasColumn(db, s.table, s.column)
      [] s.kind = "update users" ->
            /\ HasColumn(db, "users", s.column) /\ HasColumn(db, "users", s.where)
            /\ s.value \in db.types[db.tables["users"].columns[s.column]]
            /\ s.match \in db.types[db.tables["users"].columns[s.where]]

\* PostgreSQL executes statement s in database db.
Applies(s, db) ==
    WellFormed(s, db) /\ ~DanglingFor(db, s) /\ ~TooLongFor(db, s)

-----------------------------------------------------------------------------
\* What a statement that applies does.

Without(f, x) == Restrict(f, DOMAIN f \ {x})

\* Function f with x, which is new to it, mapped to v.
With(f, x, v) == [y \in DOMAIN f \union {x} |-> IF y = x THEN v ELSE f[y]]

\* Function f with the key old renamed to new.
Renamed(f, old, new) ==
    [k \in (DOMAIN f \ {old}) \union {new} |-> f[IF k = new THEN old ELSE k]]

\* Dropping a table drops its rows.
TableDropped(db, t) ==
    [db EXCEPT !.tables = Without(db.tables, t),
               !.users = IF t = "users" THEN << >> ELSE db.users,
               !.latest = IF t = "incidents" THEN "none"
                          ELSE IF t = "analysis_runs" /\ db.latest = "run"
                               THEN "lost" ELSE db.latest]

\* ... CASCADE drops the references to it as well.
ReferencesDropped(db, t) ==
    [db EXCEPT !.tables = [u \in DOMAIN db.tables |->
        LET refs == db.tables[u].refs
        IN  [db.tables[u] EXCEPT !.refs =
                Restrict(refs, {c \in DOMAIN refs : refs[c].table # t})]]]

ColumnsSet(db, t, columns) ==
    [db EXCEPT !.tables[t] = [db.tables[t] EXCEPT !.columns = columns]]

\* The rows of users, each changed by Change; other tables keep no rows here.
Rows(db, t, Change(_)) ==
    IF t # "users" THEN db.users
    ELSE [a \in DOMAIN db.users |-> Change(db.users[a])]

ColumnAdded(db, s) ==
    LET Widened(row) == With(row, s.column, s.default)
    IN  [ColumnsSet(db, s.table,
                    With(db.tables[s.table].columns, s.column, s.type))
            EXCEPT !.users = Rows(db, s.table, Widened)]

ColumnDropped(db, s) ==
    LET Narrowed(row) == Without(row, s.column)
    IN  [ColumnsSet(db, s.table, Without(db.tables[s.table].columns, s.column))
            EXCEPT !.users = Rows(db, s.table, Narrowed)]

ColumnRenamed(db, s) ==
    LET Moved(row) == Renamed(row, s.column, s.new)
    IN  [ColumnsSet(db, s.table,
                    Renamed(db.tables[s.table].columns, s.column, s.new))
            EXCEPT !.users = Rows(db, s.table, Moved)]

UsersUpdated(db, s) ==
    LET Updated(row) ==
            IF row[s.where] = s.match THEN [row EXCEPT ![s.column] = s.value]
                                      ELSE row
    IN  [db EXCEPT !.users = Rows(db, "users", Updated)]

Apply(s, db) ==
    CASE s.kind = "create type" ->
            IF s.name \in DOMAIN db.types THEN db
            ELSE [db EXCEPT !.types = With(db.types, s.name, s.values)]
      [] s.kind = "drop type" -> [db EXCEPT !.types = Without(db.types, s.name)]
      [] s.kind = "create table" ->
            [db EXCEPT !.tables = With(db.tables, s.table, s.as)]
      [] s.kind = "drop table" -> TableDropped(db, s.table)
      [] s.kind = "drop table if exists" ->
            TableDropped(ReferencesDropped(db, s.table), s.table)
      [] s.kind = "add reference" ->
            [db EXCEPT !.tables[s.table].refs =
                With(db.tables[s.table].refs, s.column, s.ref)]
      [] s.kind = "drop reference" ->
            [db EXCEPT !.tables[s.table].refs =
                Without(db.tables[s.table].refs, s.column)]
      [] s.kind \in {"create index", "create index if not exists"} ->
            [db EXCEPT !.tables[s.table].indexes =
                db.tables[s.table].indexes \union {s.index}]
      [] s.kind \in {"drop index", "drop index if exists"} ->
            [db EXCEPT !.tables[s.table].indexes =
                db.tables[s.table].indexes \ {s.index}]
      [] s.kind = "create sequence" ->
            [db EXCEPT !.sequences = db.sequences \union {s.name}]
      [] s.kind = "drop sequence" ->
            [db EXCEPT !.sequences = db.sequences \ {s.name}]
      [] s.kind = "add column" -> ColumnAdded(db, s)
      [] s.kind = "drop column" -> ColumnDropped(db, s)
      [] s.kind = "rename column" -> ColumnRenamed(db, s)
      [] s.kind = "alter column" ->
            ColumnsSet(db, s.table,
                       [db.tables[s.table].columns EXCEPT ![s.column] = s.type])
      [] s.kind = "update users" -> UsersUpdated(db, s)
=============================================================================
