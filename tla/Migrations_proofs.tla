-------------------------- MODULE Migrations_proofs --------------------------
(***************************************************************************)
(* Theorems about Migrations, for every set of accounts and of targets.    *)
(***************************************************************************)
EXTENDS Migrations, SequenceTheorems, TLAPS

-----------------------------------------------------------------------------
(* The two enum types, and the two columns of users, that hold a role.     *)
RoleValues ==
    [user_role |-> {"admin", "analyst", "viewer"},
     platform_role |-> {"platform_admin", "none"}]

RoleTypes == {"user_role", "platform_role"}
RoleNames == {"role", "platform_role"}

UserColumn(c, type) ==
    \/ type \in Builtin
    \/ c = "role" /\ type = "user_role"
    \/ c = "platform_role" /\ type = "platform_role"

Columns(db) == db.tables["users"].columns

(* A database is made of these parts.                                      *)
Parts == {"types", "tables", "sequences", "users", "latest"}
TableParts == {"refs", "columns", "uniques", "indexes"}

Shaped(db) ==
    /\ DOMAIN db = Parts
    /\ \A t \in DOMAIN db.tables : DOMAIN db.tables[t] = TableParts

(* The role types have their values whenever they exist.                   *)
TypesOK(types) ==
    /\ Builtin \cap DOMAIN types = {}
    /\ \A n \in RoleTypes \cap DOMAIN types : types[n] = RoleValues[n]

ReferencesResolve(db) ==
    \A t \in DOMAIN db.tables : \A c \in DOMAIN db.tables[t].refs :
        db.tables[t].refs[c].table \in DOMAIN db.tables

ColumnTypesExist(db) ==
    \A t \in DOMAIN db.tables : \A c \in DOMAIN db.tables[t].columns :
        db.tables[t].columns[c] \in DOMAIN db.types \union Builtin

(* The rows of users have the columns of users, and the roles fit.         *)
RowFits(columns, row) ==
    /\ DOMAIN row = DOMAIN columns
    /\ \A c \in DOMAIN columns :
          columns[c] \in RoleTypes => row[c] \in RoleValues[columns[c]]

UsersOK(db) ==
    IF "users" \in DOMAIN db.tables
    THEN /\ \A c \in DOMAIN Columns(db) : UserColumn(c, Columns(db)[c])
         /\ \A a \in DOMAIN db.users : RowFits(Columns(db), db.users[a])
    ELSE DOMAIN db.users = {}

Latest == {"none", "run", "lost"}

DbInv(db) ==
    /\ Shaped(db)
    /\ TypesOK(db.types)
    /\ ReferencesResolve(db)
    /\ ColumnTypesExist(db)
    /\ UsersOK(db)
    /\ db.latest \in Latest

LEMMA DbInvConsistent ==
    ASSUME NEW db, DbInv(db)
    PROVE  Consistent(db)
<1>1. ASSUME NEW t \in DOMAIN db.tables
      PROVE  Resolves(db, t, db.tables[t])
  BY DEF DbInv, ReferencesResolve, ColumnTypesExist, Resolves, Range
<1>2. ASSUME NEW a \in DOMAIN db.users, NEW c \in DOMAIN db.users[a],
             db.tables["users"].columns[c] \in DOMAIN db.types
      PROVE  db.users[a][c] \in db.types[db.tables["users"].columns[c]]
  <2>1. /\ "users" \in DOMAIN db.tables
        /\ RowFits(Columns(db), db.users[a])
        /\ c \in DOMAIN Columns(db)
    BY DEF DbInv, UsersOK, RowFits
  <2>2. Columns(db)[c] \in RoleTypes
    BY <1>2, <2>1 DEF DbInv, UsersOK, UserColumn, TypesOK, RoleTypes, Columns
  <2> QED
    BY <1>2, <2>1, <2>2 DEF DbInv, RowFits, TypesOK, Columns
<1> QED
  BY <1>1, <1>2 DEF Consistent, DbInv, Latest

-----------------------------------------------------------------------------
(* What the scripts' statements are known to be.                           *)
Kinds ==
    {"create type", "drop type", "create table", "drop table",
     "drop table if exists", "add reference", "drop reference",
     "create index", "create index if not exists", "drop index",
     "drop index if exists", "create sequence", "drop sequence",
     "add column", "drop column", "rename column", "alter column",
     "update users"}

Good(s) ==
    /\ s.kind \in Kinds
    /\ s.kind = "create type" =>
          /\ s.name \notin Builtin
          /\ s.name \in RoleTypes => s.values = RoleValues[s.name]
    /\ s.kind = "create table" =>
          /\ DOMAIN s.as = TableParts
          /\ s.table = "users" =>
                \A c \in DOMAIN s.as.columns : UserColumn(c, s.as.columns[c])
    /\ s.kind = "add column" /\ s.table = "users" =>
          /\ UserColumn(s.column, s.type)
          /\ s.type \in RoleTypes => s.default \in RoleValues[s.type]
    /\ s.kind = "rename column" =>
          s.table = "users" /\ s.column \notin RoleNames /\ s.new \notin RoleNames
    /\ s.kind = "alter column" =>
          s.table = "users" /\ s.column \notin RoleNames /\ s.type \in Builtin

(* Statements that leave alone who has which role.                         *)
Plain(s) ==
    /\ s.kind # "update users"
    /\ s.kind \in {"create table", "drop table", "drop table if exists"} =>
          s.table # "users"
    /\ s.kind \in {"add column", "drop column"} /\ s.table = "users" =>
          s.column \notin RoleNames

HasRole(db, c) == HasColumn(db, "users", c)

SameRoles(db, d) ==
    /\ "users" \in DOMAIN d.tables <=> "users" \in DOMAIN db.tables
    /\ \A c \in RoleNames : HasRole(d, c) <=> HasRole(db, c)
    /\ DOMAIN d.users = DOMAIN db.users
    /\ \A a \in DOMAIN db.users, c \in RoleNames :
          HasRole(db, c) => d.users[a][c] = db.users[a][c]

-----------------------------------------------------------------------------
(* Statements that touch neither the tables nor their rows.                *)
SameTables(db, d) ==
    /\ DOMAIN d = Parts
    /\ d.tables = db.tables /\ d.users = db.users /\ d.latest = db.latest

LEMMA SameTablesKeep ==
    ASSUME NEW db, NEW d, DbInv(db), SameTables(db, d),
           TypesOK(d.types), ColumnTypesExist(d)
    PROVE  DbInv(d) /\ SameRoles(db, d)
<1>1. Shaped(d) /\ d.latest \in Latest
  BY DEF DbInv, SameTables, Shaped
<1>2. ReferencesResolve(d)
  BY DEF DbInv, SameTables, ReferencesResolve
<1>3. UsersOK(d)
  BY DEF DbInv, SameTables, UsersOK, Columns
<1>4. SameRoles(db, d)
  BY DEF SameTables, SameRoles, HasRole, HasColumn
<1> QED
  BY <1>1, <1>2, <1>3, <1>4 DEF DbInv

LEMMA CreateTypeStep ==
    ASSUME NEW db, NEW s, DbInv(db), Good(s), s.kind = "create type"
    PROVE  DbInv(Apply(s, db)) /\ SameRoles(db, Apply(s, db))
<1> DEFINE types == IF s.name \in DOMAIN db.types THEN db.types
                    ELSE With(db.types, s.name, s.values)
           d == Apply(s, db)
<1>1. SameTables(db, d) /\ d.types = types
  <2>1. d = IF s.name \in DOMAIN db.types THEN db
            ELSE [db EXCEPT !.types = With(db.types, s.name, s.values)]
    BY DEF Apply
  <2>2. DOMAIN db = Parts
    BY DEF DbInv, Shaped
  <2> HIDE DEF d
  <2> QED
    BY <2>1, <2>2 DEF Parts, SameTables
<1>2. /\ DOMAIN types = DOMAIN db.types \union {s.name}
      /\ \A n \in DOMAIN db.types : types[n] = db.types[n]
      /\ s.name \notin DOMAIN db.types => types[s.name] = s.values
  BY DEF With
<1> HIDE DEF d, types
<1>3. TypesOK(d.types)
  BY <1>1, <1>2 DEF DbInv, TypesOK, Good
<1>4. ColumnTypesExist(d)
  BY <1>1, <1>2 DEF DbInv, ColumnTypesExist, SameTables
<1> QED
  BY <1>1, <1>3, <1>4, SameTablesKeep DEF d

LEMMA DropTypeStep ==
    ASSUME NEW db, NEW s, DbInv(db), s.kind = "drop type", WellFormed(s, db)
    PROVE  DbInv(Apply(s, db)) /\ SameRoles(db, Apply(s, db))
<1> DEFINE types == Without(db.types, s.name)
           d == Apply(s, db)
<1>1. SameTables(db, d) /\ d.types = types
  <2>1. d = [db EXCEPT !.types = types]
    BY DEF Apply
  <2>2. DOMAIN db = Parts
    BY DEF DbInv, Shaped
  <2> HIDE DEF d, types
  <2> QED
    BY <2>1, <2>2 DEF Parts, SameTables
<1>2. /\ DOMAIN types = DOMAIN db.types \ {s.name}
      /\ \A n \in DOMAIN types : types[n] = db.types[n]
  BY DEF Without, Restrict
<1>3. \A t \in DOMAIN db.tables : \A c \in DOMAIN db.tables[t].columns :
          db.tables[t].columns[c] # s.name
  BY DEF WellFormed, TypeInUse, Range
<1> HIDE DEF d, types
<1>4. TypesOK(d.types)
  BY <1>1, <1>2 DEF DbInv, TypesOK
<1>5. ColumnTypesExist(d)
  <2> SUFFICES ASSUME NEW t \in DOMAIN db.tables,
                      NEW c \in DOMAIN db.tables[t].columns
               PROVE  db.tables[t].columns[c] \in DOMAIN d.types \union Builtin
    BY <1>1 DEF ColumnTypesExist, SameTables
  <2>1. db.tables[t].columns[c] \in DOMAIN db.types \union Builtin
    BY DEF DbInv, ColumnTypesExist
  <2> QED
    BY <1>1, <1>2, <1>3, <2>1
<1> QED
  BY <1>1, <1>4, <1>5, SameTablesKeep DEF d

LEMMA SequenceStep ==
    ASSUME NEW db, NEW s, DbInv(db),
           s.kind \in {"create sequence", "drop sequence"}
    PROVE  DbInv(Apply(s, db)) /\ SameRoles(db, Apply(s, db))
<1> DEFINE d == Apply(s, db)
<1>1. SameTables(db, d) /\ d.types = db.types
  <2>1. \/ d = [db EXCEPT !.sequences = db.sequences \union {s.name}]
        \/ d = [db EXCEPT !.sequences = db.sequences \ {s.name}]
    BY DEF Apply
  <2>2. DOMAIN db = Parts
    BY DEF DbInv, Shaped
  <2> HIDE DEF d
  <2> QED
    BY <2>1, <2>2 DEF Parts, SameTables
<1> HIDE DEF d
<1>2. TypesOK(d.types)
  BY <1>1 DEF DbInv
<1>3. ColumnTypesExist(d)
  BY <1>1 DEF DbInv, ColumnTypesExist, SameTables
<1> QED
  BY <1>1, <1>2, <1>3, SameTablesKeep DEF d
-----------------------------------------------------------------------------
(* Statements that change the references or the indexes of tables.         *)
SameColumns(db, d) ==
    /\ DOMAIN d = Parts /\ DOMAIN d.tables = DOMAIN db.tables
    /\ d.types = db.types /\ d.users = db.users /\ d.latest = db.latest
    /\ \A t \in DOMAIN db.tables :
          /\ DOMAIN d.tables[t] = TableParts
          /\ d.tables[t].columns = db.tables[t].columns

LEMMA SameColumnsKeep ==
    ASSUME NEW db, NEW d, DbInv(db), SameColumns(db, d), ReferencesResolve(d)
    PROVE  DbInv(d) /\ SameRoles(db, d)
<1>1. Shaped(d) /\ d.latest \in Latest
  BY DEF DbInv, SameColumns, Shaped
<1>2. TypesOK(d.types) /\ ColumnTypesExist(d)
  BY DEF DbInv, SameColumns, TypesOK, ColumnTypesExist
<1>3. UsersOK(d)
  BY DEF DbInv, SameColumns, UsersOK, Columns
<1>4. SameRoles(db, d)
  BY DEF SameColumns, SameRoles, HasRole, HasColumn
<1> QED
  BY <1>1, <1>2, <1>3, <1>4 DEF DbInv

(* A table given other references, or other indexes.                       *)
WithReferences(db, t, refs) == [db EXCEPT !.tables[t].refs = refs]
WithIndexes(db, t, indexes) == [db EXCEPT !.tables[t].indexes = indexes]

(* Only the references of table t differ, and they are refs.               *)
ReferencesAt(db, d, t, refs) ==
    /\ SameColumns(db, d)
    /\ d.tables[t].refs = refs
    /\ \A u \in DOMAIN db.tables : u # t => d.tables[u].refs = db.tables[u].refs

LEMMA ReferencesSet ==
    ASSUME NEW db, Shaped(db), NEW t, t \in DOMAIN db.tables, NEW refs
    PROVE  ReferencesAt(db, WithReferences(db, t, refs), t, refs)
<1> DEFINE d == WithReferences(db, t, refs)
<1>1. /\ DOMAIN d = Parts /\ d.types = db.types
      /\ d.users = db.users /\ d.latest = db.latest
      /\ d.tables = [db.tables EXCEPT ![t].refs = refs]
  BY DEF Shaped, Parts, WithReferences
<1> HIDE DEF d
<1>2. \A u \in DOMAIN db.tables : DOMAIN db.tables[u] = TableParts
  BY DEF Shaped
<1>3. /\ DOMAIN d.tables = DOMAIN db.tables
      /\ d.tables[t] = [db.tables[t] EXCEPT !.refs = refs]
      /\ \A u \in DOMAIN db.tables : u # t => d.tables[u] = db.tables[u]
  BY <1>1
<1>4. /\ DOMAIN d.tables[t] = TableParts
      /\ d.tables[t].refs = refs
      /\ d.tables[t].columns = db.tables[t].columns
  BY <1>2, <1>3 DEF TableParts
<1>5. SameColumns(db, d)
  BY <1>1, <1>2, <1>3, <1>4 DEF SameColumns
<1> QED
  BY <1>3, <1>4, <1>5 DEF d, ReferencesAt

LEMMA IndexesSet ==
    ASSUME NEW db, Shaped(db), NEW t, NEW indexes
    PROVE  /\ SameColumns(db, WithIndexes(db, t, indexes))
           /\ \A u \in DOMAIN db.tables :
                 WithIndexes(db, t, indexes).tables[u].refs = db.tables[u].refs
<1> DEFINE d == WithIndexes(db, t, indexes)
<1>1. /\ DOMAIN d = Parts /\ d.types = db.types
      /\ d.users = db.users /\ d.latest = db.latest
      /\ d.tables = [db.tables EXCEPT ![t].indexes = indexes]
  BY DEF Shaped, Parts, WithIndexes
<1> HIDE DEF d
<1>2. \A u \in DOMAIN db.tables : DOMAIN db.tables[u] = TableParts
  BY DEF Shaped
<1>3. /\ DOMAIN d.tables = DOMAIN db.tables
      /\ t \in DOMAIN db.tables =>
            d.tables[t] = [db.tables[t] EXCEPT !.indexes = indexes]
      /\ \A u \in DOMAIN db.tables : u # t => d.tables[u] = db.tables[u]
  BY <1>1
<1>4. t \in DOMAIN db.tables =>
          /\ DOMAIN d.tables[t] = TableParts
          /\ d.tables[t].refs = db.tables[t].refs
          /\ d.tables[t].columns = db.tables[t].columns
  BY <1>2, <1>3 DEF TableParts
<1>5. SameColumns(db, d)
  BY <1>1, <1>2, <1>3, <1>4 DEF SameColumns
<1> QED
  BY <1>3, <1>4, <1>5 DEF d

LEMMA ReferenceStep ==
    ASSUME NEW db, NEW s, DbInv(db), WellFormed(s, db),
           s.kind \in {"add reference", "drop reference"}
    PROVE  DbInv(Apply(s, db)) /\ SameRoles(db, Apply(s, db))
<1> DEFINE d == Apply(s, db)
           old == db.tables[s.table].refs
<1>1. s.table \in DOMAIN db.tables
  BY DEF WellFormed
<1>2. PICK refs :
          /\ d = WithReferences(db, s.table, refs)
          /\ \A c \in DOMAIN refs : refs[c].table \in DOMAIN db.tables
  <2>1. \A c \in DOMAIN old : old[c].table \in DOMAIN db.tables
    BY <1>1 DEF DbInv, ReferencesResolve
  <2>2. CASE s.kind = "add reference"
    <3>1. d = WithReferences(db, s.table, With(old, s.column, s.ref))
      BY <2>2 DEF Apply, WithReferences
    <3>2. s.ref.table \in DOMAIN db.tables
      BY <2>2 DEF WellFormed
    <3>3. \A c \in DOMAIN With(old, s.column, s.ref) :
              With(old, s.column, s.ref)[c].table \in DOMAIN db.tables
      BY <2>1, <3>2 DEF With
    <3> QED
      BY <3>1, <3>3
  <2>3. CASE s.kind = "drop reference"
    <3>1. d = WithReferences(db, s.table, Without(old, s.column))
      BY <2>3 DEF Apply, WithReferences
    <3>2. \A c \in DOMAIN Without(old, s.column) :
              Without(old, s.column)[c].table \in DOMAIN db.tables
      BY <2>1 DEF Without, Restrict
    <3> QED
      BY <3>1, <3>2
  <2> QED
    BY <2>2, <2>3
<1> HIDE DEF d, old
<1>3. Shaped(db) /\ ReferencesResolve(db)
  BY DEF DbInv
<1>4. ReferencesAt(db, d, s.table, refs)
  BY <1>1, <1>2, <1>3, ReferencesSet
<1>5. ReferencesResolve(d)
  <2> SUFFICES ASSUME NEW u \in DOMAIN db.tables, NEW c \in DOMAIN d.tables[u].refs
               PROVE  d.tables[u].refs[c].table \in DOMAIN db.tables
    BY <1>4 DEF ReferencesResolve, ReferencesAt, SameColumns
  <2> QED
    BY <1>2, <1>3, <1>4 DEF ReferencesResolve, ReferencesAt
<1> QED
  BY <1>4, <1>5, SameColumnsKeep DEF d, ReferencesAt

LEMMA IndexStep ==
    ASSUME NEW db, NEW s, DbInv(db),
           s.kind \in {"create index", "create index if not exists",
                       "drop index", "drop index if exists"}
    PROVE  DbInv(Apply(s, db)) /\ SameRoles(db, Apply(s, db))
<1> DEFINE d == Apply(s, db)
<1>1. PICK indexes : d = WithIndexes(db, s.table, indexes)
  BY DEF Apply, WithIndexes
<1> HIDE DEF d
<1>2. /\ SameColumns(db, d)
      /\ \A u \in DOMAIN db.tables : d.tables[u].refs = db.tables[u].refs
  <2>1. Shaped(db)
    BY DEF DbInv
  <2> QED
    BY <1>1, <2>1, IndexesSet
<1>3. ReferencesResolve(d)
  BY <1>2 DEF DbInv, ReferencesResolve, SameColumns
<1> QED
  BY <1>2, <1>3, SameColumnsKeep DEF d
-----------------------------------------------------------------------------
(* Tables created and dropped.                                             *)
LEMMA SameRolesTransitive ==
    ASSUME NEW db, NEW e, NEW d, SameRoles(db, e), SameRoles(e, d)
    PROVE  SameRoles(db, d)
BY DEF SameRoles

LEMMA CreateTableStep ==
    ASSUME NEW db, NEW s, DbInv(db), Good(s), s.kind = "create table",
           WellFormed(s, db)
    PROVE  /\ DbInv(Apply(s, db))
           /\ Plain(s) => SameRoles(db, Apply(s, db))
<1> DEFINE d == Apply(s, db)
<1>1. /\ s.table \notin DOMAIN db.tables
      /\ \A c \in DOMAIN s.as.refs :
            s.as.refs[c].table \in DOMAIN db.tables \union {s.table}
      /\ \A c \in DOMAIN s.as.columns :
            s.as.columns[c] \in DOMAIN db.types \union Builtin
  BY DEF WellFormed, Resolves, Range
<1>2. /\ DOMAIN d = Parts /\ d.types = db.types
      /\ d.users = db.users /\ d.latest = db.latest
      /\ d.tables = With(db.tables, s.table, s.as)
  <2>1. d = [db EXCEPT !.tables = With(db.tables, s.table, s.as)]
    BY DEF Apply
  <2>2. DOMAIN db = Parts
    BY DEF DbInv, Shaped
  <2> HIDE DEF d
  <2> QED
    BY <2>1, <2>2 DEF Parts
<1> HIDE DEF d
<1>3. /\ DOMAIN d.tables = DOMAIN db.tables \union {s.table}
      /\ d.tables[s.table] = s.as
      /\ \A t \in DOMAIN db.tables : d.tables[t] = db.tables[t]
  BY <1>1, <1>2 DEF With
<1>4. Shaped(d)
  BY <1>2, <1>3 DEF DbInv, Shaped, Good
<1>5. TypesOK(d.types) /\ d.latest \in Latest
  BY <1>2 DEF DbInv
<1>6. ReferencesResolve(d)
  BY <1>1, <1>3 DEF DbInv, ReferencesResolve
<1>7. ColumnTypesExist(d)
  BY <1>1, <1>2, <1>3 DEF DbInv, ColumnTypesExist
<1>8. UsersOK(d)
  BY <1>1, <1>2, <1>3 DEF DbInv, UsersOK, Columns, Good
<1>9. Plain(s) => SameRoles(db, d)
  BY <1>2, <1>3 DEF Plain, SameRoles, HasRole, HasColumn
<1> QED
  BY <1>4, <1>5, <1>6, <1>7, <1>8, <1>9 DEF DbInv, d

NothingRefersTo(db, t) ==
    \A u \in DOMAIN db.tables \ {t} : \A c \in DOMAIN db.tables[u].refs :
        db.tables[u].refs[c].table # t

LEMMA TableDroppedKeeps ==
    ASSUME NEW db, NEW t, DbInv(db), NothingRefersTo(db, t)
    PROVE  /\ DbInv(TableDropped(db, t))
           /\ t # "users" => SameRoles(db, TableDropped(db, t))
<1> DEFINE d == TableDropped(db, t)
<1>1. /\ DOMAIN d = Parts /\ d.types = db.types
      /\ d.tables = Without(db.tables, t)
      /\ t # "users" => d.users = db.users
      /\ t = "users" => DOMAIN d.users = {}
      /\ d.latest \in {"none", "lost", db.latest}
  <2>1. DOMAIN db = Parts
    BY DEF DbInv, Shaped
  <2>2. DOMAIN << >> = {}
    OBVIOUS
  <2> QED
    BY <2>1, <2>2 DEF Parts, TableDropped
<1> HIDE DEF d
<1>2. /\ DOMAIN d.tables = DOMAIN db.tables \ {t}
      /\ \A u \in DOMAIN d.tables : d.tables[u] = db.tables[u]
  BY <1>1 DEF Without, Restrict
<1>3. Shaped(d)
  BY <1>1, <1>2 DEF DbInv, Shaped
<1>4. TypesOK(d.types) /\ d.latest \in Latest
  BY <1>1 DEF DbInv, Latest
<1>5. ReferencesResolve(d)
  BY <1>2 DEF DbInv, ReferencesResolve, NothingRefersTo
<1>6. ColumnTypesExist(d)
  BY <1>1, <1>2 DEF DbInv, ColumnTypesExist
<1>7. UsersOK(d)
  BY <1>1, <1>2 DEF DbInv, UsersOK, Columns
<1>8. t # "users" => SameRoles(db, d)
  BY <1>1, <1>2 DEF SameRoles, HasRole, HasColumn
<1> QED
  BY <1>3, <1>4, <1>5, <1>6, <1>7, <1>8 DEF DbInv, d

LEMMA ReferencesDroppedKeeps ==
    ASSUME NEW db, NEW t, DbInv(db)
    PROVE  /\ DbInv(ReferencesDropped(db, t))
           /\ SameRoles(db, ReferencesDropped(db, t))
           /\ NothingRefersTo(ReferencesDropped(db, t), t)
<1> DEFINE d == ReferencesDropped(db, t)
           kept(refs) == Restrict(refs, {c \in DOMAIN refs : refs[c].table # t})
<1>1. /\ DOMAIN d = Parts /\ d.types = db.types
      /\ d.users = db.users /\ d.latest = db.latest
      /\ d.tables = [u \in DOMAIN db.tables |->
                        [db.tables[u] EXCEPT !.refs = kept(db.tables[u].refs)]]
  <2>1. DOMAIN db = Parts
    BY DEF DbInv, Shaped
  <2> QED
    BY <2>1 DEF Parts, ReferencesDropped
<1> HIDE DEF d
<1>2. \A refs : /\ DOMAIN kept(refs) = {c \in DOMAIN refs : refs[c].table # t}
                /\ \A c \in DOMAIN kept(refs) : kept(refs)[c] = refs[c]
  BY DEF Restrict
<1> HIDE DEF kept
<1>3. /\ DOMAIN d.tables = DOMAIN db.tables
      /\ \A u \in DOMAIN db.tables :
            /\ DOMAIN d.tables[u] = TableParts
            /\ d.tables[u].columns = db.tables[u].columns
            /\ d.tables[u].refs = kept(db.tables[u].refs)
  <2>1. \A u \in DOMAIN db.tables : DOMAIN db.tables[u] = TableParts
    BY DEF DbInv, Shaped
  <2> QED
    BY <1>1, <2>1 DEF TableParts
<1>4. SameColumns(db, d)
  BY <1>1, <1>3 DEF SameColumns
<1>5. ASSUME NEW u \in DOMAIN d.tables, NEW c \in DOMAIN d.tables[u].refs
      PROVE  d.tables[u].refs[c].table \in DOMAIN db.tables \ {t}
  <2>1. PICK refs : refs = db.tables[u].refs /\ d.tables[u].refs = kept(refs)
    BY <1>3
  <2>2. c \in DOMAIN refs /\ refs[c].table # t /\ kept(refs)[c] = refs[c]
    BY <1>2, <2>1
  <2> QED
    BY <1>3, <2>1, <2>2 DEF DbInv, ReferencesResolve
<1>6. ReferencesResolve(d) /\ NothingRefersTo(d, t)
  BY <1>3, <1>5 DEF ReferencesResolve, NothingRefersTo
<1> QED
  BY <1>4, <1>6, SameColumnsKeep DEF d

LEMMA DropTableStep ==
    ASSUME NEW db, NEW s, DbInv(db), WellFormed(s, db),
           s.kind \in {"drop table", "drop table if exists"}
    PROVE  /\ DbInv(Apply(s, db))
           /\ Plain(s) => SameRoles(db, Apply(s, db))
<1>1. CASE s.kind = "drop table"
  <2>1. Apply(s, db) = TableDropped(db, s.table)
    BY <1>1 DEF Apply
  <2>2. NothingRefersTo(db, s.table)
    BY <1>1 DEF WellFormed, Dependents, NothingRefersTo
  <2> QED
    BY <1>1, <2>1, <2>2, TableDroppedKeeps DEF Plain
<1>2. CASE s.kind = "drop table if exists"
  <2> DEFINE e == ReferencesDropped(db, s.table)
  <2>1. Apply(s, db) = TableDropped(e, s.table)
    BY <1>2 DEF Apply
  <2>2. DbInv(e) /\ SameRoles(db, e) /\ NothingRefersTo(e, s.table)
    BY ReferencesDroppedKeeps
  <2> HIDE DEF e
  <2>3. /\ DbInv(TableDropped(e, s.table))
        /\ s.table # "users" => SameRoles(e, TableDropped(e, s.table))
    BY <2>2, TableDroppedKeeps
  <2> QED
    BY <1>2, <2>1, <2>2, <2>3, SameRolesTransitive DEF Plain
<1> QED
  BY <1>1, <1>2
-----------------------------------------------------------------------------
(* Statements that change the columns of a table, and the rows of users.   *)
Recolumned(db, d, t, columns, users) ==
    /\ DOMAIN d = Parts /\ DOMAIN d.tables = DOMAIN db.tables
    /\ d.types = db.types /\ d.users = users /\ d.latest = db.latest
    /\ DOMAIN d.tables[t] = TableParts
    /\ d.tables[t].columns = columns
    /\ d.tables[t].refs = db.tables[t].refs
    /\ \A u \in DOMAIN db.tables : u # t => d.tables[u] = db.tables[u]

LEMMA ColumnsSetMeans ==
    ASSUME NEW db, DbInv(db), NEW t, t \in DOMAIN db.tables, NEW columns, NEW users
    PROVE  /\ Recolumned(db, ColumnsSet(db, t, columns), t, columns, db.users)
           /\ Recolumned(db, [ColumnsSet(db, t, columns) EXCEPT !.users = users],
                         t, columns, users)
<1> DEFINE d == ColumnsSet(db, t, columns)
           table == [db.tables[t] EXCEPT !.columns = columns]
<1>1. DOMAIN db = Parts /\ DOMAIN db.tables[t] = TableParts
  BY DEF DbInv, Shaped
<1>2. /\ DOMAIN table = TableParts /\ table.columns = columns
      /\ table.refs = db.tables[t].refs
  BY <1>1 DEF TableParts
<1>3. /\ DOMAIN d = Parts /\ d.types = db.types
      /\ d.users = db.users /\ d.latest = db.latest
      /\ d.tables = [db.tables EXCEPT ![t] = table]
  BY <1>1 DEF Parts, ColumnsSet
<1> HIDE DEF d, table
<1>4. /\ DOMAIN d.tables = DOMAIN db.tables
      /\ d.tables[t] = table
      /\ \A u \in DOMAIN db.tables : u # t => d.tables[u] = db.tables[u]
  BY <1>3
<1>5. Recolumned(db, d, t, columns, db.users)
  BY <1>2, <1>3, <1>4 DEF Recolumned
<1> DEFINE e == [d EXCEPT !.users = users]
<1>6. /\ DOMAIN e = Parts /\ e.types = d.types /\ e.tables = d.tables
      /\ e.users = users /\ e.latest = d.latest
  BY <1>3 DEF Parts
<1> HIDE DEF e
<1>7. Recolumned(db, e, t, columns, users)
  BY <1>5, <1>6 DEF Recolumned
<1> QED
  BY <1>5, <1>7 DEF d, e

LEMMA RecolumnedKeeps ==
    ASSUME NEW db, NEW d, NEW t, NEW columns, NEW users, DbInv(db),
           t \in DOMAIN db.tables, Recolumned(db, d, t, columns, users),
           \A c \in DOMAIN columns : columns[c] \in DOMAIN db.types \union Builtin,
           t # "users" => users = db.users,
           t = "users" =>
              /\ \A c \in DOMAIN columns : UserColumn(c, columns[c])
              /\ DOMAIN users = DOMAIN db.users
              /\ \A a \in DOMAIN db.users :
                    RowFits(Columns(db), db.users[a]) => RowFits(columns, users[a])
    PROVE  DbInv(d)
<1>1. Shaped(d)
  BY DEF DbInv, Shaped, Recolumned
<1>2. TypesOK(d.types) /\ d.latest \in Latest
  BY DEF DbInv, Recolumned
<1>3. ReferencesResolve(d)
  BY DEF DbInv, ReferencesResolve, Recolumned
<1>4. ColumnTypesExist(d)
  BY DEF DbInv, ColumnTypesExist, Recolumned
<1>5. UsersOK(d)
  <2>1. CASE t = "users"
    <3>1. Columns(d) = columns /\ d.users = users /\ "users" \in DOMAIN d.tables
      BY <2>1 DEF Recolumned, Columns
    <3>2. \A a \in DOMAIN db.users : RowFits(Columns(db), db.users[a])
      BY <2>1 DEF DbInv, UsersOK
    <3> QED
      BY <2>1, <3>1, <3>2 DEF UsersOK
  <2>2. CASE t # "users"
    BY <2>2 DEF DbInv, UsersOK, Recolumned, Columns
  <2> QED
    BY <2>1, <2>2
<1> QED
  BY <1>1, <1>2, <1>3, <1>4, <1>5 DEF DbInv

(* Whose roles a change of columns leaves as they are.                     *)
LEMMA RecolumnedSameRoles ==
    ASSUME NEW db, NEW d, NEW t, NEW columns, NEW users,
           t \in DOMAIN db.tables, Recolumned(db, d, t, columns, users),
           t # "users" => users = db.users,
           t = "users" =>
              /\ \A c \in RoleNames : c \in DOMAIN columns <=> c \in DOMAIN Columns(db)
              /\ DOMAIN users = DOMAIN db.users
              /\ \A a \in DOMAIN db.users, c \in RoleNames :
                    c \in DOMAIN Columns(db) => users[a][c] = db.users[a][c]
    PROVE  SameRoles(db, d)
<1>1. CASE t = "users"
  <2>1. /\ d.tables["users"].columns = columns /\ d.users = users
        /\ "users" \in DOMAIN d.tables /\ "users" \in DOMAIN db.tables
    BY <1>1 DEF Recolumned
  <2> QED
    BY <1>1, <2>1 DEF SameRoles, HasRole, HasColumn, Columns
<1>2. CASE t # "users"
  BY <1>2 DEF Recolumned, SameRoles, HasRole, HasColumn
<1> QED
  BY <1>1, <1>2

LEMMA AddColumnStep ==
    ASSUME NEW db, NEW s, DbInv(db), Good(s), WellFormed(s, db),
           s.kind = "add column"
    PROVE  /\ DbInv(Apply(s, db))
           /\ Plain(s) => SameRoles(db, Apply(s, db))
<1> DEFINE d == Apply(s, db)
           old == db.tables[s.table].columns
           columns == With(old, s.column, s.type)
           widened(row) == With(row, s.column, s.default)
           users == IF s.table # "users" THEN db.users
                    ELSE [a \in DOMAIN db.users |-> widened(db.users[a])]
<1>1. /\ s.table \in DOMAIN db.tables
      /\ s.column \notin DOMAIN old
      /\ s.type \in DOMAIN db.types \union Builtin
  BY DEF WellFormed, HasColumn
<1>2. Recolumned(db, d, s.table, columns, users)
  <2>1. d = [ColumnsSet(db, s.table, columns) EXCEPT !.users = users]
    BY DEF Apply, ColumnAdded, Rows
  <2> HIDE DEF d, columns, users
  <2> QED
    BY <1>1, <2>1, ColumnsSetMeans
<1>3. /\ DOMAIN columns = DOMAIN old \union {s.column}
      /\ columns[s.column] = s.type
      /\ \A c \in DOMAIN old : columns[c] = old[c]
  BY <1>1 DEF With
<1>4. \A row : /\ DOMAIN widened(row) = DOMAIN row \union {s.column}
               /\ widened(row)[s.column] = s.default
               /\ \A c \in DOMAIN row : c # s.column => widened(row)[c] = row[c]
  BY DEF With
<1>5. /\ s.table # "users" => users = db.users
      /\ s.table = "users" =>
            /\ old = Columns(db)
            /\ DOMAIN users = DOMAIN db.users
            /\ \A a \in DOMAIN db.users : users[a] = widened(db.users[a])
  BY DEF Columns
<1> HIDE DEF d, columns, users, widened
<1>6. \A c \in DOMAIN columns : columns[c] \in DOMAIN db.types \union Builtin
  BY <1>1, <1>3 DEF DbInv, ColumnTypesExist
<1>7. ASSUME s.table = "users"
      PROVE  /\ \A c \in DOMAIN columns : UserColumn(c, columns[c])
             /\ \A a \in DOMAIN db.users :
                   RowFits(Columns(db), db.users[a]) => RowFits(columns, users[a])
  <2>1. \A c \in DOMAIN columns : UserColumn(c, columns[c])
    BY <1>1, <1>3, <1>5, <1>7 DEF DbInv, UsersOK, Good
  <2>2. ASSUME NEW a \in DOMAIN db.users, RowFits(Columns(db), db.users[a])
        PROVE  RowFits(columns, users[a])
    <3>1. PICK row : /\ row = db.users[a] /\ users[a] = widened(row)
                     /\ RowFits(old, row)
      BY <1>5, <1>7, <2>2
    <3>2. s.type \in RoleTypes => s.default \in RoleValues[s.type]
      BY <1>7 DEF Good
    <3> PICK new : new = widened(row)
      OBVIOUS
    <3>3. /\ new = users[a]
          /\ DOMAIN new = DOMAIN row \union {s.column}
          /\ new[s.column] = s.default
          /\ \A c \in DOMAIN row : c # s.column => new[c] = row[c]
      BY <1>4, <3>1
    <3>4. DOMAIN row = DOMAIN old
      BY <3>1 DEF RowFits
    <3>5. DOMAIN new = DOMAIN columns
      BY <1>3, <3>3, <3>4
    <3>6. ASSUME NEW c \in DOMAIN columns, columns[c] \in RoleTypes
          PROVE  new[c] \in RoleValues[columns[c]]
      <4>1. CASE c = s.column
        BY <1>3, <3>2, <3>3, <3>6, <4>1
      <4>2. CASE c # s.column
        <5>1. c \in DOMAIN old /\ columns[c] = old[c] /\ new[c] = row[c]
          BY <1>3, <3>3, <3>4, <3>6, <4>2
        <5> QED
          BY <3>1, <3>6, <5>1 DEF RowFits
      <4> QED
        BY <4>1, <4>2
    <3> QED
      BY <3>3, <3>5, <3>6 DEF RowFits
  <2> QED
    BY <2>1, <2>2
<1>8. DbInv(d)
  BY <1>1, <1>2, <1>5, <1>6, <1>7, RecolumnedKeeps
<1>9. Plain(s) => SameRoles(db, d)
  <2> SUFFICES ASSUME Plain(s) PROVE SameRoles(db, d)
    OBVIOUS
  <2>1. ASSUME s.table = "users"
        PROVE  /\ \A c \in RoleNames : c \in DOMAIN columns <=> c \in DOMAIN Columns(db)
               /\ \A a \in DOMAIN db.users, c \in RoleNames :
                     c \in DOMAIN Columns(db) => users[a][c] = db.users[a][c]
    <3>1. s.column \notin RoleNames
      BY <2>1 DEF Plain
    <3>2. \A a \in DOMAIN db.users : DOMAIN db.users[a] = DOMAIN Columns(db)
      BY <1>1, <2>1 DEF DbInv, UsersOK, RowFits
    <3>3. \A c \in RoleNames : c \in DOMAIN columns <=> c \in DOMAIN Columns(db)
      BY <1>3, <1>5, <2>1, <3>1
    <3>4. ASSUME NEW a \in DOMAIN db.users, NEW c \in RoleNames,
                 c \in DOMAIN Columns(db)
          PROVE  users[a][c] = db.users[a][c]
      <4>1. PICK row : row = db.users[a] /\ users[a] = widened(row)
        BY <1>5, <2>1
      <4>2. c \in DOMAIN row /\ c # s.column
        BY <3>1, <3>2, <3>4, <4>1
      <4>3. widened(row)[c] = row[c]
        BY <1>4, <4>2
      <4> QED
        BY <4>1, <4>3
    <3> QED
      BY <3>3, <3>4
  <2> QED
    BY <1>1, <1>2, <1>5, <2>1, RecolumnedSameRoles
<1> QED
  BY <1>8, <1>9 DEF d

LEMMA DropColumnStep ==
    ASSUME NEW db, NEW s, DbInv(db), WellFormed(s, db), s.kind = "drop column"
    PROVE  /\ DbInv(Apply(s, db))
           /\ Plain(s) => SameRoles(db, Apply(s, db))
<1> DEFINE d == Apply(s, db)
           old == db.tables[s.table].columns
           columns == Without(old, s.column)
           narrowed(row) == Without(row, s.column)
           users == IF s.table # "users" THEN db.users
                    ELSE [a \in DOMAIN db.users |-> narrowed(db.users[a])]
<1>1. s.table \in DOMAIN db.tables
  BY DEF WellFormed, HasColumn
<1>2. Recolumned(db, d, s.table, columns, users)
  <2>1. d = [ColumnsSet(db, s.table, columns) EXCEPT !.users = users]
    BY DEF Apply, ColumnDropped, Rows
  <2> HIDE DEF d, columns, users
  <2> QED
    BY <1>1, <2>1, ColumnsSetMeans
<1>3. /\ DOMAIN columns = DOMAIN old \ {s.column}
      /\ \A c \in DOMAIN columns : columns[c] = old[c]
  BY DEF Without, Restrict
<1>4. \A row : /\ DOMAIN narrowed(row) = DOMAIN row \ {s.column}
               /\ \A c \in DOMAIN row : c # s.column => narrowed(row)[c] = row[c]
  BY DEF Without, Restrict
<1>5. /\ s.table # "users" => users = db.users
      /\ s.table = "users" =>
            /\ old = Columns(db)
            /\ DOMAIN users = DOMAIN db.users
            /\ \A a \in DOMAIN db.users : users[a] = narrowed(db.users[a])
  BY DEF Columns
<1> HIDE DEF d, columns, users, narrowed
<1>6. \A c \in DOMAIN columns : columns[c] \in DOMAIN db.types \union Builtin
  BY <1>1, <1>3 DEF DbInv, ColumnTypesExist
<1>7. ASSUME s.table = "users"
      PROVE  /\ \A c \in DOMAIN columns : UserColumn(c, columns[c])
             /\ \A a \in DOMAIN db.users :
                   RowFits(Columns(db), db.users[a]) => RowFits(columns, users[a])
  <2>1. \A c \in DOMAIN columns : UserColumn(c, columns[c])
    BY <1>1, <1>3, <1>5, <1>7 DEF DbInv, UsersOK
  <2>2. ASSUME NEW a \in DOMAIN db.users, RowFits(Columns(db), db.users[a])
        PROVE  RowFits(columns, users[a])
    <3>1. PICK row : /\ row = db.users[a] /\ users[a] = narrowed(row)
                     /\ RowFits(old, row)
      BY <1>5, <1>7, <2>2
    <3> PICK new : new = narrowed(row)
      OBVIOUS
    <3>2. /\ new = users[a]
          /\ DOMAIN new = DOMAIN row \ {s.column}
          /\ \A c \in DOMAIN row : c # s.column => new[c] = row[c]
      BY <1>4, <3>1
    <3>3. DOMAIN row = DOMAIN old
      BY <3>1 DEF RowFits
    <3>4. DOMAIN new = DOMAIN columns
      BY <1>3, <3>2, <3>3
    <3>5. ASSUME NEW c \in DOMAIN columns, columns[c] \in RoleTypes
          PROVE  new[c] \in RoleValues[columns[c]]
      <4>1. c \in DOMAIN old /\ columns[c] = old[c] /\ new[c] = row[c]
        BY <1>3, <3>2, <3>3, <3>5
      <4> QED
        BY <3>1, <3>5, <4>1 DEF RowFits
    <3> QED
      BY <3>2, <3>4, <3>5 DEF RowFits
  <2> QED
    BY <2>1, <2>2
<1>8. DbInv(d)
  BY <1>1, <1>2, <1>5, <1>6, <1>7, RecolumnedKeeps
<1>9. Plain(s) => SameRoles(db, d)
  <2> SUFFICES ASSUME Plain(s) PROVE SameRoles(db, d)
    OBVIOUS
  <2>1. ASSUME s.table = "users"
        PROVE  /\ \A c \in RoleNames : c \in DOMAIN columns <=> c \in DOMAIN Columns(db)
               /\ \A a \in DOMAIN db.users, c \in RoleNames :
                     c \in DOMAIN Columns(db) => users[a][c] = db.users[a][c]
    <3>1. s.column \notin RoleNames
      BY <2>1 DEF Plain
    <3>2. \A a \in DOMAIN db.users : DOMAIN db.users[a] = DOMAIN Columns(db)
      BY <1>1, <2>1 DEF DbInv, UsersOK, RowFits
    <3>3. \A c \in RoleNames : c \in DOMAIN columns <=> c \in DOMAIN Columns(db)
      BY <1>3, <1>5, <2>1, <3>1
    <3>4. ASSUME NEW a \in DOMAIN db.users, NEW c \in RoleNames,
                 c \in DOMAIN Columns(db)
          PROVE  users[a][c] = db.users[a][c]
      <4>1. PICK row : row = db.users[a] /\ users[a] = narrowed(row)
        BY <1>5, <2>1
      <4>2. c \in DOMAIN row /\ c # s.column
        BY <3>1, <3>2, <3>4, <4>1
      <4>3. narrowed(row)[c] = row[c]
        BY <1>4, <4>2
      <4> QED
        BY <4>1, <4>3
    <3> QED
      BY <3>3, <3>4
  <2> QED
    BY <1>1, <1>2, <1>5, <2>1, RecolumnedSameRoles
<1> QED
  BY <1>8, <1>9 DEF d

LEMMA RenameColumnStep ==
    ASSUME NEW db, NEW s, DbInv(db), Good(s), WellFormed(s, db),
           s.kind = "rename column"
    PROVE  DbInv(Apply(s, db)) /\ SameRoles(db, Apply(s, db))
<1> DEFINE d == Apply(s, db)
           old == Columns(db)
           columns == Renamed(old, s.column, s.new)
           moved(row) == Renamed(row, s.column, s.new)
           users == [a \in DOMAIN db.users |-> moved(db.users[a])]
<1>1. /\ s.table = "users" /\ "users" \in DOMAIN db.tables
      /\ s.column \in DOMAIN old /\ s.new \notin DOMAIN old
      /\ s.column \notin RoleNames /\ s.new \notin RoleNames
  BY DEF Good, WellFormed, HasColumn, Columns
<1>2. Recolumned(db, d, "users", columns, users)
  <2>1. d = [ColumnsSet(db, "users", columns) EXCEPT !.users = users]
    BY <1>1 DEF Apply, ColumnRenamed, Rows, Columns
  <2> HIDE DEF d, columns, users
  <2> QED
    BY <1>1, <2>1, ColumnsSetMeans
<1>3. \A f : s.column \in DOMAIN f /\ s.new \notin DOMAIN f =>
          LET g == Renamed(f, s.column, s.new)
          IN  /\ DOMAIN g = (DOMAIN f \ {s.column}) \union {s.new}
              /\ g[s.new] = f[s.column]
              /\ \A c \in DOMAIN f \ {s.column} : g[c] = f[c]
  BY DEF Renamed
<1>4. /\ DOMAIN columns = (DOMAIN old \ {s.column}) \union {s.new}
      /\ columns[s.new] = old[s.column]
      /\ \A c \in DOMAIN old \ {s.column} : columns[c] = old[c]
  BY <1>1, <1>3
<1>5. ASSUME NEW row, DOMAIN row = DOMAIN old
      PROVE  /\ DOMAIN moved(row) = (DOMAIN row \ {s.column}) \union {s.new}
             /\ moved(row)[s.new] = row[s.column]
             /\ \A c \in DOMAIN row \ {s.column} : moved(row)[c] = row[c]
  BY <1>1, <1>3, <1>5
<1>6. /\ DOMAIN users = DOMAIN db.users
      /\ \A a \in DOMAIN db.users : users[a] = moved(db.users[a])
  OBVIOUS
<1>7. \A a \in DOMAIN db.users : DOMAIN db.users[a] = DOMAIN old
  BY <1>1 DEF DbInv, UsersOK, RowFits
<1>8. \A c \in DOMAIN old : /\ UserColumn(c, old[c])
                            /\ old[c] \in DOMAIN db.types \union Builtin
  BY <1>1 DEF DbInv, UsersOK, ColumnTypesExist, Columns
<1> HIDE DEF d, columns, users, moved, old
<1>9. old[s.column] \in Builtin
  BY <1>1, <1>8 DEF UserColumn, RoleNames
<1>10. \A c \in DOMAIN columns : columns[c] \in DOMAIN db.types \union Builtin
  BY <1>4, <1>8, <1>9
<1>11. \A c \in DOMAIN columns : UserColumn(c, columns[c])
  BY <1>4, <1>8, <1>9 DEF UserColumn
<1>12. ASSUME NEW a \in DOMAIN db.users, RowFits(old, db.users[a])
       PROVE  RowFits(columns, users[a])
  <2>1. PICK row : row = db.users[a] /\ users[a] = moved(row)
    BY <1>6
  <2>2. columns[s.new] \notin RoleTypes
    BY <1>4, <1>9 DEF Builtin, RoleTypes
  <2>3. DOMAIN row = DOMAIN old /\ RowFits(old, row)
    BY <1>12, <2>1 DEF RowFits
  <2> PICK new : new = moved(row)
    OBVIOUS
  <2>4. /\ new = users[a]
        /\ DOMAIN new = (DOMAIN row \ {s.column}) \union {s.new}
        /\ \A c \in DOMAIN row \ {s.column} : new[c] = row[c]
    BY <1>5, <2>1, <2>3
  <2>5. DOMAIN new = DOMAIN columns
    BY <1>4, <2>3, <2>4
  <2>6. ASSUME NEW c \in DOMAIN columns, columns[c] \in RoleTypes
        PROVE  new[c] \in RoleValues[columns[c]]
    <3>1. c \in DOMAIN old \ {s.column}
      BY <1>4, <2>2, <2>6
    <3>2. columns[c] = old[c] /\ new[c] = row[c]
      BY <1>4, <2>3, <2>4, <3>1
    <3> QED
      BY <2>3, <2>6, <3>1, <3>2 DEF RowFits
  <2> QED
    BY <2>4, <2>5, <2>6 DEF RowFits
<1>13. DbInv(d)
  BY <1>1, <1>2, <1>6, <1>10, <1>11, <1>12, RecolumnedKeeps DEF old
<1>14. \A c \in RoleNames : c \in DOMAIN columns <=> c \in DOMAIN old
  BY <1>1, <1>4
<1>15. \A a \in DOMAIN db.users, c \in RoleNames :
          c \in DOMAIN old => users[a][c] = db.users[a][c]
  <2> SUFFICES ASSUME NEW a \in DOMAIN db.users, NEW c \in RoleNames,
                      c \in DOMAIN old
               PROVE  users[a][c] = db.users[a][c]
    OBVIOUS
  <2>1. PICK row : row = db.users[a] /\ users[a] = moved(row)
    BY <1>6
  <2>2. DOMAIN row = DOMAIN old
    BY <1>7, <2>1
  <2>3. c \in DOMAIN row \ {s.column}
    BY <1>1, <2>2
  <2>4. moved(row)[c] = row[c]
    BY <1>5, <2>2, <2>3
  <2> QED
    BY <2>1, <2>4
<1>16. SameRoles(db, d)
  BY <1>1, <1>2, <1>6, <1>14, <1>15, RecolumnedSameRoles DEF old
<1> QED
  BY <1>13, <1>16 DEF d

LEMMA AlterColumnStep ==
    ASSUME NEW db, NEW s, DbInv(db), Good(s), WellFormed(s, db),
           s.kind = "alter column"
    PROVE  DbInv(Apply(s, db)) /\ SameRoles(db, Apply(s, db))
<1> DEFINE d == Apply(s, db)
           old == Columns(db)
           columns == [old EXCEPT ![s.column] = s.type]
<1>1. /\ s.table = "users" /\ "users" \in DOMAIN db.tables
      /\ s.column \in DOMAIN old /\ s.type \in Builtin
  BY DEF Good, WellFormed, HasColumn, Columns
<1>2. Recolumned(db, d, "users", columns, db.users)
  <2>1. d = ColumnsSet(db, "users", columns)
    BY <1>1 DEF Apply, Columns
  <2> HIDE DEF d, columns
  <2> QED
    BY <1>1, <2>1, ColumnsSetMeans
<1>3. /\ DOMAIN columns = DOMAIN old
      /\ columns[s.column] = s.type
      /\ \A c \in DOMAIN old \ {s.column} : columns[c] = old[c]
  BY <1>1
<1>4. \A c \in DOMAIN old : /\ UserColumn(c, old[c])
                            /\ old[c] \in DOMAIN db.types \union Builtin
  BY <1>1 DEF DbInv, UsersOK, ColumnTypesExist, Columns
<1> HIDE DEF d, columns, old
<1>5. \A c \in DOMAIN columns : /\ columns[c] \in DOMAIN db.types \union Builtin
                                /\ UserColumn(c, columns[c])
  BY <1>1, <1>3, <1>4 DEF UserColumn
<1>6. \A row : RowFits(old, row) => RowFits(columns, row)
  BY <1>1, <1>3 DEF RowFits, Builtin, RoleTypes
<1>7. DbInv(d)
  BY <1>1, <1>2, <1>5, <1>6, RecolumnedKeeps DEF old
<1>8. SameRoles(db, d)
  BY <1>1, <1>2, <1>3, RecolumnedSameRoles DEF old
<1> QED
  BY <1>7, <1>8 DEF d

(* UPDATE users SET ...: every role that is written is one of its type.    *)
LEMMA UpdateUsersStep ==
    ASSUME NEW db, NEW s, DbInv(db), WellFormed(s, db),
           s.kind = "update users"
    PROVE  DbInv(Apply(s, db))
<1> DEFINE d == Apply(s, db)
           updated(row) == IF row[s.where] = s.match
                           THEN [row EXCEPT ![s.column] = s.value] ELSE row
<1>1. /\ "users" \in DOMAIN db.tables
      /\ s.column \in DOMAIN Columns(db)
      /\ s.value \in db.types[Columns(db)[s.column]]
  BY DEF WellFormed, HasColumn, Columns
<1>2. /\ DOMAIN d = Parts /\ d.types = db.types /\ d.tables = db.tables
      /\ d.latest = db.latest
      /\ d.users = [a \in DOMAIN db.users |-> updated(db.users[a])]
  <2>1. DOMAIN db = Parts
    BY DEF DbInv, Shaped
  <2>2. d = UsersUpdated(db, s)
    BY DEF Apply
  <2> HIDE DEF d
  <2> QED
    BY <2>1, <2>2 DEF Parts, UsersUpdated, Rows
<1>3. \A row : /\ DOMAIN updated(row) = DOMAIN row
               /\ \A c \in DOMAIN row :
                     updated(row)[c] \in {row[c]} \union
                                         (IF c = s.column THEN {s.value} ELSE {})
  OBVIOUS
<1> HIDE DEF d, updated
<1>4. Columns(db)[s.column] \in RoleTypes =>
          s.value \in RoleValues[Columns(db)[s.column]]
  <2>1. Columns(db)[s.column] \in DOMAIN db.types \union Builtin
    BY <1>1 DEF DbInv, ColumnTypesExist, Columns
  <2> QED
    BY <1>1, <2>1 DEF DbInv, TypesOK, RoleTypes, Builtin
<1>5. \A row : RowFits(Columns(db), row) => RowFits(Columns(db), updated(row))
  BY <1>3, <1>4 DEF RowFits
<1>6. UsersOK(d)
  <2>1. Columns(d) = Columns(db)
    BY <1>2 DEF Columns
  <2> QED
    BY <1>1, <1>2, <1>5, <2>1 DEF DbInv, UsersOK
<1>7. Shaped(d) /\ TypesOK(d.types) /\ d.latest \in Latest
  BY <1>2 DEF DbInv, Shaped
<1>8. ReferencesResolve(d)
  BY <1>2 DEF DbInv, ReferencesResolve
<1>9. ColumnTypesExist(d)
  BY <1>2 DEF DbInv, ColumnTypesExist
<1> QED
  BY <1>6, <1>7, <1>8, <1>9 DEF DbInv, d

(* Every statement of the scripts that applies keeps a database sound, and *)
(* the plain ones leave everybody their roles.                             *)
LEMMA ApplyKeeps ==
    ASSUME NEW db, NEW s, DbInv(db), Good(s), Applies(s, db)
    PROVE  /\ DbInv(Apply(s, db))
           /\ Plain(s) => SameRoles(db, Apply(s, db))
<1>1. WellFormed(s, db) /\ s.kind \in Kinds
  BY DEF Applies, Good
<1>2. CASE s.kind \in {"create type", "drop type", "create sequence",
                       "drop sequence"}
  BY <1>1, <1>2, CreateTypeStep, DropTypeStep, SequenceStep
<1>3. CASE s.kind \in {"create table", "drop table", "drop table if exists"}
  BY <1>1, <1>3, CreateTableStep, DropTableStep
<1>4. CASE s.kind \in {"add reference", "drop reference"}
  BY <1>1, <1>4, ReferenceStep
<1>5. CASE s.kind \in {"create index", "create index if not exists",
                       "drop index", "drop index if exists"}
  BY <1>1, <1>5, IndexStep
<1>6. CASE s.kind \in {"add column", "drop column"}
  BY <1>1, <1>6, AddColumnStep, DropColumnStep
<1>7. CASE s.kind \in {"rename column", "alter column", "update users"}
  BY <1>1, <1>7, RenameColumnStep, AlterColumnStep, UpdateUsersStep DEF Plain
<1> QED
  BY <1>1, <1>2, <1>3, <1>4, <1>5, <1>6, <1>7 DEF Kinds

-----------------------------------------------------------------------------
(* The scripts.  script has n statements, each of them good.               *)
Statements(script, n) ==
    /\ n \in Nat
    /\ \E S : script \in Seq(S)
    /\ Len(script) = n
    /\ \A i \in 1 .. n : Good(script[i])

(* From statement i to statement j a script leaves the roles alone.        *)
PlainFrom(script, i, j) == \A k \in i .. j : Plain(script[k])

(* A script of n statements that all leave the roles alone.                *)
Steady(script, n) == Statements(script, n) /\ PlainFrom(script, 1, n)

(* The l statements of u are the m of s followed by the n of t.            *)
Pieces(u, l, s, m, t) ==
    \A i \in 1 .. l : /\ i <= m => u[i] = s[i]
                      /\ i > m => u[i] = t[i - m]

Joined(u, l, s, m, t, n) == Statements(u, l) /\ Pieces(u, l, s, m, t)

LEMMA Concatenated ==
    ASSUME NEW s, NEW t, NEW m, NEW n, Statements(s, m), Statements(t, n),
           NEW l, l = m + n, NEW u, u = s \o t
    PROVE  Joined(u, l, s, m, t, n)
<1>1. PICK S : s \in Seq(S)
  BY DEF Statements
<1>2. PICK T : t \in Seq(T)
  BY DEF Statements
<1>3. m \in Nat /\ n \in Nat /\ Len(s) = m /\ Len(t) = n
  BY DEF Statements
<1> DEFINE U == S \union T
<1>4. s \in Seq(U) /\ t \in Seq(U)
  BY <1>1, <1>2
<1> HIDE DEF U
<1>5. /\ s \o t \in Seq(U) /\ Len(s \o t) = Len(s) + Len(t)
      /\ \A i \in 1 .. Len(s) + Len(t) :
            (s \o t)[i] = IF i <= Len(s) THEN s[i] ELSE t[i - Len(s)]
  BY <1>4, ConcatProperties
<1>6. /\ u \in Seq(U) /\ Len(u) = l
      /\ \A i \in 1 .. l : u[i] = IF i <= m THEN s[i] ELSE t[i - m]
  BY <1>3, <1>5
<1>7. ASSUME NEW i \in 1 .. l
      PROVE  Good(u[i])
  <2>1. CASE i <= m
    <3>1. i \in 1 .. m /\ u[i] = s[i]
      BY <1>3, <1>6, <2>1
    <3> QED
      BY <3>1 DEF Statements
  <2>2. CASE i > m
    <3>1. i - m \in 1 .. n /\ u[i] = t[i - m]
      BY <1>3, <1>6, <2>2
    <3>2. Good(t[i - m])
      BY <3>1 DEF Statements
    <3> QED
      BY <3>1, <3>2
  <2> QED
    BY <1>3, <2>1, <2>2
<1>8. l \in Nat
  BY <1>3
<1> QED
  <2>1. Statements(u, l)
    BY <1>6, <1>7, <1>8 DEF Statements
  <2>2. Pieces(u, l, s, m, t)
    BY <1>3, <1>6 DEF Pieces
  <2> QED
    BY <2>1, <2>2 DEF Joined

LEMMA SteadyJoined ==
    ASSUME NEW s, NEW t, NEW m, NEW n, Steady(s, m), Steady(t, n),
           NEW l, l = m + n, NEW u, Joined(u, l, s, m, t, n)
    PROVE  Steady(u, l)
<1>1. Statements(u, l) /\ Pieces(u, l, s, m, t)
  BY DEF Joined
<1>2. m \in Nat /\ n \in Nat
  BY DEF Steady, Statements
<1>3. ASSUME NEW i \in 1 .. l
      PROVE  Plain(u[i])
  <2>1. CASE i <= m
    <3>1. i \in 1 .. m /\ u[i] = s[i]
      BY <1>1, <1>2, <2>1 DEF Pieces
    <3> QED
      BY <3>1 DEF Steady, PlainFrom
  <2>2. CASE i > m
    <3>1. i - m \in 1 .. n /\ u[i] = t[i - m]
      BY <1>1, <1>2, <2>2 DEF Pieces
    <3>2. Plain(t[i - m])
      BY <3>1 DEF Steady, PlainFrom
    <3> QED
      BY <3>1, <3>2
  <2> QED
    BY <1>2, <2>1, <2>2
<1> QED
  BY <1>1, <1>3 DEF Steady, PlainFrom

LEMMA SteadyConcatenated ==
    ASSUME NEW s, NEW t, NEW m, NEW n, Steady(s, m), Steady(t, n),
           NEW l, l = m + n, NEW u, u = s \o t
    PROVE  Steady(u, l)
<1>1. Joined(u, l, s, m, t, n)
  BY Concatenated DEF Steady
<1> QED
  BY <1>1, SteadyJoined

(* The constructors of the statements.                                     *)
Sound(s) == Good(s) /\ Plain(s)

LEMMA SoundTypes ==
    /\ \A n, v : /\ n \notin Builtin
                 /\ n \in RoleTypes => v = RoleValues[n]
                 => Sound(CreateType(n, v))
    /\ \A n : Sound(DropType(n))
BY DEF Sound, Good, Plain, Kinds, CreateType, DropType

LEMMA SoundTables ==
    /\ \A t, r, c, u, i : t # "users" => Sound(CreateTable(t, r, c, u, i))
    /\ \A t, i : t # "users" => Sound(DropTable(t, i))
    /\ \A t : t # "users" => Sound(DropTableIfExists(t))
BY DEF Sound, Good, Plain, Kinds, CreateTable, Table, TableParts, DropTable,
       DropTableIfExists

LEMMA SoundReferences ==
    /\ \A t, c, r : Sound(AddReference(t, c, r))
    /\ \A t, c : Sound(DropReference(t, c))
BY DEF Sound, Good, Plain, Kinds, AddReference, DropReference

LEMMA SoundIndexes ==
    /\ \A t, i : Sound(CreateIndex(t, i))
    /\ \A t, i : Sound(CreateIndexIfMissing(t, i))
    /\ \A t, i : Sound(DropIndex(t, i))
    /\ \A t, i : Sound(DropIndexIfExists(t, i))
BY DEF Sound, Good, Plain, Kinds, CreateIndex, CreateIndexIfMissing, DropIndex,
       DropIndexIfExists

LEMMA SoundSequences ==
    \A n : Sound(CreateSequence(n)) /\ Sound(DropSequence(n))
BY DEF Sound, Good, Plain, Kinds, CreateSequence, DropSequence

LEMMA SoundColumns ==
    /\ \A c, type, v : c \notin RoleNames /\ type \in Builtin =>
          Sound(AddColumn("users", c, type, v))
    /\ \A c : c \notin RoleNames => Sound(DropColumn("users", c))
    /\ \A c, n : c \notin RoleNames /\ n \notin RoleNames =>
          Sound(RenameColumn("users", c, n))
    /\ \A c, type : c \notin RoleNames /\ type \in Builtin =>
          Sound(AlterColumn("users", c, type))
BY DEF Sound, Good, Plain, Kinds, AddColumn, DropColumn, RenameColumn,
       AlterColumn, UserColumn, Builtin, RoleTypes, RoleNames

(* What is particular about the statements that change the roles.          *)
LEMMA GoodRoleStatements ==
    /\ \A r, c, u, i : (\A x \in DOMAIN c : UserColumn(x, c[x])) =>
          Good(CreateTable("users", r, c, u, i))
    /\ \A i : Good(DropTable("users", i))
    /\ Good(AddColumn("users", "platform_role", "platform_role", "none"))
    /\ Good(AddColumn("users", "role", "user_role", "analyst"))
    /\ \A c : Good(DropColumn("users", c))
    /\ \A c, v, x, m : Good(UpdateUsers(c, v, x, m))
BY DEF Good, Kinds, CreateTable, Table, TableParts, DropTable, AddColumn,
       DropColumn, UpdateUsers, UserColumn, RoleTypes, RoleValues, Builtin


LEMMA SteadyEnums001 == Steady(Enums001, 5)
<1>1. Enums001 \in Seq(Range(Enums001)) /\ Len(Enums001) = 5
  BY DEF Enums001, Range
<1>2. \A i \in 1 .. 5 : Sound(Enums001[i])
  BY SoundTypes DEF Enums001, Builtin, RoleTypes, RoleValues
<1> QED
  BY <1>1, <1>2 DEF Steady, Statements, PlainFrom, Sound

LEMMA SteadyFindings001 == Steady(Findings001, 3)
<1>1. Findings001 \in Seq(Range(Findings001)) /\ Len(Findings001) = 3
  BY DEF Findings001, Range
<1>2. \A i \in 1 .. 3 : Sound(Findings001[i])
  BY SoundTables DEF Findings001, Builtin, RoleTypes, RoleValues
<1> QED
  BY <1>1, <1>2 DEF Steady, Statements, PlainFrom, Sound

LEMMA SteadyReviews001 == Steady(Reviews001, 3)
<1>1. Reviews001 \in Seq(Range(Reviews001)) /\ Len(Reviews001) = 3
  BY DEF Reviews001, Range
<1>2. \A i \in 1 .. 3 : Sound(Reviews001[i])
  BY SoundTables DEF Reviews001, Builtin, RoleTypes, RoleValues
<1> QED
  BY <1>1, <1>2 DEF Steady, Statements, PlainFrom, Sound

LEMMA SteadyEnums002 == Steady(Enums002, 6)
<1>1. Enums002 \in Seq(Range(Enums002)) /\ Len(Enums002) = 6
  BY DEF Enums002, Range
<1>2. \A i \in 1 .. 6 : Sound(Enums002[i])
  BY SoundTypes DEF Enums002, Builtin, RoleTypes, RoleValues
<1> QED
  BY <1>1, <1>2 DEF Steady, Statements, PlainFrom, Sound

LEMMA SteadyOrganizations002 == Steady(Organizations002, 4)
<1>1. Organizations002 \in Seq(Range(Organizations002)) /\ Len(Organizations002) = 4
  BY DEF Organizations002, Range
<1>2. \A i \in 1 .. 4 : Sound(Organizations002[i])
  BY SoundTables DEF Organizations002, Builtin, RoleTypes, RoleValues
<1> QED
  BY <1>1, <1>2 DEF Steady, Statements, PlainFrom, Sound

LEMMA SteadyDropOrganizations002 == Steady(DropOrganizations002, 10)
<1>1. DropOrganizations002 \in Seq(Range(DropOrganizations002)) /\ Len(DropOrganizations002) = 10
  BY DEF DropOrganizations002, Range
<1>2. \A i \in 1 .. 10 : Sound(DropOrganizations002[i])
  BY SoundTypes, SoundTables DEF DropOrganizations002, Builtin, RoleTypes, RoleValues
<1> QED
  BY <1>1, <1>2 DEF Steady, Statements, PlainFrom, Sound

LEMMA SteadyDropLegacy003 == Steady(DropLegacy003, 9)
<1>1. DropLegacy003 \in Seq(Range(DropLegacy003)) /\ Len(DropLegacy003) = 9
  BY DEF DropLegacy003, Range
<1>2. \A i \in 1 .. 9 : Sound(DropLegacy003[i])
  BY SoundTypes, SoundTables DEF DropLegacy003, Builtin, RoleTypes, RoleValues
<1> QED
  BY <1>1, <1>2 DEF Steady, Statements, PlainFrom, Sound

LEMMA SteadyEnums003 == Steady(Enums003, 8)
<1>1. Enums003 \in Seq(Range(Enums003)) /\ Len(Enums003) = 8
  BY DEF Enums003, Range
<1>2. \A i \in 1 .. 8 : Sound(Enums003[i])
  BY SoundTypes DEF Enums003, Builtin, RoleTypes, RoleValues
<1> QED
  BY <1>1, <1>2 DEF Steady, Statements, PlainFrom, Sound

LEMMA SteadyRuns003 == Steady(Runs003, 2)
<1>1. Runs003 \in Seq(Range(Runs003)) /\ Len(Runs003) = 2
  BY DEF Runs003, Range
<1>2. \A i \in 1 .. 2 : Sound(Runs003[i])
  BY SoundTables DEF Runs003, Builtin, RoleTypes, RoleValues
<1> QED
  BY <1>1, <1>2 DEF Steady, Statements, PlainFrom, Sound

LEMMA SteadyIncidents003 == Steady(Incidents003, 2)
<1>1. Incidents003 \in Seq(Range(Incidents003)) /\ Len(Incidents003) = 2
  BY DEF Incidents003, Range
<1>2. \A i \in 1 .. 2 : Sound(Incidents003[i])
  BY SoundTables, SoundSequences DEF Incidents003, Builtin, RoleTypes, RoleValues
<1> QED
  BY <1>1, <1>2 DEF Steady, Statements, PlainFrom, Sound

LEMMA SteadyChildren003 == Steady(Children003, 5)
<1>1. Children003 \in Seq(Range(Children003)) /\ Len(Children003) = 5
  BY DEF Children003, Range
<1>2. \A i \in 1 .. 5 : Sound(Children003[i])
  BY SoundTables, SoundReferences DEF Children003, Builtin, RoleTypes, RoleValues
<1> QED
  BY <1>1, <1>2 DEF Steady, Statements, PlainFrom, Sound

LEMMA SteadyDropIncidents003 == Steady(DropIncidents003, 17)
<1>1. DropIncidents003 \in Seq(Range(DropIncidents003)) /\ Len(DropIncidents003) = 17
  BY DEF DropIncidents003, Range
<1>2. \A i \in 1 .. 17 : Sound(DropIncidents003[i])
  BY SoundTypes, SoundTables, SoundReferences, SoundSequences DEF DropIncidents003, Builtin, RoleTypes, RoleValues
<1> QED
  BY <1>1, <1>2 DEF Steady, Statements, PlainFrom, Sound

LEMMA SteadyRestoreFiles003 == Steady(RestoreFiles003, 4)
<1>1. RestoreFiles003 \in Seq(Range(RestoreFiles003)) /\ Len(RestoreFiles003) = 4
  BY DEF RestoreFiles003, Range
<1>2. \A i \in 1 .. 4 : Sound(RestoreFiles003[i])
  BY SoundTypes, SoundTables DEF RestoreFiles003, Builtin, RoleTypes, RoleValues
<1> QED
  BY <1>1, <1>2 DEF Steady, Statements, PlainFrom, Sound

LEMMA SteadyRestoreFindings003 == Steady(RestoreFindings003, 3)
<1>1. RestoreFindings003 \in Seq(Range(RestoreFindings003)) /\ Len(RestoreFindings003) = 3
  BY DEF RestoreFindings003, Range
<1>2. \A i \in 1 .. 3 : Sound(RestoreFindings003[i])
  BY SoundTables DEF RestoreFindings003, Builtin, RoleTypes, RoleValues
<1> QED
  BY <1>1, <1>2 DEF Steady, Statements, PlainFrom, Sound

LEMMA SteadyRestoreReviews003 == Steady(RestoreReviews003, 2)
<1>1. RestoreReviews003 \in Seq(Range(RestoreReviews003)) /\ Len(RestoreReviews003) = 2
  BY DEF RestoreReviews003, Range
<1>2. \A i \in 1 .. 2 : Sound(RestoreReviews003[i])
  BY SoundTables DEF RestoreReviews003, Builtin, RoleTypes, RoleValues
<1> QED
  BY <1>1, <1>2 DEF Steady, Statements, PlainFrom, Sound

LEMMA SteadyEnums004 == Steady(Enums004, 3)
<1>1. Enums004 \in Seq(Range(Enums004)) /\ Len(Enums004) = 3
  BY DEF Enums004, Range
<1>2. \A i \in 1 .. 3 : Sound(Enums004[i])
  BY SoundTypes DEF Enums004, Builtin, RoleTypes, RoleValues
<1> QED
  BY <1>1, <1>2 DEF Steady, Statements, PlainFrom, Sound

LEMMA SteadyCatalogue004 == Steady(Catalogue004, 6)
<1>1. Catalogue004 \in Seq(Range(Catalogue004)) /\ Len(Catalogue004) = 6
  BY DEF Catalogue004, Range
<1>2. \A i \in 1 .. 6 : Sound(Catalogue004[i])
  BY SoundTables DEF Catalogue004, Builtin, RoleTypes, RoleValues
<1> QED
  BY <1>1, <1>2 DEF Steady, Statements, PlainFrom, Sound

LEMMA SteadyRuns004 == Steady(Runs004, 2)
<1>1. Runs004 \in Seq(Range(Runs004)) /\ Len(Runs004) = 2
  BY DEF Runs004, Range
<1>2. \A i \in 1 .. 2 : Sound(Runs004[i])
  BY SoundTables, SoundReferences DEF Runs004, Builtin, RoleTypes, RoleValues
<1> QED
  BY <1>1, <1>2 DEF Steady, Statements, PlainFrom, Sound

LEMMA SteadyFindings004 == Steady(Findings004, 3)
<1>1. Findings004 \in Seq(Range(Findings004)) /\ Len(Findings004) = 3
  BY DEF Findings004, Range
<1>2. \A i \in 1 .. 3 : Sound(Findings004[i])
  BY SoundTables DEF Findings004, Builtin, RoleTypes, RoleValues
<1> QED
  BY <1>1, <1>2 DEF Steady, Statements, PlainFrom, Sound

LEMMA SteadyReviews004 == Steady(Reviews004, 3)
<1>1. Reviews004 \in Seq(Range(Reviews004)) /\ Len(Reviews004) = 3
  BY DEF Reviews004, Range
<1>2. \A i \in 1 .. 3 : Sound(Reviews004[i])
  BY SoundTables DEF Reviews004, Builtin, RoleTypes, RoleValues
<1> QED
  BY <1>1, <1>2 DEF Steady, Statements, PlainFrom, Sound

LEMMA SteadyDropRuns004 == Steady(DropRuns004, 8)
<1>1. DropRuns004 \in Seq(Range(DropRuns004)) /\ Len(DropRuns004) = 8
  BY DEF DropRuns004, Range
<1>2. \A i \in 1 .. 8 : Sound(DropRuns004[i])
  BY SoundTables, SoundReferences DEF DropRuns004, Builtin, RoleTypes, RoleValues
<1> QED
  BY <1>1, <1>2 DEF Steady, Statements, PlainFrom, Sound

LEMMA SteadyRestoreCatalogue004 == Steady(RestoreCatalogue004, 9)
<1>1. RestoreCatalogue004 \in Seq(Range(RestoreCatalogue004)) /\ Len(RestoreCatalogue004) = 9
  BY DEF RestoreCatalogue004, Range
<1>2. \A i \in 1 .. 9 : Sound(RestoreCatalogue004[i])
  BY SoundTypes, SoundTables DEF RestoreCatalogue004, Builtin, RoleTypes, RoleValues
<1> QED
  BY <1>1, <1>2 DEF Steady, Statements, PlainFrom, Sound

LEMMA SteadyUpgrade005 == Steady(Upgrade005, 6)
<1>1. Upgrade005 \in Seq(Range(Upgrade005)) /\ Len(Upgrade005) = 6
  BY DEF Upgrade005, Range
<1>2. \A i \in 1 .. 6 : Sound(Upgrade005[i])
  BY SoundTypes, SoundTables DEF Upgrade005, Builtin, RoleTypes, RoleValues
<1> QED
  BY <1>1, <1>2 DEF Steady, Statements, PlainFrom, Sound

LEMMA SteadyDowngrade005 == Steady(Downgrade005, 6)
<1>1. Downgrade005 \in Seq(Range(Downgrade005)) /\ Len(Downgrade005) = 6
  BY DEF Downgrade005, Range
<1>2. \A i \in 1 .. 6 : Sound(Downgrade005[i])
  BY SoundTypes, SoundTables DEF Downgrade005, Builtin, RoleTypes, RoleValues
<1> QED
  BY <1>1, <1>2 DEF Steady, Statements, PlainFrom, Sound

LEMMA SteadyUpgrade006 == Steady(Upgrade006, 5)
<1>1. Upgrade006 \in Seq(Range(Upgrade006)) /\ Len(Upgrade006) = 5
  BY DEF Upgrade006, Range
<1>2. \A i \in 1 .. 5 : Sound(Upgrade006[i])
  BY SoundTypes, SoundTables, SoundReferences, SoundIndexes DEF Upgrade006, Builtin, RoleTypes, RoleValues
<1> QED
  BY <1>1, <1>2 DEF Steady, Statements, PlainFrom, Sound

LEMMA SteadyDowngrade006 == Steady(Downgrade006, 5)
<1>1. Downgrade006 \in Seq(Range(Downgrade006)) /\ Len(Downgrade006) = 5
  BY DEF Downgrade006, Range
<1>2. \A i \in 1 .. 5 : Sound(Downgrade006[i])
  BY SoundTypes, SoundTables, SoundReferences, SoundIndexes DEF Downgrade006, Builtin, RoleTypes, RoleValues
<1> QED
  BY <1>1, <1>2 DEF Steady, Statements, PlainFrom, Sound

LEMMA SteadyUpgrade007 == Steady(Upgrade007, 6)
<1>1. Upgrade007 \in Seq(Range(Upgrade007)) /\ Len(Upgrade007) = 6
  BY DEF Upgrade007, Range
<1>2. \A i \in 1 .. 6 : Sound(Upgrade007[i])
  BY SoundTypes, SoundTables, SoundIndexes, SoundSequences DEF Upgrade007, Builtin, RoleTypes, RoleValues
<1> QED
  BY <1>1, <1>2 DEF Steady, Statements, PlainFrom, Sound

LEMMA SteadyDowngrade007 == Steady(Downgrade007, 3)
<1>1. Downgrade007 \in Seq(Range(Downgrade007)) /\ Len(Downgrade007) = 3
  BY DEF Downgrade007, Range
<1>2. \A i \in 1 .. 3 : Sound(Downgrade007[i])
  BY SoundIndexes DEF Downgrade007, Builtin, RoleTypes, RoleValues
<1> QED
  BY <1>1, <1>2 DEF Steady, Statements, PlainFrom, Sound

LEMMA SteadyUpgrade008 == Steady(Upgrade008, 1)
<1>1. Upgrade008 \in Seq(Range(Upgrade008)) /\ Len(Upgrade008) = 1
  BY DEF Upgrade008, Range
<1>2. \A i \in 1 .. 1 : Sound(Upgrade008[i])
  BY SoundTables DEF Upgrade008, Builtin, RoleTypes, RoleValues
<1> QED
  BY <1>1, <1>2 DEF Steady, Statements, PlainFrom, Sound

LEMMA SteadyDowngrade008 == Steady(Downgrade008, 1)
<1>1. Downgrade008 \in Seq(Range(Downgrade008)) /\ Len(Downgrade008) = 1
  BY DEF Downgrade008, Range
<1>2. \A i \in 1 .. 1 : Sound(Downgrade008[i])
  BY SoundTables DEF Downgrade008, Builtin, RoleTypes, RoleValues
<1> QED
  BY <1>1, <1>2 DEF Steady, Statements, PlainFrom, Sound

(* The scripts that change the roles.                                      *)
MakesUsers(s) ==
    /\ s.kind = "create table" /\ s.table = "users"
    /\ "role" \in DOMAIN s.as.columns
    /\ "platform_role" \notin DOMAIN s.as.columns

LEMMA CreateTableMakesUsers ==
    \A r, c, u, i : "role" \in DOMAIN c /\ "platform_role" \notin DOMAIN c =>
        MakesUsers(CreateTable("users", r, c, u, i))
BY DEF MakesUsers, CreateTable, Table

LEMMA Core001Means ==
    /\ Statements(Core001, 5)
    /\ MakesUsers(Core001[1])
    /\ PlainFrom(Core001, 2, 5)
<1>1. Core001 \in Seq(Range(Core001)) /\ Len(Core001) = 5
  BY DEF Core001, Range
<1> DEFINE columns == [hashed_password |-> "varchar_255",
                       full_name |-> "varchar_255", role |-> "user_role"]
<1>2. \A x \in DOMAIN columns : UserColumn(x, columns[x])
  BY DEF UserColumn, Builtin
<1>3. "role" \in DOMAIN columns /\ "platform_role" \notin DOMAIN columns
  OBVIOUS
<1>4. Core001[1] = CreateTable("users", << >>, columns, {<<"email">>}, {"email"})
  BY DEF Core001
<1> HIDE DEF columns
<1>5. Good(Core001[1]) /\ MakesUsers(Core001[1])
  BY <1>2, <1>3, <1>4, GoodRoleStatements, CreateTableMakesUsers
<1>6. \A i \in 2 .. 5 : Sound(Core001[i])
  BY SoundTables DEF Core001
<1> QED
  BY <1>1, <1>5, <1>6 DEF Statements, PlainFrom, Sound

LEMMA Downgrade001Means ==
    /\ Statements(Downgrade001, 16)
    /\ PlainFrom(Downgrade001, 1, 10)
    /\ Downgrade001[11] = DropTable("users", {"email"})
    /\ PlainFrom(Downgrade001, 12, 16)
<1>1. Downgrade001 \in Seq(Range(Downgrade001)) /\ Len(Downgrade001) = 16
  BY DEF Downgrade001, Range
<1>2. \A i \in 1 .. 10 : Sound(Downgrade001[i])
  BY SoundTables DEF Downgrade001
<1>3. \A i \in 12 .. 16 : Sound(Downgrade001[i])
  BY SoundTypes DEF Downgrade001
<1>4. Downgrade001[11] = DropTable("users", {"email"})
  BY DEF Downgrade001
<1>5. Good(Downgrade001[11])
  BY <1>4, GoodRoleStatements
<1> QED
  BY <1>1, <1>2, <1>3, <1>4, <1>5 DEF Statements, PlainFrom, Sound

LEMMA Users002Means ==
    /\ Statements(Users002, 8)
    /\ PlainFrom(Users002, 1, 4)
    /\ Users002[5] = AddColumn("users", "platform_role", "platform_role", "none")
    /\ Users002[6] =
          UpdateUsers("platform_role", "platform_admin", "role", "admin")
    /\ Users002[7] = DropColumn("users", "role")
    /\ PlainFrom(Users002, 8, 8)
<1>1. Users002 \in Seq(Range(Users002)) /\ Len(Users002) = 8
  BY DEF Users002, Range
<1>2. \A i \in 1 .. 4 : Sound(Users002[i])
  BY SoundColumns DEF Users002, Builtin, RoleNames
<1>3. Sound(Users002[8])
  BY SoundTypes DEF Users002
<1>4. /\ Users002[5] = AddColumn("users", "platform_role", "platform_role", "none")
      /\ Users002[6] =
            UpdateUsers("platform_role", "platform_admin", "role", "admin")
      /\ Users002[7] = DropColumn("users", "role")
  BY DEF Users002
<1>5. Good(Users002[5]) /\ Good(Users002[6]) /\ Good(Users002[7])
  BY <1>4, GoodRoleStatements
<1> QED
  BY <1>1, <1>2, <1>3, <1>4, <1>5 DEF Statements, PlainFrom, Sound

LEMMA RestoreUsers002Means ==
    /\ Statements(RestoreUsers002, 8)
    /\ PlainFrom(RestoreUsers002, 1, 1)
    /\ RestoreUsers002[2] = AddColumn("users", "role", "user_role", "analyst")
    /\ RestoreUsers002[3] =
          UpdateUsers("role", "admin", "platform_role", "platform_admin")
    /\ RestoreUsers002[4] = DropColumn("users", "platform_role")
    /\ PlainFrom(RestoreUsers002, 5, 8)
<1>1. /\ RestoreUsers002 \in Seq(Range(RestoreUsers002))
      /\ Len(RestoreUsers002) = 8
  BY DEF RestoreUsers002, Range
<1>2. Sound(RestoreUsers002[1])
  BY SoundTypes DEF RestoreUsers002, Builtin, RoleTypes, RoleValues
<1>3. \A i \in 5 .. 8 : Sound(RestoreUsers002[i])
  BY SoundColumns DEF RestoreUsers002, Builtin, RoleNames
<1>4. /\ RestoreUsers002[2] = AddColumn("users", "role", "user_role", "analyst")
      /\ RestoreUsers002[3] =
            UpdateUsers("role", "admin", "platform_role", "platform_admin")
      /\ RestoreUsers002[4] = DropColumn("users", "platform_role")
  BY DEF RestoreUsers002
<1>5. /\ Good(RestoreUsers002[2]) /\ Good(RestoreUsers002[3])
      /\ Good(RestoreUsers002[4])
  BY <1>4, GoodRoleStatements
<1> QED
  BY <1>1, <1>2, <1>3, <1>4, <1>5 DEF Statements, PlainFrom, Sound

LEMMA Upgrade001Means ==
    /\ Statements(Upgrade001, 16)
    /\ PlainFrom(Upgrade001, 1, 5)
    /\ MakesUsers(Upgrade001[6])
    /\ PlainFrom(Upgrade001, 7, 16)
<1>u. PICK u : u = Enums001 \o Core001
  OBVIOUS
<1>v. PICK v : v = u \o Findings001
  OBVIOUS
<1>1. Joined(u, 10, Enums001, 5, Core001, 5)
  <2>1. 10 = 5 + 5
    OBVIOUS
  <2> QED
    BY <1>u, <2>1, Concatenated, SteadyEnums001, Core001Means DEF Steady
<1>2. Joined(v, 13, u, 10, Findings001, 3)
  <2>1. 13 = 10 + 3
    OBVIOUS
  <2>2. Statements(u, 10)
    BY <1>1 DEF Joined, Pieces
  <2> QED
    BY <1>v, <2>1, <2>2, Concatenated, SteadyFindings001 DEF Steady
<1>3. Joined(Upgrade001, 16, v, 13, Reviews001, 3)
  <2>1. 16 = 13 + 3
    OBVIOUS
  <2>2. Statements(v, 13)
    BY <1>2 DEF Joined, Pieces
  <2>3. Upgrade001 = v \o Reviews001
    BY <1>u, <1>v DEF Upgrade001
  <2> QED
    BY <2>1, <2>2, <2>3, Concatenated, SteadyReviews001 DEF Steady
<1>4. Statements(Upgrade001, 16)
  BY <1>3 DEF Joined, Pieces
<1>5. ASSUME NEW i \in 1 .. 5
      PROVE  Plain(Upgrade001[i])
  <2>1. Upgrade001[i] = Enums001[i]
    BY <1>1, <1>2, <1>3 DEF Joined, Pieces
  <2> QED
    BY <2>1, SteadyEnums001 DEF Steady, PlainFrom
<1>6. ASSUME NEW i \in 6 .. 10
      PROVE  i - 5 \in 1 .. 5 /\ Upgrade001[i] = Core001[i - 5]
  BY <1>1, <1>2, <1>3 DEF Joined, Pieces
<1>7. MakesUsers(Upgrade001[6])
  BY <1>6, Core001Means
<1>8. ASSUME NEW i \in 7 .. 10
      PROVE  Plain(Upgrade001[i])
  <2>1. i - 5 \in 2 .. 5 /\ Upgrade001[i] = Core001[i - 5]
    BY <1>6
  <2>2. Plain(Core001[i - 5])
    BY <2>1, Core001Means DEF PlainFrom
  <2> QED
    BY <2>1, <2>2
<1>9. ASSUME NEW i \in 11 .. 13
      PROVE  Plain(Upgrade001[i])
  <2>1. i - 10 \in 1 .. 3 /\ Upgrade001[i] = Findings001[i - 10]
    BY <1>2, <1>3 DEF Joined, Pieces
  <2>2. Plain(Findings001[i - 10])
    BY <2>1, SteadyFindings001 DEF Steady, PlainFrom
  <2> QED
    BY <2>1, <2>2
<1>10. ASSUME NEW i \in 14 .. 16
       PROVE  Plain(Upgrade001[i])
  <2>1. i - 13 \in 1 .. 3 /\ Upgrade001[i] = Reviews001[i - 13]
    BY <1>3 DEF Joined, Pieces
  <2>2. Plain(Reviews001[i - 13])
    BY <2>1, SteadyReviews001 DEF Steady, PlainFrom
  <2> QED
    BY <2>1, <2>2
<1>11. \A i \in 7 .. 16 : Plain(Upgrade001[i])
  BY <1>8, <1>9, <1>10
<1> QED
  BY <1>4, <1>5, <1>7, <1>11 DEF PlainFrom

LEMMA Upgrade002Means ==
    /\ Statements(Upgrade002, 18)
    /\ PlainFrom(Upgrade002, 1, 14)
    /\ Upgrade002[15] = AddColumn("users", "platform_role", "platform_role", "none")
    /\ Upgrade002[16] =
          UpdateUsers("platform_role", "platform_admin", "role", "admin")
    /\ Upgrade002[17] = DropColumn("users", "role")
    /\ PlainFrom(Upgrade002, 18, 18)
<1>u. PICK u : u = Enums002 \o Organizations002
  OBVIOUS
<1>1. Steady(u, 10)
  <2>1. 10 = 6 + 4
    OBVIOUS
  <2> QED
    BY <1>u, <2>1, SteadyConcatenated, SteadyEnums002, SteadyOrganizations002
<1>2. Joined(Upgrade002, 18, u, 10, Users002, 8)
  <2>1. 18 = 10 + 8
    OBVIOUS
  <2>2. Upgrade002 = u \o Users002
    BY <1>u DEF Upgrade002
  <2> QED
    BY <1>1, <2>1, <2>2, Concatenated, Users002Means DEF Steady
<1>3. Statements(Upgrade002, 18)
  BY <1>2 DEF Joined, Pieces
<1>4. ASSUME NEW i \in 1 .. 10
      PROVE  Plain(Upgrade002[i])
  <2>1. Upgrade002[i] = u[i]
    BY <1>2 DEF Joined, Pieces
  <2> QED
    BY <1>1, <2>1 DEF Steady, PlainFrom
<1>5. ASSUME NEW i \in 11 .. 18
      PROVE  Upgrade002[i] = Users002[i - 10]
  BY <1>2 DEF Joined, Pieces
<1>6. ASSUME NEW i \in 11 .. 14
      PROVE  Plain(Upgrade002[i])
  <2>1. i - 10 \in 1 .. 4 /\ Upgrade002[i] = Users002[i - 10]
    BY <1>5
  <2>2. Plain(Users002[i - 10])
    BY <2>1, Users002Means DEF PlainFrom
  <2> QED
    BY <2>1, <2>2
<1>7. \A i \in 1 .. 14 : Plain(Upgrade002[i])
  BY <1>4, <1>6
<1>8. /\ Upgrade002[15] = Users002[5]
      /\ Upgrade002[16] = Users002[6]
      /\ Upgrade002[17] = Users002[7]
      /\ Upgrade002[18] = Users002[8]
  BY <1>2 DEF Joined, Pieces
<1>9. Plain(Upgrade002[18])
  BY <1>8, Users002Means DEF PlainFrom
<1>10. PlainFrom(Upgrade002, 1, 14) /\ PlainFrom(Upgrade002, 18, 18)
  BY <1>7, <1>9 DEF PlainFrom
<1> QED
  BY <1>3, <1>8, <1>10, Users002Means

LEMMA Downgrade002Means ==
    /\ Statements(Downgrade002, 18)
    /\ PlainFrom(Downgrade002, 1, 1)
    /\ Downgrade002[2] = AddColumn("users", "role", "user_role", "analyst")
    /\ Downgrade002[3] =
          UpdateUsers("role", "admin", "platform_role", "platform_admin")
    /\ Downgrade002[4] = DropColumn("users", "platform_role")
    /\ PlainFrom(Downgrade002, 5, 18)
<1>1. Joined(Downgrade002, 18, RestoreUsers002, 8, DropOrganizations002, 10)
  <2>1. 18 = 8 + 10
    OBVIOUS
  <2> QED
    BY <2>1, Concatenated, RestoreUsers002Means, SteadyDropOrganizations002
       DEF Steady, Downgrade002
<1>2. Statements(Downgrade002, 18)
  BY <1>1 DEF Joined, Pieces
<1>3. ASSUME NEW i \in 1 .. 8
      PROVE  Downgrade002[i] = RestoreUsers002[i]
  BY <1>1 DEF Joined, Pieces
<1>4. Plain(Downgrade002[1]) /\ \A i \in 5 .. 8 : Plain(Downgrade002[i])
  BY <1>3, RestoreUsers002Means DEF PlainFrom
<1>5. ASSUME NEW i \in 9 .. 18
      PROVE  Plain(Downgrade002[i])
  <2>1. i - 8 \in 1 .. 10 /\ Downgrade002[i] = DropOrganizations002[i - 8]
    BY <1>1 DEF Joined, Pieces
  <2>2. Plain(DropOrganizations002[i - 8])
    BY <2>1, SteadyDropOrganizations002 DEF Steady, PlainFrom
  <2> QED
    BY <2>1, <2>2
<1>6. /\ Downgrade002[2] = RestoreUsers002[2]
      /\ Downgrade002[3] = RestoreUsers002[3]
      /\ Downgrade002[4] = RestoreUsers002[4]
  BY <1>3
<1> QED
  BY <1>2, <1>4, <1>5, <1>6, RestoreUsers002Means DEF PlainFrom

LEMMA SteadyUpgrade003 == Steady(Upgrade003, 26)
<1> PICK u : u = DropLegacy003 \o Enums003
  OBVIOUS
<1>1. Steady(u, 17)
  <2>1. 17 = 9 + 8
    OBVIOUS
  <2> QED
    BY <2>1, SteadyDropLegacy003, SteadyEnums003, SteadyConcatenated
<1> PICK v : v = u \o Runs003
  OBVIOUS
<1>2. Steady(v, 19)
  <2>1. 19 = 17 + 2
    OBVIOUS
  <2> QED
    BY <2>1, <1>1, SteadyRuns003, SteadyConcatenated
<1> PICK w : w = v \o Incidents003
  OBVIOUS
<1>3. Steady(w, 21)
  <2>1. 21 = 19 + 2
    OBVIOUS
  <2> QED
    BY <2>1, <1>2, SteadyIncidents003, SteadyConcatenated
<1> Upgrade003 = w \o Children003
  BY DEF Upgrade003
<1> QED
  <2>1. 26 = 21 + 5
    OBVIOUS
  <2> QED
    BY <2>1, <1>3, SteadyChildren003, SteadyConcatenated

LEMMA SteadyDowngrade003 == Steady(Downgrade003, 26)
<1> PICK u : u = DropIncidents003 \o RestoreFiles003
  OBVIOUS
<1>1. Steady(u, 21)
  <2>1. 21 = 17 + 4
    OBVIOUS
  <2> QED
    BY <2>1, SteadyDropIncidents003, SteadyRestoreFiles003, SteadyConcatenated
<1> PICK v : v = u \o RestoreFindings003
  OBVIOUS
<1>2. Steady(v, 24)
  <2>1. 24 = 21 + 3
    OBVIOUS
  <2> QED
    BY <2>1, <1>1, SteadyRestoreFindings003, SteadyConcatenated
<1> Downgrade003 = v \o RestoreReviews003
  BY DEF Downgrade003
<1> QED
  <2>1. 26 = 24 + 2
    OBVIOUS
  <2> QED
    BY <2>1, <1>2, SteadyRestoreReviews003, SteadyConcatenated

LEMMA SteadyUpgrade004 == Steady(Upgrade004, 17)
<1> PICK u : u = Enums004 \o Catalogue004
  OBVIOUS
<1>1. Steady(u, 9)
  <2>1. 9 = 3 + 6
    OBVIOUS
  <2> QED
    BY <2>1, SteadyEnums004, SteadyCatalogue004, SteadyConcatenated
<1> PICK v : v = u \o Runs004
  OBVIOUS
<1>2. Steady(v, 11)
  <2>1. 11 = 9 + 2
    OBVIOUS
  <2> QED
    BY <2>1, <1>1, SteadyRuns004, SteadyConcatenated
<1> PICK w : w = v \o Findings004
  OBVIOUS
<1>3. Steady(w, 14)
  <2>1. 14 = 11 + 3
    OBVIOUS
  <2> QED
    BY <2>1, <1>2, SteadyFindings004, SteadyConcatenated
<1> Upgrade004 = w \o Reviews004
  BY DEF Upgrade004
<1> QED
  <2>1. 17 = 14 + 3
    OBVIOUS
  <2> QED
    BY <2>1, <1>3, SteadyReviews004, SteadyConcatenated

LEMMA SteadyDowngrade004 == Steady(Downgrade004, 17)
<1> Downgrade004 = DropRuns004 \o RestoreCatalogue004
  BY DEF Downgrade004
<1> QED
  <2>1. 17 = 8 + 9
    OBVIOUS
  <2> QED
    BY <2>1, SteadyDropRuns004, SteadyRestoreCatalogue004, SteadyConcatenated

-----------------------------------------------------------------------------
(* Where a database stands between the prototype's users.role and the      *)
(* platform's users.platform_role.                                         *)
AdminValue == [role |-> "admin", platform_role |-> "platform_admin"]
IsAdmin(db, a, c) == db.users[a][c] = AdminValue[c]

Admins(db) ==
    {a \in DOMAIN db.users :
        \E c \in RoleNames : HasRole(db, c) /\ IsAdmin(db, a, c)}

Absent(db) == "users" \notin DOMAIN db.tables

(* users has the role column c and no other.                               *)
Only(db, c) ==
    /\ "users" \in DOMAIN db.tables
    /\ \A x \in RoleNames : HasRole(db, x) <=> x = c

Both(db) ==
    /\ "users" \in DOMAIN db.tables
    /\ \A x \in RoleNames : HasRole(db, x)

(* Column c is there, but the administrators are not in it yet.            *)
Widened(db, c) == Both(db) /\ \A a \in DOMAIN db.users : ~IsAdmin(db, a, c)

(* Both columns name the same administrators.                              *)
Copied(db) ==
    /\ Both(db)
    /\ \A a \in DOMAIN db.users, x, y \in RoleNames :
          IsAdmin(db, a, x) => IsAdmin(db, a, y)

InStage(db, k) ==
    /\ k = "absent" => Absent(db)
    /\ k = "role" => Only(db, "role")
    /\ k = "platform_role" => Only(db, "platform_role")
    /\ k = "to platform_role" => Widened(db, "platform_role")
    /\ k = "to role" => Widened(db, "role")
    /\ k = "copied" => Copied(db)

(* The accounts of db, and the administrators among them, are those of d.  *)
Kept(db, d) == DOMAIN d.users = DOMAIN db.users /\ Admins(d) = Admins(db)

(* A step from db leads to d, at stage k.                                  *)
Reaches(db, d, k) == InStage(d, k) /\ (k # "absent" => Kept(db, d))

LEMMA KeptReflexive == \A db : Kept(db, db)
BY DEF Kept

LEMMA KeptTransitive ==
    ASSUME NEW db, NEW e, NEW d, Kept(db, e), Kept(e, d)
    PROVE  Kept(db, d)
BY DEF Kept

LEMMA AdminsAreAdmins ==
    ASSUME NEW db, DbInv(db)
    PROVE  AdminsIn(db) = Admins(db)
<1> SUFFICES ASSUME NEW a \in DOMAIN db.users
             PROVE  a \in AdminsIn(db) <=> a \in Admins(db)
  BY DEF AdminsIn, Admins
<1>1. /\ "users" \in DOMAIN db.tables
      /\ DOMAIN db.users[a] = DOMAIN Columns(db)
  BY DEF DbInv, UsersOK, RowFits
<1>2. \A c : HasRole(db, c) <=> c \in DOMAIN db.users[a]
  BY <1>1 DEF HasRole, HasColumn, Columns
<1> QED
  BY <1>2 DEF AdminsIn, Admins, IsAdmin, AdminValue, RoleNames

LEMMA SameRolesReaches ==
    ASSUME NEW db, NEW d, SameRoles(db, d), NEW k, InStage(db, k)
    PROVE  Reaches(db, d, k)
<1>1. /\ "users" \in DOMAIN d.tables <=> "users" \in DOMAIN db.tables
      /\ \A c \in RoleNames : HasRole(d, c) <=> HasRole(db, c)
      /\ DOMAIN d.users = DOMAIN db.users
  BY DEF SameRoles
<1>2. \A a \in DOMAIN db.users, c \in RoleNames :
          HasRole(db, c) => (IsAdmin(d, a, c) <=> IsAdmin(db, a, c))
  BY DEF SameRoles, IsAdmin
<1>3. Kept(db, d)
  BY <1>1, <1>2 DEF Kept, Admins
<1>4. Both(db) <=> Both(d)
  BY <1>1 DEF Both
<1>5. ASSUME NEW c \in RoleNames
      PROVE  /\ Only(db, c) => Only(d, c)
             /\ Widened(db, c) => Widened(d, c)
  BY <1>1, <1>2, <1>4, <1>5 DEF Only, Widened, Both
<1>6. Copied(db) => Copied(d)
  BY <1>1, <1>2, <1>4 DEF Copied, Both
<1>7. Absent(db) => Absent(d)
  BY <1>1 DEF Absent
<1> QED
  BY <1>3, <1>5, <1>6, <1>7 DEF Reaches, InStage, RoleNames

LEMMA MakesUsersStep ==
    ASSUME NEW db, NEW s, DbInv(db), Absent(db), MakesUsers(s)
    PROVE  Reaches(db, Apply(s, db), "role")
<1> DEFINE d == Apply(s, db)
<1>1. /\ d.users = db.users
      /\ d.tables = With(db.tables, "users", s.as)
  <2>1. d = [db EXCEPT !.tables = With(db.tables, "users", s.as)]
    BY DEF Apply, MakesUsers
  <2>2. DOMAIN db = Parts
    BY DEF DbInv, Shaped
  <2> HIDE DEF d
  <2> QED
    BY <2>1, <2>2 DEF Parts
<1> HIDE DEF d
<1>2. DOMAIN d.users = {} /\ DOMAIN db.users = {}
  BY <1>1 DEF DbInv, UsersOK, Absent
<1>3. "users" \in DOMAIN d.tables /\ d.tables["users"] = s.as
  BY <1>1 DEF With
<1>4. Only(d, "role")
  BY <1>3 DEF Only, MakesUsers, HasRole, HasColumn, RoleNames
<1>5. Kept(db, d)
  BY <1>2 DEF Kept, Admins
<1> QED
  BY <1>4, <1>5 DEF Reaches, InStage, d

LEMMA DropUsersStep ==
    ASSUME NEW db, NEW i, DbInv(db)
    PROVE  Reaches(db, Apply(DropTable("users", i), db), "absent")
<1> DEFINE d == Apply(DropTable("users", i), db)
<1>1. d.tables = Without(db.tables, "users")
  <2>1. d = TableDropped(db, "users")
    BY DEF Apply, DropTable
  <2>2. DOMAIN db = Parts
    BY DEF DbInv, Shaped
  <2> HIDE DEF d
  <2> QED
    BY <2>1, <2>2 DEF Parts, TableDropped
<1> HIDE DEF d
<1>2. Absent(d)
  BY <1>1 DEF Absent, Without, Restrict
<1> QED
  BY <1>2 DEF Reaches, InStage, d

(* The three statements that move the roles from column o to column c.     *)
LEMMA RoleAdded ==
    ASSUME NEW db, DbInv(db), NEW c \in RoleNames, NEW o \in RoleNames, c # o,
           Only(db, o), NEW type, NEW v, v # AdminValue[c]
    PROVE  /\ Widened(Apply(AddColumn("users", c, type, v), db), c)
           /\ Kept(db, Apply(AddColumn("users", c, type, v), db))
<1> DEFINE d == Apply(AddColumn("users", c, type, v), db)
           columns == With(Columns(db), c, type)
           widened(row) == With(row, c, v)
           users == [a \in DOMAIN db.users |-> widened(db.users[a])]
<1>1. "users" \in DOMAIN db.tables
  BY DEF Only
<1>2. Recolumned(db, d, "users", columns, users)
  <2>1. d = [ColumnsSet(db, "users", columns) EXCEPT !.users = users]
    BY DEF Apply, AddColumn, ColumnAdded, Rows, Columns
  <2> HIDE DEF d, columns, users
  <2> QED
    BY <1>1, <2>1, ColumnsSetMeans
<1>3. \A f : /\ DOMAIN widened(f) = DOMAIN f \union {c}
             /\ widened(f)[c] = v
             /\ \A x \in DOMAIN f : x # c => widened(f)[x] = f[x]
  BY DEF With
<1>4. /\ DOMAIN users = DOMAIN db.users
      /\ \A a \in DOMAIN db.users : users[a] = widened(db.users[a])
      /\ DOMAIN columns = DOMAIN Columns(db) \union {c}
  BY DEF With
<1> HIDE DEF d, columns, users, widened
<1>5. /\ "users" \in DOMAIN d.tables /\ Columns(d) = columns
      /\ d.users = users /\ DOMAIN d.users = DOMAIN db.users
  BY <1>1, <1>2, <1>4 DEF Recolumned, Columns
<1>6. RoleNames = {c, o}
  BY DEF RoleNames
<1>7. o \in DOMAIN Columns(db) /\ c \notin DOMAIN Columns(db)
  BY DEF Only, HasRole, HasColumn, Columns
<1>8. Both(d)
  BY <1>4, <1>5, <1>6, <1>7 DEF Both, HasRole, HasColumn, Columns
<1>9. ASSUME NEW a \in DOMAIN db.users
      PROVE  ~IsAdmin(d, a, c) /\ (IsAdmin(d, a, o) <=> IsAdmin(db, a, o))
  <2>1. PICK row : row = db.users[a] /\ d.users[a] = widened(row)
    BY <1>4, <1>5
  <2>2. DOMAIN row = DOMAIN Columns(db)
    BY <1>1, <2>1 DEF DbInv, UsersOK, RowFits
  <2>3. widened(row)[c] = v /\ widened(row)[o] = row[o]
    BY <1>3, <1>7, <2>2
  <2> QED
    BY <2>1, <2>3 DEF IsAdmin
<1>10. Widened(d, c)
  BY <1>5, <1>8, <1>9 DEF Widened
<1>11. Admins(d) = Admins(db)
  BY <1>5, <1>6, <1>8, <1>9 DEF Admins, Both, Only
<1> QED
  BY <1>5, <1>10, <1>11 DEF Kept, d

LEMMA RoleCopied ==
    ASSUME NEW db, DbInv(db), NEW c \in RoleNames, NEW o \in RoleNames, c # o,
           Widened(db, c), NEW s,
           s = UpdateUsers(c, AdminValue[c], o, AdminValue[o])
    PROVE  Copied(Apply(s, db)) /\ Kept(db, Apply(s, db))
<1> DEFINE d == Apply(s, db)
           updated(row) == IF row[o] = AdminValue[o]
                           THEN [row EXCEPT ![c] = AdminValue[c]] ELSE row
<1>1. /\ d.tables = db.tables
      /\ d.users = [a \in DOMAIN db.users |-> updated(db.users[a])]
  <2>1. DOMAIN db = Parts
    BY DEF DbInv, Shaped
  <2>2. d = UsersUpdated(db, s)
    BY DEF Apply, UpdateUsers
  <2>3. /\ s.where = o /\ s.match = AdminValue[o]
        /\ s.column = c /\ s.value = AdminValue[c]
    BY DEF UpdateUsers
  <2> HIDE DEF d
  <2> QED
    BY <2>1, <2>2, <2>3 DEF Parts, UsersUpdated, Rows
<1>2. ASSUME NEW row, c \in DOMAIN row
      PROVE  /\ updated(row)[o] = row[o]
             /\ updated(row)[c] = IF row[o] = AdminValue[o] THEN AdminValue[c]
                                                            ELSE row[c]
  BY <1>2
<1> HIDE DEF d, updated
<1>3. RoleNames = {c, o}
  BY DEF RoleNames
<1>4. Both(db) /\ Both(d) /\ DOMAIN d.users = DOMAIN db.users
  BY <1>1 DEF Widened, Both, HasRole, HasColumn
<1>5. ASSUME NEW a \in DOMAIN db.users
      PROVE  /\ IsAdmin(d, a, o) <=> IsAdmin(db, a, o)
             /\ IsAdmin(d, a, c) <=> IsAdmin(db, a, o)
  <2>1. PICK row : row = db.users[a] /\ d.users[a] = updated(row)
    BY <1>1
  <2>2. c \in DOMAIN row
    BY <1>4, <2>1 DEF DbInv, UsersOK, RowFits, Both, HasRole, HasColumn, Columns
  <2>3. row[c] # AdminValue[c]
    BY <2>1 DEF Widened, IsAdmin
  <2> QED
    BY <1>2, <2>1, <2>2, <2>3 DEF IsAdmin
<1>6. Copied(d)
  BY <1>3, <1>4, <1>5 DEF Copied
<1>7. Admins(d) = Admins(db)
  BY <1>3, <1>4, <1>5 DEF Admins, Both, Widened
<1> QED
  BY <1>4, <1>6, <1>7 DEF Kept, d

LEMMA RoleDropped ==
    ASSUME NEW db, DbInv(db), NEW c \in RoleNames, NEW o \in RoleNames, c # o,
           Copied(db)
    PROVE  /\ Only(Apply(DropColumn("users", o), db), c)
           /\ Kept(db, Apply(DropColumn("users", o), db))
<1> DEFINE d == Apply(DropColumn("users", o), db)
           columns == Without(Columns(db), o)
           narrowed(row) == Without(row, o)
           users == [a \in DOMAIN db.users |-> narrowed(db.users[a])]
<1>1. "users" \in DOMAIN db.tables
  BY DEF Copied, Both
<1>2. Recolumned(db, d, "users", columns, users)
  <2>1. d = [ColumnsSet(db, "users", columns) EXCEPT !.users = users]
    BY DEF Apply, DropColumn, ColumnDropped, Rows, Columns
  <2> HIDE DEF d, columns, users
  <2> QED
    BY <1>1, <2>1, ColumnsSetMeans
<1>3. \A f : \A x \in DOMAIN f : x # o => narrowed(f)[x] = f[x]
  BY DEF Without, Restrict
<1>4. /\ DOMAIN users = DOMAIN db.users
      /\ \A a \in DOMAIN db.users : users[a] = narrowed(db.users[a])
      /\ DOMAIN columns = DOMAIN Columns(db) \ {o}
  BY DEF Without, Restrict
<1> HIDE DEF d, columns, users, narrowed
<1>5. /\ "users" \in DOMAIN d.tables /\ Columns(d) = columns
      /\ d.users = users /\ DOMAIN d.users = DOMAIN db.users
  BY <1>1, <1>2, <1>4 DEF Recolumned, Columns
<1>6. RoleNames = {c, o}
  BY DEF RoleNames
<1>7. o \in DOMAIN Columns(db) /\ c \in DOMAIN Columns(db)
  BY DEF Copied, Both, HasRole, HasColumn, Columns
<1>8. Only(d, c)
  BY <1>4, <1>5, <1>6, <1>7 DEF Only, HasRole, HasColumn, Columns
<1>9. ASSUME NEW a \in DOMAIN db.users
      PROVE  IsAdmin(d, a, c) <=> IsAdmin(db, a, c)
  <2>1. PICK row : row = db.users[a] /\ d.users[a] = narrowed(row)
    BY <1>4, <1>5
  <2>2. DOMAIN row = DOMAIN Columns(db)
    BY <1>1, <2>1 DEF DbInv, UsersOK, RowFits
  <2>3. narrowed(row)[c] = row[c]
    BY <1>3, <1>7, <2>2
  <2> QED
    BY <2>1, <2>3 DEF IsAdmin
<1>10. \A a \in DOMAIN db.users : IsAdmin(db, a, c) <=> IsAdmin(db, a, o)
  BY DEF Copied
<1>11. Admins(d) = Admins(db)
  BY <1>5, <1>6, <1>8, <1>9, <1>10 DEF Admins, Both, Only, Copied
<1> QED
  BY <1>5, <1>8, <1>11 DEF Kept, d

-----------------------------------------------------------------------------
(* The stage a database is in before statement i of the r-th upgrade, or   *)
(* of the r-th downgrade, and at a revision.                               *)
UpStage(r, i) ==
    IF r = 1 THEN IF i <= 6 THEN "absent" ELSE "role"
    ELSE IF r = 2 THEN IF i <= 15 THEN "role"
                       ELSE IF i = 16 THEN "to platform_role"
                       ELSE IF i = 17 THEN "copied" ELSE "platform_role"
    ELSE "platform_role"

DownStage(r, i) ==
    IF r = 1 THEN IF i <= 11 THEN "role" ELSE "absent"
    ELSE IF r = 2 THEN IF i <= 2 THEN "platform_role"
                       ELSE IF i = 3 THEN "to role"
                       ELSE IF i = 4 THEN "copied" ELSE "role"
    ELSE "platform_role"

RevisionStage(r) ==
    IF r = 0 THEN "absent" ELSE IF r = 1 THEN "role" ELSE "platform_role"

Nonempty(script) == Len(script) \in Nat \ {0}
SteadyScript(script) == Steady(script, Len(script))

LEMMA HeadIsEight == HeadRevision = 8
BY DEF HeadRevision, Upgrades

LEMMA UpgradesMean ==
    /\ Upgrades[1] = Upgrade001 /\ Upgrades[2] = Upgrade002
    /\ Len(Upgrade001) = 16 /\ Len(Upgrade002) = 18
    /\ \A r \in 3 .. 8 : SteadyScript(Upgrades[r])
<1>1. /\ Upgrades[1] = Upgrade001 /\ Upgrades[2] = Upgrade002
      /\ Upgrades[3] = Upgrade003 /\ Upgrades[4] = Upgrade004
      /\ Upgrades[5] = Upgrade005 /\ Upgrades[6] = Upgrade006
      /\ Upgrades[7] = Upgrade007 /\ Upgrades[8] = Upgrade008
  BY DEF Upgrades
<1>2. Len(Upgrade001) = 16 /\ Len(Upgrade002) = 18
  BY Upgrade001Means, Upgrade002Means DEF Statements
<1>3. \A n : \A script : Steady(script, n) => SteadyScript(script)
  BY DEF Steady, Statements, SteadyScript
<1>4. /\ SteadyScript(Upgrade003) /\ SteadyScript(Upgrade004)
      /\ SteadyScript(Upgrade005) /\ SteadyScript(Upgrade006)
      /\ SteadyScript(Upgrade007) /\ SteadyScript(Upgrade008)
  BY <1>3, SteadyUpgrade003, SteadyUpgrade004, SteadyUpgrade005,
     SteadyUpgrade006, SteadyUpgrade007, SteadyUpgrade008
<1> QED
  BY <1>1, <1>2, <1>4

LEMMA DowngradesMean ==
    /\ Downgrades[1] = Downgrade001 /\ Downgrades[2] = Downgrade002
    /\ Len(Downgrade001) = 16 /\ Len(Downgrade002) = 18
    /\ \A r \in 3 .. 8 : SteadyScript(Downgrades[r])
<1>1. /\ Downgrades[1] = Downgrade001 /\ Downgrades[2] = Downgrade002
      /\ Downgrades[3] = Downgrade003 /\ Downgrades[4] = Downgrade004
      /\ Downgrades[5] = Downgrade005 /\ Downgrades[6] = Downgrade006
      /\ Downgrades[7] = Downgrade007 /\ Downgrades[8] = Downgrade008
  BY DEF Downgrades
<1>2. Len(Downgrade001) = 16 /\ Len(Downgrade002) = 18
  BY Downgrade001Means, Downgrade002Means DEF Statements
<1>3. \A n : \A script : Steady(script, n) => SteadyScript(script)
  BY DEF Steady, Statements, SteadyScript
<1>4. /\ SteadyScript(Downgrade003) /\ SteadyScript(Downgrade004)
      /\ SteadyScript(Downgrade005) /\ SteadyScript(Downgrade006)
      /\ SteadyScript(Downgrade007) /\ SteadyScript(Downgrade008)
  BY <1>3, SteadyDowngrade003, SteadyDowngrade004, SteadyDowngrade005,
     SteadyDowngrade006, SteadyDowngrade007, SteadyDowngrade008
<1> QED
  BY <1>1, <1>2, <1>4

LEMMA StageValues ==
    ASSUME NEW i
    PROVE  /\ UpStage(1, 1) = "absent" /\ UpStage(1, 17) = "role"
           /\ UpStage(2, 1) = "role" /\ UpStage(2, 19) = "platform_role"
           /\ \A r \in 3 .. 8 : UpStage(r, i) = "platform_role"
           /\ DownStage(1, 1) = "role" /\ DownStage(1, 17) = "absent"
           /\ DownStage(2, 1) = "platform_role" /\ DownStage(2, 19) = "role"
           /\ \A r \in 3 .. 8 : DownStage(r, i) = "platform_role"
           /\ RevisionStage(0) = "absent" /\ RevisionStage(1) = "role"
           /\ \A r \in 2 .. 8 : RevisionStage(r) = "platform_role"
BY DEF UpStage, DownStage, RevisionStage

(* The stage changes at the statements that change the roles only.         *)
LEMMA StageStays ==
    ASSUME NEW r \in 1 .. 2, NEW i \in Nat
    PROVE  /\ /\ r = 1 => i # 6
              /\ r = 2 => i \notin 15 .. 17
              => UpStage(r, i + 1) = UpStage(r, i)
           /\ /\ r = 1 => i # 11
              /\ r = 2 => i \notin 2 .. 4
              => DownStage(r, i + 1) = DownStage(r, i)
<1>1. CASE r = 1
  BY <1>1 DEF UpStage, DownStage
<1>2. CASE r = 2
  <2>1. ASSUME i \notin 15 .. 17
        PROVE  UpStage(r, i + 1) = UpStage(r, i)
    <3>1. i <= 14 \/ i >= 18
      BY <2>1
    <3>2. ASSUME i <= 14
          PROVE  UpStage(r, i + 1) = "role" /\ UpStage(r, i) = "role"
      BY <1>2, <3>2 DEF UpStage
    <3>3. ASSUME i >= 18
          PROVE  UpStage(r, i + 1) = "platform_role" /\ UpStage(r, i) = "platform_role"
      BY <1>2, <3>3 DEF UpStage
    <3> QED
      BY <3>1, <3>2, <3>3
  <2>2. ASSUME i \notin 2 .. 4
        PROVE  DownStage(r, i + 1) = DownStage(r, i)
    <3>1. i <= 1 \/ i >= 5
      BY <2>2
    <3>2. ASSUME i <= 1
          PROVE  DownStage(r, i + 1) = "platform_role" /\ DownStage(r, i) = "platform_role"
      BY <1>2, <3>2 DEF DownStage
    <3>3. ASSUME i >= 5
          PROVE  DownStage(r, i + 1) = "role" /\ DownStage(r, i) = "role"
      BY <1>2, <3>3 DEF DownStage
    <3> QED
      BY <3>1, <3>2, <3>3
  <2> QED
    BY <1>2, <2>1, <2>2
<1> QED
  BY <1>1, <1>2

(* A script is entered and left at the stages of its two revisions.        *)
LEMMA StagesMeet ==
    /\ \A r \in 1 .. 8 : /\ Len(Upgrades[r]) \in Nat \ {0}
                         /\ UpStage(r, 1) = RevisionStage(r - 1)
                         /\ UpStage(r, Len(Upgrades[r]) + 1) = RevisionStage(r)
    /\ \A r \in 1 .. 8 : /\ Len(Downgrades[r]) \in Nat \ {0}
                         /\ DownStage(r, 1) = RevisionStage(r)
                         /\ DownStage(r, Len(Downgrades[r]) + 1) = RevisionStage(r - 1)
<1>1. \A r \in 1 .. 8 : Len(Upgrades[r]) \in Nat \ {0}
  <2>1. Len(Upgrade001) = 16 /\ Len(Upgrade002) = 18
    BY UpgradesMean
  <2>2. /\ Upgrades[1] = Upgrade001 /\ Upgrades[2] = Upgrade002
        /\ Upgrades[3] = Upgrade003 /\ Upgrades[4] = Upgrade004
        /\ Upgrades[5] = Upgrade005 /\ Upgrades[6] = Upgrade006
        /\ Upgrades[7] = Upgrade007 /\ Upgrades[8] = Upgrade008
    BY DEF Upgrades
  <2>3. /\ Len(Upgrade003) = 26 /\ Len(Upgrade004) = 17
        /\ Len(Upgrade005) = 6 /\ Len(Upgrade006) = 5
        /\ Len(Upgrade007) = 6 /\ Len(Upgrade008) = 1
    BY SteadyUpgrade003, SteadyUpgrade004, SteadyUpgrade005,
       SteadyUpgrade006, SteadyUpgrade007, SteadyUpgrade008 DEF Steady, Statements
  <2>4. /\ Nonempty(Upgrade001) /\ Nonempty(Upgrade002)
        /\ Nonempty(Upgrade003) /\ Nonempty(Upgrade004)
        /\ Nonempty(Upgrade005) /\ Nonempty(Upgrade006)
        /\ Nonempty(Upgrade007) /\ Nonempty(Upgrade008)
    BY <2>1, <2>3 DEF Nonempty
  <2>5. \A r \in 1 .. 8 : Nonempty(Upgrades[r])
    BY <2>2, <2>4
  <2> QED
    BY <2>5 DEF Nonempty
<1>2. \A r \in 1 .. 8 : Len(Downgrades[r]) \in Nat \ {0}
  <2>1. Len(Downgrade001) = 16 /\ Len(Downgrade002) = 18
    BY DowngradesMean
  <2>2. /\ Downgrades[1] = Downgrade001 /\ Downgrades[2] = Downgrade002
        /\ Downgrades[3] = Downgrade003 /\ Downgrades[4] = Downgrade004
        /\ Downgrades[5] = Downgrade005 /\ Downgrades[6] = Downgrade006
        /\ Downgrades[7] = Downgrade007 /\ Downgrades[8] = Downgrade008
    BY DEF Downgrades
  <2>3. /\ Len(Downgrade003) = 26 /\ Len(Downgrade004) = 17
        /\ Len(Downgrade005) = 6 /\ Len(Downgrade006) = 5
        /\ Len(Downgrade007) = 3 /\ Len(Downgrade008) = 1
    BY SteadyDowngrade003, SteadyDowngrade004, SteadyDowngrade005,
       SteadyDowngrade006, SteadyDowngrade007, SteadyDowngrade008
       DEF Steady, Statements
  <2>4. /\ Nonempty(Downgrade001) /\ Nonempty(Downgrade002)
        /\ Nonempty(Downgrade003) /\ Nonempty(Downgrade004)
        /\ Nonempty(Downgrade005) /\ Nonempty(Downgrade006)
        /\ Nonempty(Downgrade007) /\ Nonempty(Downgrade008)
    BY <2>1, <2>3 DEF Nonempty
  <2>5. \A r \in 1 .. 8 : Nonempty(Downgrades[r])
    BY <2>2, <2>4
  <2> QED
    BY <2>5 DEF Nonempty
<1>3. ASSUME NEW r \in 1 .. 8
      PROVE  /\ UpStage(r, 1) = RevisionStage(r - 1)
             /\ UpStage(r, Len(Upgrades[r]) + 1) = RevisionStage(r)
  <2>1. CASE r = 1
    <3>1. Len(Upgrades[r]) + 1 = 17 /\ r - 1 = 0
      BY <2>1, UpgradesMean
    <3> QED
      BY <2>1, <3>1, StageValues
  <2>2. CASE r = 2
    <3>1. Len(Upgrades[r]) + 1 = 19 /\ r - 1 = 1
      BY <2>2, UpgradesMean
    <3> QED
      BY <2>2, <3>1, StageValues
  <2>3. CASE r \in 3 .. 8
    <3>1. r - 1 \in 2 .. 8 /\ r \in 2 .. 8
      BY <2>3
    <3> QED
      BY <2>3, <3>1, StageValues
  <2> QED
    BY <2>1, <2>2, <2>3
<1>4. ASSUME NEW r \in 1 .. 8
      PROVE  /\ DownStage(r, 1) = RevisionStage(r)
             /\ DownStage(r, Len(Downgrades[r]) + 1) = RevisionStage(r - 1)
  <2>1. CASE r = 1
    <3>1. Len(Downgrades[r]) + 1 = 17 /\ r - 1 = 0
      BY <2>1, DowngradesMean
    <3> QED
      BY <2>1, <3>1, StageValues
  <2>2. CASE r = 2
    <3>1. Len(Downgrades[r]) + 1 = 19 /\ r - 1 = 1
      BY <2>2, DowngradesMean
    <3> QED
      BY <2>2, <3>1, StageValues
  <2>3. CASE r \in 3 .. 8
    <3>1. r - 1 \in 2 .. 8 /\ r \in 2 .. 8
      BY <2>3
    <3> QED
      BY <2>3, <3>1, StageValues
  <2> QED
    BY <2>1, <2>2, <2>3
<1> QED
  BY <1>1, <1>2, <1>3, <1>4

(* A good statement that applies in stage k, and is plain, stays there.    *)
LEMMA PlainStep ==
    ASSUME NEW db, NEW s, DbInv(db), Good(s), Plain(s), Applies(s, db),
           NEW k, InStage(db, k)
    PROVE  Reaches(db, Apply(s, db), k)
BY ApplyKeeps, SameRolesReaches

LEMMA UpgradeStep ==
    ASSUME NEW r \in 1 .. 8, NEW i \in 1 .. Len(Upgrades[r]), NEW db,
           DbInv(db), InStage(db, UpStage(r, i)), Applies(Upgrades[r][i], db)
    PROVE  /\ DbInv(Apply(Upgrades[r][i], db))
           /\ Reaches(db, Apply(Upgrades[r][i], db), UpStage(r, i + 1))
<1> PICK s : s = Upgrades[r][i]
  OBVIOUS
<1>1. CASE r = 1
  <2>1. s = Upgrade001[i] /\ i \in 1 .. 16
    BY <1>1, UpgradesMean
  <2>2. Good(s)
    BY <2>1, Upgrade001Means DEF Statements
  <2>3. CASE i = 6
    <3>1. MakesUsers(s) /\ Absent(db) /\ UpStage(r, i + 1) = "role"
      BY <1>1, <2>1, <2>3, Upgrade001Means DEF UpStage, InStage
    <3> QED
      BY <2>2, <3>1, ApplyKeeps, MakesUsersStep
  <2>4. CASE i # 6
    <3>1. i \in 1 .. 5 \/ i \in 7 .. 16
      BY <2>1, <2>4
    <3>2. Plain(s)
      BY <2>1, <3>1, Upgrade001Means DEF PlainFrom
    <3>3. UpStage(r, i + 1) = UpStage(r, i)
      BY <1>1, <2>1, <2>4, StageStays
    <3> QED
      BY <2>2, <3>2, <3>3, ApplyKeeps, PlainStep
  <2> QED
    BY <2>3, <2>4
<1>2. CASE r = 2
  <2>1. s = Upgrade002[i] /\ i \in 1 .. 18
    BY <1>2, UpgradesMean
  <2>2. Good(s)
    BY <2>1, Upgrade002Means DEF Statements
  <2>3. DbInv(Apply(s, db))
    BY <2>2, ApplyKeeps
  <2>4. CASE i = 15
    <3>1. s = AddColumn("users", "platform_role", "platform_role", "none")
      BY <2>1, <2>4, Upgrade002Means
    <3>2. Only(db, "role") /\ UpStage(r, i + 1) = "to platform_role"
      BY <1>2, <2>4 DEF UpStage, InStage
    <3>3. "none" # AdminValue["platform_role"]
      BY DEF AdminValue
    <3>4. Widened(Apply(s, db), "platform_role") /\ Kept(db, Apply(s, db))
      BY <3>1, <3>2, <3>3, RoleAdded DEF RoleNames
    <3> QED
      BY <2>3, <3>2, <3>4 DEF Reaches, InStage
  <2>5. CASE i = 16
    <3>1. s = UpdateUsers("platform_role", AdminValue["platform_role"],
                          "role", AdminValue["role"])
      BY <2>1, <2>5, Upgrade002Means DEF AdminValue
    <3>2. Widened(db, "platform_role") /\ UpStage(r, i + 1) = "copied"
      BY <1>2, <2>5 DEF UpStage, InStage
    <3>3. Copied(Apply(s, db)) /\ Kept(db, Apply(s, db))
      BY <3>1, <3>2, RoleCopied DEF RoleNames
    <3> QED
      BY <2>3, <3>2, <3>3 DEF Reaches, InStage
  <2>6. CASE i = 17
    <3>1. s = DropColumn("users", "role")
      BY <2>1, <2>6, Upgrade002Means
    <3>2. Copied(db) /\ UpStage(r, i + 1) = "platform_role"
      BY <1>2, <2>6 DEF UpStage, InStage
    <3>3. Only(Apply(s, db), "platform_role") /\ Kept(db, Apply(s, db))
      BY <3>1, <3>2, RoleDropped DEF RoleNames
    <3> QED
      BY <2>3, <3>2, <3>3 DEF Reaches, InStage
  <2>7. CASE i \notin 15 .. 17
    <3>1. i \in 1 .. 14 \/ i \in 18 .. 18
      BY <2>1, <2>7
    <3>2. Plain(s)
      BY <2>1, <3>1, Upgrade002Means DEF PlainFrom
    <3>3. UpStage(r, i + 1) = UpStage(r, i)
      BY <1>2, <2>1, <2>7, StageStays
    <3> QED
      BY <2>2, <2>3, <3>2, <3>3, PlainStep
  <2> QED
    BY <2>1, <2>4, <2>5, <2>6, <2>7
<1>3. CASE r \in 3 .. 8
  <2>1. Good(s) /\ Plain(s)
    BY <1>3, UpgradesMean DEF SteadyScript, Steady, Statements, PlainFrom
  <2>2. UpStage(r, i + 1) = UpStage(r, i)
    BY <1>3, StageValues
  <2> QED
    BY <2>1, <2>2, ApplyKeeps, PlainStep
<1> QED
  BY <1>1, <1>2, <1>3

LEMMA DowngradeStep ==
    ASSUME NEW r \in 1 .. 8, NEW i \in 1 .. Len(Downgrades[r]), NEW db,
           DbInv(db), InStage(db, DownStage(r, i)), Applies(Downgrades[r][i], db)
    PROVE  /\ DbInv(Apply(Downgrades[r][i], db))
           /\ Reaches(db, Apply(Downgrades[r][i], db), DownStage(r, i + 1))
<1> PICK s : s = Downgrades[r][i]
  OBVIOUS
<1>1. CASE r = 1
  <2>1. s = Downgrade001[i] /\ i \in 1 .. 16
    BY <1>1, DowngradesMean
  <2>2. Good(s)
    BY <2>1, Downgrade001Means DEF Statements
  <2>3. CASE i = 11
    <3>1. s = DropTable("users", {"email"}) /\ DownStage(r, i + 1) = "absent"
      BY <1>1, <2>1, <2>3, Downgrade001Means DEF DownStage
    <3> QED
      BY <2>2, <3>1, ApplyKeeps, DropUsersStep
  <2>4. CASE i # 11
    <3>1. i \in 1 .. 10 \/ i \in 12 .. 16
      BY <2>1, <2>4
    <3>2. Plain(s)
      BY <2>1, <3>1, Downgrade001Means DEF PlainFrom
    <3>3. DownStage(r, i + 1) = DownStage(r, i)
      BY <1>1, <2>1, <2>4, StageStays
    <3> QED
      BY <2>2, <3>2, <3>3, ApplyKeeps, PlainStep
  <2> QED
    BY <2>3, <2>4
<1>2. CASE r = 2
  <2>1. s = Downgrade002[i] /\ i \in 1 .. 18
    BY <1>2, DowngradesMean
  <2>2. Good(s)
    BY <2>1, Downgrade002Means DEF Statements
  <2>3. DbInv(Apply(s, db))
    BY <2>2, ApplyKeeps
  <2>4. CASE i = 2
    <3>1. s = AddColumn("users", "role", "user_role", "analyst")
      BY <2>1, <2>4, Downgrade002Means
    <3>2. Only(db, "platform_role") /\ DownStage(r, i + 1) = "to role"
      BY <1>2, <2>4 DEF DownStage, InStage
    <3>3. "analyst" # AdminValue["role"]
      BY DEF AdminValue
    <3>4. Widened(Apply(s, db), "role") /\ Kept(db, Apply(s, db))
      BY <3>1, <3>2, <3>3, RoleAdded DEF RoleNames
    <3> QED
      BY <2>3, <3>2, <3>4 DEF Reaches, InStage
  <2>5. CASE i = 3
    <3>1. s = UpdateUsers("role", AdminValue["role"],
                          "platform_role", AdminValue["platform_role"])
      BY <2>1, <2>5, Downgrade002Means DEF AdminValue
    <3>2. Widened(db, "role") /\ DownStage(r, i + 1) = "copied"
      BY <1>2, <2>5 DEF DownStage, InStage
    <3>3. Copied(Apply(s, db)) /\ Kept(db, Apply(s, db))
      BY <3>1, <3>2, RoleCopied DEF RoleNames
    <3> QED
      BY <2>3, <3>2, <3>3 DEF Reaches, InStage
  <2>6. CASE i = 4
    <3>1. s = DropColumn("users", "platform_role")
      BY <2>1, <2>6, Downgrade002Means
    <3>2. Copied(db) /\ DownStage(r, i + 1) = "role"
      BY <1>2, <2>6 DEF DownStage, InStage
    <3>3. Only(Apply(s, db), "role") /\ Kept(db, Apply(s, db))
      BY <3>1, <3>2, RoleDropped DEF RoleNames
    <3> QED
      BY <2>3, <3>2, <3>3 DEF Reaches, InStage
  <2>7. CASE i \notin 2 .. 4
    <3>1. i \in 1 .. 1 \/ i \in 5 .. 18
      BY <2>1, <2>7
    <3>2. Plain(s)
      BY <2>1, <3>1, Downgrade002Means DEF PlainFrom
    <3>3. DownStage(r, i + 1) = DownStage(r, i)
      BY <1>2, <2>1, <2>7, StageStays
    <3> QED
      BY <2>2, <2>3, <3>2, <3>3, PlainStep
  <2> QED
    BY <2>1, <2>4, <2>5, <2>6, <2>7
<1>3. CASE r \in 3 .. 8
  <2>1. Good(s) /\ Plain(s)
    BY <1>3, DowngradesMean DEF SteadyScript, Steady, Statements, PlainFrom
  <2>2. DownStage(r, i + 1) = DownStage(r, i)
    BY <1>3, StageValues
  <2> QED
    BY <2>1, <2>2, ApplyKeeps, PlainStep
<1> QED
  BY <1>1, <1>2, <1>3

-----------------------------------------------------------------------------
(* A command: its script, the stage its database is in, and where it is    *)
(* after one more statement.                                               *)
ScriptOf(c) ==
    IF c.target > c.at THEN Upgrades[c.at + 1] ELSE Downgrades[c.at]

StageOf(c) ==
    IF c.at = c.target THEN RevisionStage(c.at)
    ELSE IF c.target > c.at THEN UpStage(c.at + 1, c.next)
    ELSE DownStage(c.at, c.next)

Advanced(c) ==
    IF c.next < Len(ScriptOf(c)) THEN [c EXCEPT !.next = c.next + 1]
    ELSE [c EXCEPT !.next = 1,
                   !.at = IF c.target > c.at THEN c.at + 1 ELSE c.at - 1]

(* The command is at a statement of its script, if it has one to execute.  *)
AtStatement(c) ==
    /\ c \in Commands
    /\ c.at # c.target => c.next \in 1 .. Len(ScriptOf(c))

LEMMA Started ==
    ASSUME NEW c \in Commands, c.next = 1
    PROVE  AtStatement(c) /\ StageOf(c) = RevisionStage(c.at)
<1>1. c.at \in 0 .. 8 /\ c.target \in 0 .. 8
  BY HeadIsEight DEF Commands
<1>2. CASE c.at = c.target
  BY <1>2 DEF AtStatement, StageOf
<1>3. CASE c.target > c.at
  <2>1. c.at + 1 \in 1 .. 8 /\ (c.at + 1) - 1 = c.at
    BY <1>1, <1>3
  <2>2. /\ Len(Upgrades[c.at + 1]) \in Nat \ {0}
        /\ UpStage(c.at + 1, 1) = RevisionStage((c.at + 1) - 1)
    BY <2>1, StagesMeet
  <2>3. ScriptOf(c) = Upgrades[c.at + 1] /\ StageOf(c) = UpStage(c.at + 1, 1)
    BY <1>1, <1>3 DEF ScriptOf, StageOf
  <2> QED
    BY <2>1, <2>2, <2>3 DEF AtStatement
<1>4. CASE c.target < c.at
  <2>1. c.at \in 1 .. 8
    BY <1>1, <1>4
  <2>2. /\ Len(Downgrades[c.at]) \in Nat \ {0}
        /\ DownStage(c.at, 1) = RevisionStage(c.at)
    BY <2>1, StagesMeet
  <2>3. ScriptOf(c) = Downgrades[c.at] /\ StageOf(c) = DownStage(c.at, 1)
    BY <1>1, <1>4 DEF ScriptOf, StageOf
  <2> QED
    BY <2>2, <2>3 DEF AtStatement
<1> QED
  BY <1>1, <1>2, <1>3, <1>4

LEMMA AdvancedFields ==
    ASSUME NEW c, AtStatement(c), c.at # c.target
    PROVE  /\ Advanced(c) \in Commands
           /\ Advanced(c).target = c.target
           /\ c.next < Len(ScriptOf(c)) =>
                 Advanced(c).at = c.at /\ Advanced(c).next = c.next + 1
           /\ c.next = Len(ScriptOf(c)) =>
                 /\ Advanced(c).next = 1
                 /\ Advanced(c).at = IF c.target > c.at THEN c.at + 1
                                                        ELSE c.at - 1
<1>1. /\ c \in [target : 0 .. 8, at : 0 .. 8, next : Nat]
      /\ c.next \in 1 .. Len(ScriptOf(c))
  BY HeadIsEight DEF AtStatement, Commands
<1>2. CASE c.next < Len(ScriptOf(c))
  <2>1. Advanced(c) = [c EXCEPT !.next = c.next + 1]
    BY <1>2 DEF Advanced
  <2> QED
    BY <1>1, <1>2, <2>1, HeadIsEight DEF Commands
<1>3. CASE c.next = Len(ScriptOf(c))
  <2>1. PICK at : at = IF c.target > c.at THEN c.at + 1 ELSE c.at - 1
    OBVIOUS
  <2>2. at \in 0 .. 8
    BY <1>1, <2>1
  <2>3. Advanced(c) = [c EXCEPT !.next = 1, !.at = at]
    BY <1>1, <1>3, <2>1 DEF Advanced
  <2>d. PICK d : d = [c EXCEPT !.next = 1, !.at = at]
    OBVIOUS
  <2>4. d \in [target : 0 .. 8, at : 0 .. 8, next : Nat]
    BY <1>1, <2>2, <2>d
  <2>5. d.target = c.target /\ d.next = 1 /\ d.at = at
    BY <1>1, <2>d
  <2>6. d = Advanced(c) /\ d \in Commands
    BY <2>3, <2>4, <2>d, HeadIsEight DEF Commands
  <2> QED
    BY <1>3, <2>1, <2>5, <2>6
<1>4. Len(ScriptOf(c)) \in Nat
  <2>2. c.target > c.at => c.at + 1 \in 1 .. 8
    BY <1>1
  <2>3. ~(c.target > c.at) => c.at \in 1 .. 8
    BY <1>1
  <2> QED
    BY <2>2, <2>3, StagesMeet DEF ScriptOf
<1> QED
  BY <1>1, <1>2, <1>3, <1>4

(* What one more statement makes of a command's position and stage.        *)
LEMMA AdvancedStage ==
    ASSUME NEW c, AtStatement(c), c.at # c.target
    PROVE  /\ AtStatement(Advanced(c))
           /\ StageOf(Advanced(c)) = IF c.target > c.at
                                     THEN UpStage(c.at + 1, c.next + 1)
                                     ELSE DownStage(c.at, c.next + 1)
           /\ Advanced(c).target > Advanced(c).at =>
                 c.target > c.at /\ c.at <= Advanced(c).at
<1> PICK d : d = Advanced(c)
  OBVIOUS
<1>1. /\ d \in Commands
      /\ d.target = c.target
      /\ c.next < Len(ScriptOf(c)) => d.at = c.at /\ d.next = c.next + 1
      /\ c.next = Len(ScriptOf(c)) =>
            /\ d.next = 1
            /\ d.at = IF c.target > c.at THEN c.at + 1 ELSE c.at - 1
  BY AdvancedFields
<1>2. /\ c.at \in 0 .. 8 /\ c.target \in 0 .. 8 /\ c.next \in Nat
      /\ c.next \in 1 .. Len(ScriptOf(c))
  BY HeadIsEight DEF AtStatement, Commands
<1>3. CASE c.target > c.at
  <2>1. /\ c.at + 1 \in 1 .. 8
        /\ ScriptOf(c) = Upgrades[c.at + 1]
    BY <1>2, <1>3 DEF ScriptOf
  <2>2. /\ Len(ScriptOf(c)) \in Nat
        /\ UpStage(c.at + 1, Len(ScriptOf(c)) + 1) = RevisionStage(c.at + 1)
    BY <2>1, StagesMeet
  <2>3. CASE c.next < Len(ScriptOf(c))
    <3>1. d.at = c.at /\ d.next = c.next + 1 /\ d.target > d.at
      BY <1>1, <1>3, <2>3
    <3>2. ScriptOf(d) = ScriptOf(c)
      BY <1>1, <3>1 DEF ScriptOf
    <3>3. d.next \in 1 .. Len(ScriptOf(d))
      BY <1>2, <2>2, <2>3, <3>1, <3>2
    <3>4. StageOf(d) = UpStage(c.at + 1, c.next + 1)
      BY <1>2, <3>1 DEF StageOf
    <3> QED
      BY <1>1, <1>2, <1>3, <3>1, <3>3, <3>4 DEF AtStatement
  <2>4. CASE c.next = Len(ScriptOf(c))
    <3>1. d.at = c.at + 1 /\ d.next = 1
      BY <1>1, <1>3, <2>4
    <3>2. AtStatement(d) /\ StageOf(d) = RevisionStage(d.at)
      BY <1>1, <3>1, Started
    <3> QED
      BY <1>2, <1>3, <2>2, <2>4, <3>1, <3>2
  <2> QED
    BY <1>2, <2>2, <2>3, <2>4
<1>4. CASE c.target < c.at
  <2>1. c.at \in 1 .. 8 /\ ScriptOf(c) = Downgrades[c.at]
    BY <1>2, <1>4 DEF ScriptOf
  <2>2. /\ Len(ScriptOf(c)) \in Nat
        /\ DownStage(c.at, Len(ScriptOf(c)) + 1) = RevisionStage(c.at - 1)
    BY <2>1, StagesMeet
  <2>3. CASE c.next < Len(ScriptOf(c))
    <3>1. d.at = c.at /\ d.next = c.next + 1 /\ d.target < d.at
      BY <1>1, <1>4, <2>3
    <3>2. ScriptOf(d) = ScriptOf(c)
      BY <1>1, <3>1 DEF ScriptOf
    <3>3. d.next \in 1 .. Len(ScriptOf(d))
      BY <1>2, <2>2, <2>3, <3>1, <3>2
    <3>4. StageOf(d) = DownStage(c.at, c.next + 1)
      BY <1>1, <1>2, <3>1 DEF StageOf
    <3> QED
      BY <1>1, <1>2, <1>4, <3>1, <3>3, <3>4 DEF AtStatement
  <2>4. CASE c.next = Len(ScriptOf(c))
    <3>1. d.at = c.at - 1 /\ d.next = 1
      BY <1>1, <1>2, <1>4, <2>4
    <3>2. AtStatement(d) /\ StageOf(d) = RevisionStage(d.at)
      BY <1>1, <3>1, Started
    <3> QED
      BY <1>1, <1>2, <1>4, <2>2, <2>4, <3>1, <3>2
  <2> QED
    BY <1>2, <2>2, <2>3, <2>4
<1> QED
  BY <1>2, <1>3, <1>4

(* The running command c has made database w of database db, which stands  *)
(* at revision r.                                                          *)
CommandOK(c, r, db, w) ==
    /\ AtStatement(c)
    /\ c.target # r
    /\ c.target > c.at => r <= c.at
    /\ InStage(w, StageOf(c))
    /\ StageOf(c) # "absent" => Kept(db, w)

LEMMA AbsentKept ==
    ASSUME NEW db, NEW d, DbInv(db), DbInv(d), Absent(db), Absent(d)
    PROVE  Kept(db, d)
BY DEF Kept, Admins, DbInv, UsersOK, Absent

LEMMA StageAbsent ==
    /\ \A r \in 1 .. 8, i \in Nat : UpStage(r, i) = "absent" => r = 1
    /\ \A r \in 1 .. 8, i \in Nat :
          DownStage(r, i) = "absent" => DownStage(r, i + 1) = "absent"
<1>1. ASSUME NEW r \in 1 .. 8, NEW i \in Nat, UpStage(r, i) = "absent"
      PROVE  r = 1
  BY <1>1 DEF UpStage
<1>2. ASSUME NEW r \in 1 .. 8, NEW i \in Nat, DownStage(r, i) = "absent"
      PROVE  DownStage(r, i + 1) = "absent"
  <2>1. r = 1 /\ i > 11
    BY <1>2 DEF DownStage
  <2> QED
    BY <2>1 DEF DownStage
<1> QED
  BY <1>1, <1>2

LEMMA ExecuteKeeps ==
    ASSUME NEW c, NEW r \in 0 .. 8, NEW db, NEW w, CommandOK(c, r, db, w),
           DbInv(db), DbInv(w), InStage(db, RevisionStage(r)),
           c.at # c.target, NEW s, s = ScriptOf(c)[c.next], Applies(s, w)
    PROVE  DbInv(Apply(s, w)) /\ CommandOK(Advanced(c), r, db, Apply(s, w))
<1> PICK d : d = Advanced(c)
  OBVIOUS
<1> PICK v : v = Apply(s, w)
  OBVIOUS
<1>1. /\ AtStatement(c) /\ c.target # r /\ (c.target > c.at => r <= c.at)
      /\ InStage(w, StageOf(c)) /\ (StageOf(c) # "absent" => Kept(db, w))
  BY DEF CommandOK
<1>2. /\ c.at \in 0 .. 8 /\ c.target \in 0 .. 8 /\ c.next \in Nat
      /\ c.next \in 1 .. Len(ScriptOf(c))
  BY <1>1, HeadIsEight DEF AtStatement, Commands
<1>3. /\ AtStatement(d)
      /\ StageOf(d) = IF c.target > c.at THEN UpStage(c.at + 1, c.next + 1)
                                         ELSE DownStage(c.at, c.next + 1)
      /\ d.target > d.at => c.target > c.at /\ c.at <= d.at
  BY <1>1, AdvancedStage
<1>4. d.target > d.at => r <= d.at
  <2>1. d.at \in 0 .. 8
    BY <1>3, HeadIsEight DEF AtStatement, Commands
  <2> QED
    BY <1>1, <1>2, <1>3, <2>1
<1>5. DbInv(v) /\ Reaches(w, v, StageOf(d))
  <2>1. CASE c.target > c.at
    <3>1. /\ c.at + 1 \in 1 .. 8 /\ ScriptOf(c) = Upgrades[c.at + 1]
          /\ StageOf(c) = UpStage(c.at + 1, c.next)
          /\ StageOf(d) = UpStage(c.at + 1, c.next + 1)
      BY <1>2, <1>3, <2>1 DEF ScriptOf, StageOf
    <3> QED
      BY <1>1, <1>2, <3>1, UpgradeStep
  <2>2. CASE c.target < c.at
    <3>1. c.at \in 1 .. 8 /\ ~(c.target > c.at)
      BY <1>2, <2>2
    <3>2. /\ ScriptOf(c) = Downgrades[c.at]
          /\ StageOf(c) = DownStage(c.at, c.next)
          /\ StageOf(d) = DownStage(c.at, c.next + 1)
      BY <1>3, <3>1 DEF ScriptOf, StageOf
    <3> QED
      BY <1>1, <1>2, <3>1, <3>2, DowngradeStep
  <2> QED
    BY <1>2, <2>1, <2>2
<1>6. ASSUME StageOf(d) # "absent"
      PROVE  Kept(db, v)
  <2>1. Kept(w, v)
    BY <1>5, <1>6 DEF Reaches
  <2>2. CASE StageOf(c) # "absent"
    BY <1>1, <2>1, <2>2, KeptTransitive
  <2>3. CASE StageOf(c) = "absent"
    <3>1. c.target > c.at
      <4> SUFFICES ASSUME ~(c.target > c.at) PROVE FALSE
        OBVIOUS
      <4>1. /\ c.at \in 1 .. 8 /\ DownStage(c.at, c.next) = "absent"
            /\ StageOf(d) = DownStage(c.at, c.next + 1)
        BY <1>2, <1>3, <2>3 DEF StageOf
      <4> QED
        BY <1>2, <1>6, <4>1, StageAbsent
    <3>2. c.at + 1 \in 1 .. 8 /\ UpStage(c.at + 1, c.next) = "absent"
      BY <1>2, <2>3, <3>1 DEF StageOf
    <3>3. c.at = 0
      BY <1>2, <3>2, StageAbsent
    <3>4. r = 0
      BY <1>1, <3>1, <3>3
    <3>5. Absent(db)
      BY <3>4, StageValues DEF InStage
    <3>6. Absent(w)
      BY <1>1, <2>3 DEF InStage
    <3> QED
      BY <2>1, <3>5, <3>6, AbsentKept, KeptTransitive
  <2> QED
    BY <2>2, <2>3
<1>7. d.target # r
  BY <1>1, <1>2, AdvancedFields
<1> QED
  BY <1>3, <1>4, <1>5, <1>6, <1>7 DEF CommandOK, Reaches

-----------------------------------------------------------------------------
(* What the application does to the rows.                                  *)
Grows(db, d) ==
    DOMAIN db.users \subseteq DOMAIN d.users /\ Admins(db) \subseteq Admins(d)

(* Rows are added or changed, and nothing else; no administrator is lost.  *)
RowsChanged(db, d, users) ==
    /\ DOMAIN d = Parts /\ d.types = db.types /\ d.tables = db.tables
    /\ d.latest = db.latest /\ d.users = users

LEMMA RowsChangedKeeps ==
    ASSUME NEW db, NEW d, NEW users, RowsChanged(db, d, users), DbInv(db),
           "users" \in DOMAIN db.tables, NEW k \in {"role", "platform_role"},
           InStage(db, k),
           \A a \in DOMAIN users : RowFits(Columns(db), users[a])
    PROVE  DbInv(d) /\ InStage(d, k)
<1>1. Shaped(d) /\ TypesOK(d.types) /\ d.latest \in Latest
  BY DEF DbInv, RowsChanged, Shaped
<1>2. ReferencesResolve(d) /\ ColumnTypesExist(d)
  BY DEF DbInv, RowsChanged, ReferencesResolve, ColumnTypesExist
<1>3. Columns(d) = Columns(db)
  BY DEF RowsChanged, Columns
<1>4. UsersOK(d)
  BY <1>3 DEF DbInv, UsersOK, RowsChanged
<1>5. InStage(d, k)
  BY DEF InStage, Only, HasRole, HasColumn, RowsChanged
<1> QED
  BY <1>1, <1>2, <1>4, <1>5 DEF DbInv

LEMMA SignedUp ==
    ASSUME NEW db, DbInv(db), "users" \in DOMAIN db.tables,
           NEW k \in {"role", "platform_role"}, InStage(db, k),
           NEW a, a \notin DOMAIN db.users, NEW row, RowFits(Columns(db), row),
           NEW d, d = [db EXCEPT !.users = With(db.users, a, row)]
    PROVE  DbInv(d) /\ InStage(d, k) /\ Grows(db, d)
<1>u. PICK users : users = With(db.users, a, row)
  OBVIOUS
<1>1. RowsChanged(db, d, users)
  BY <1>u DEF DbInv, Shaped, Parts, RowsChanged
<1>2. /\ DOMAIN users = DOMAIN db.users \union {a}
      /\ users[a] = row
      /\ \A b \in DOMAIN db.users : users[b] = db.users[b]
  BY <1>u DEF With
<1>3. \A b \in DOMAIN users : RowFits(Columns(db), users[b])
  BY <1>2 DEF DbInv, UsersOK
<1>4. DbInv(d) /\ InStage(d, k)
  BY <1>1, <1>3, RowsChangedKeeps
<1>5. \A c : HasRole(d, c) <=> HasRole(db, c)
  BY <1>1 DEF HasRole, HasColumn, RowsChanged
<1>6. Grows(db, d)
  BY <1>1, <1>2, <1>5 DEF Grows, Admins, IsAdmin, RowsChanged
<1> QED
  BY <1>4, <1>6

LEMMA Promoted ==
    ASSUME NEW db, DbInv(db), InStage(db, "platform_role"),
           NEW a \in DOMAIN db.users,
           NEW d, d = [db EXCEPT !.users[a].platform_role = "platform_admin"]
    PROVE  DbInv(d) /\ InStage(d, "platform_role") /\ Grows(db, d)
<1>r. PICK row : row = [db.users[a] EXCEPT !.platform_role = "platform_admin"]
  OBVIOUS
<1>u. PICK users : users = [db.users EXCEPT ![a] = row]
  OBVIOUS
<1>1. /\ "users" \in DOMAIN db.tables
      /\ \A x \in RoleNames : HasRole(db, x) <=> x = "platform_role"
  BY DEF InStage, Only
<1>2. d = [db EXCEPT !.users = users]
  BY <1>r, <1>u
<1>3. RowsChanged(db, d, users)
  BY <1>2 DEF DbInv, Shaped, Parts, RowsChanged
<1>4. /\ DOMAIN users = DOMAIN db.users
      /\ users[a] = row
      /\ \A b \in DOMAIN db.users : b # a => users[b] = db.users[b]
  BY <1>u
<1>5. RowFits(Columns(db), db.users[a])
  BY <1>1 DEF DbInv, UsersOK
<1>6. /\ DOMAIN row = DOMAIN Columns(db)
      /\ row["platform_role"] = "platform_admin"
      /\ \A c \in DOMAIN Columns(db) :
            c # "platform_role" => row[c] = db.users[a][c]
  <2>1. "platform_role" \in DOMAIN Columns(db)
    BY <1>1 DEF RoleNames, HasRole, HasColumn, Columns
  <2> QED
    BY <1>r, <1>5, <2>1 DEF RowFits
<1>7. RowFits(Columns(db), row)
  <2>1. ASSUME NEW c \in DOMAIN Columns(db), Columns(db)[c] \in RoleTypes
        PROVE  row[c] \in RoleValues[Columns(db)[c]]
    <3>1. UserColumn(c, Columns(db)[c])
      BY <1>1, <2>1 DEF DbInv, UsersOK
    <3>2. CASE c = "platform_role"
      <4>1. Columns(db)[c] = "platform_role"
        BY <2>1, <3>1, <3>2 DEF UserColumn, Builtin, RoleTypes
      <4> QED
        BY <1>6, <3>2, <4>1 DEF RoleValues
    <3>3. CASE c # "platform_role"
      BY <1>5, <1>6, <2>1, <3>3 DEF RowFits
    <3> QED
      BY <3>2, <3>3
  <2> QED
    BY <1>6, <2>1 DEF RowFits
<1>8. \A b \in DOMAIN users : RowFits(Columns(db), users[b])
  BY <1>1, <1>4, <1>7 DEF DbInv, UsersOK
<1>9. DbInv(d) /\ InStage(d, "platform_role")
  BY <1>1, <1>3, <1>8, RowsChangedKeeps
<1>10. \A c : HasRole(d, c) <=> HasRole(db, c)
  BY <1>3 DEF HasRole, HasColumn, RowsChanged
<1>11. d.users = users
  BY <1>3 DEF RowsChanged
<1>12. ASSUME NEW b \in Admins(db)
       PROVE  b \in Admins(d)
  <2>1. /\ b \in DOMAIN db.users
        /\ HasRole(db, "platform_role") /\ IsAdmin(db, b, "platform_role")
    BY <1>1 DEF Admins
  <2>2. IsAdmin(d, b, "platform_role")
    BY <1>4, <1>6, <1>11, <2>1 DEF IsAdmin, AdminValue
  <2> QED
    BY <1>4, <1>10, <1>11, <2>1, <2>2 DEF Admins, RoleNames
<1> QED
  BY <1>4, <1>9, <1>11, <1>12 DEF Grows

LEMMA Analysed ==
    ASSUME NEW db, DbInv(db), NEW k, InStage(db, k),
           NEW d, d = [db EXCEPT !.latest = "run"]
    PROVE  DbInv(d) /\ InStage(d, k) /\ Grows(db, d)
<1>1. /\ DOMAIN d = Parts /\ d.types = db.types /\ d.tables = db.tables
      /\ d.users = db.users /\ d.latest = "run"
  BY DEF DbInv, Shaped, Parts
<1>2. Shaped(d) /\ TypesOK(d.types) /\ d.latest \in Latest
  BY <1>1 DEF DbInv, Shaped, Latest
<1>3. ReferencesResolve(d) /\ ColumnTypesExist(d)
  BY <1>1 DEF DbInv, ReferencesResolve, ColumnTypesExist
<1>4. UsersOK(d)
  BY <1>1 DEF DbInv, UsersOK, Columns
<1>5. SameRoles(db, d)
  BY <1>1 DEF SameRoles, HasRole, HasColumn
<1>6. InStage(d, k)
  BY <1>5, SameRolesReaches DEF Reaches
<1>7. Grows(db, d)
  BY <1>1 DEF Grows, Admins, HasRole, HasColumn, IsAdmin
<1> QED
  BY <1>2, <1>3, <1>4, <1>6, <1>7 DEF DbInv

(* A row SignUp makes fits the table.                                      *)
LEMMA NewRowFits ==
    ASSUME DbInv(database), "users" \in DOMAIN database.tables,
           NEW k \in {"role", "platform_role"}, InStage(database, k),
           NEW name, NEW role \in NewRoles
    PROVE  RowFits(Columns(database), Row(name, role))
<1>c. PICK columns : columns = Columns(database)
  OBVIOUS
<1>r. PICK row : row = Row(name, role)
  OBVIOUS
<1>1. /\ DOMAIN row = DOMAIN columns
      /\ \A c \in DOMAIN columns : c \in RoleNames => row[c] = role
  BY <1>c, <1>r DEF Row, Columns, RoleNames
<1>2. \A c \in DOMAIN columns : UserColumn(c, columns[c])
  BY <1>c DEF DbInv, UsersOK
<1>3. \A c \in RoleNames : c \in DOMAIN columns => c = k
  BY <1>c DEF InStage, Only, HasRole, HasColumn, Columns, RoleNames
<1>4. ASSUME NEW c \in DOMAIN columns, columns[c] \in RoleTypes
      PROVE  row[c] \in RoleValues[columns[c]]
  <2>1. /\ c \in RoleNames
        /\ c = "role" => columns[c] = "user_role"
        /\ c = "platform_role" => columns[c] = "platform_role"
    BY <1>2, <1>4 DEF UserColumn, Builtin, RoleTypes, RoleNames
  <2>2. c = k /\ row[c] = role
    BY <1>1, <1>3, <2>1
  <2>3. CASE k = "role"
    <3>1. HasColumn(database, "users", "role")
      BY <2>3 DEF InStage, Only, HasRole, RoleNames
    <3>2. role \in database.types["user_role"]
      BY <1>c, <2>1, <2>2, <2>3, <3>1 DEF NewRoles, Columns
    <3>3. "user_role" \in DOMAIN database.types
      BY <1>c, <2>1, <2>2, <2>3 DEF DbInv, ColumnTypesExist, Columns, Builtin
    <3>4. database.types["user_role"] = RoleValues["user_role"]
      BY <3>3 DEF DbInv, TypesOK, RoleTypes
    <3> QED
      BY <2>1, <2>2, <2>3, <3>2, <3>4
  <2>4. CASE k = "platform_role"
    <3>1. ~HasColumn(database, "users", "role")
      BY <2>4 DEF InStage, Only, HasRole, RoleNames
    <3>2. role = "none"
      BY <3>1 DEF NewRoles
    <3> QED
      BY <2>1, <2>2, <2>4, <3>2 DEF RoleValues
  <2> QED
    BY <2>3, <2>4
<1> QED
  BY <1>1, <1>4, <1>c, <1>r DEF RowFits

-----------------------------------------------------------------------------
(* The inductive invariant.                                                *)
IInv ==
    /\ DbInv(database) /\ DbInv(working)
    /\ revision \in 0 .. 8
    /\ InStage(database, RevisionStage(revision))
    /\ command = Null => working = database
    /\ command # Null => CommandOK(command, revision, database, working)

LEMMA EmptyDbInv == DbInv(EmptyDatabase) /\ InStage(EmptyDatabase, "absent")
<1>e. PICK db : db = EmptyDatabase
  OBVIOUS
<1>1. /\ DOMAIN db = Parts
      /\ DOMAIN db.types = {} /\ DOMAIN db.tables = {} /\ DOMAIN db.users = {}
      /\ db.latest = "none"
  BY <1>e DEF EmptyDatabase, Parts
<1>2. Shaped(db) /\ TypesOK(db.types) /\ db.latest \in Latest
  BY <1>1 DEF Shaped, TypesOK, Latest
<1>3. ReferencesResolve(db) /\ ColumnTypesExist(db) /\ UsersOK(db)
  BY <1>1 DEF ReferencesResolve, ColumnTypesExist, UsersOK
<1>4. InStage(db, "absent")
  BY <1>1 DEF InStage, Absent
<1> QED
  BY <1>2, <1>3, <1>4, <1>e DEF DbInv

LEMMA InitIInv == Init => IInv
<1> SUFFICES ASSUME Init PROVE IInv
  OBVIOUS
<1>1. RevisionStage(revision) = "absent" /\ revision \in 0 .. 8
  BY StageValues DEF Init
<1> QED
  BY <1>1, EmptyDbInv DEF Init, IInv

LEMMA IInvTypeOK == IInv => TypeOK
<1> SUFFICES ASSUME IInv PROVE TypeOK
  OBVIOUS
<1>1. Consistent(database) /\ Consistent(working)
  BY DbInvConsistent DEF IInv
<1>2. ASSUME command # Null
      PROVE  /\ command.at \in 0 .. HeadRevision
             /\ Running => command.next \in 1 .. Len(Script)
  <2>1. AtStatement(command)
    BY <1>2 DEF IInv, CommandOK
  <2>2. Script = ScriptOf(command)
    BY DEF Script, ScriptOf, Upgrading
  <2> QED
    BY <2>1, <2>2 DEF AtStatement, Commands, Running
<1> QED
  BY <1>1, <1>2, HeadIsEight DEF TypeOK, IInv

LEMMA BeginStep ==
    ASSUME IInv, NEW t \in Targets, Begin(t)
    PROVE  IInv'
<1>c. PICK c : c = [target |-> t, at |-> revision, next |-> 1]
  OBVIOUS
<1>1. /\ c \in Commands /\ c.at = revision /\ c.next = 1
      /\ c.target # revision
  BY <1>c, TargetsAreRevisions, HeadIsEight DEF Begin, IInv, Commands
<1>2. AtStatement(c) /\ StageOf(c) = RevisionStage(revision)
  BY <1>1, Started
<1>3. working = database /\ command' = c
      /\ UNCHANGED <<revision, database, working>>
  BY <1>c DEF Begin, IInv
<1>4. CommandOK(c, revision, database, working)
  BY <1>1, <1>2, <1>3, KeptReflexive DEF CommandOK, IInv
<1>5. c # Null
  BY <1>1, NullIsNoCommand
<1> QED
  BY <1>3, <1>4, <1>5 DEF IInv

LEMMA ExecuteStep ==
    ASSUME IInv, Execute
    PROVE  IInv'
<1>s. PICK s : s = Statement
  OBVIOUS
<1>1. /\ command # Null /\ command.at # command.target
      /\ Applies(s, working) /\ working' = Apply(s, working)
      /\ UNCHANGED <<revision, database>>
  BY <1>s DEF Execute, Running
<1>2. s = ScriptOf(command)[command.next]
  BY <1>s DEF Statement, Script, ScriptOf, Upgrading
<1>3. command' = Advanced(command)
  BY DEF Execute, Advanced, Script, ScriptOf, Upgrading
<1>4. /\ DbInv(Apply(s, working))
      /\ CommandOK(Advanced(command), revision, database, Apply(s, working))
  BY <1>1, <1>2, ExecuteKeeps DEF IInv
<1>5. Advanced(command) # Null
  BY <1>4, NullIsNoCommand DEF CommandOK, AtStatement
<1> QED
  BY <1>1, <1>3, <1>4, <1>5 DEF IInv

LEMMA CommitStep ==
    ASSUME IInv, Commit
    PROVE  /\ IInv'
           /\ revision' # revision
           /\ revision' # 0 => Kept(database, database')
<1>1. /\ command # Null /\ command.at = command.target
      /\ revision' = command.target /\ database' = working
      /\ command' = Null /\ working' = working
  BY DEF Commit
<1>2. /\ AtStatement(command) /\ command.target # revision
      /\ InStage(working, StageOf(command))
      /\ StageOf(command) # "absent" => Kept(database, working)
  BY <1>1 DEF IInv, CommandOK
<1>3. command.target \in 0 .. 8
  BY <1>2, HeadIsEight DEF AtStatement, Commands
<1>4. StageOf(command) = RevisionStage(revision')
  BY <1>1 DEF StageOf
<1>5. IInv'
  BY <1>1, <1>2, <1>3, <1>4 DEF IInv
<1>6. revision' # 0 => RevisionStage(revision') # "absent"
  BY <1>1, <1>3 DEF RevisionStage
<1> QED
  BY <1>1, <1>2, <1>4, <1>5, <1>6

(* At a revision with accounts, users is at one of its two stages.         *)
LEMMA AtRevision ==
    ASSUME IInv, revision # 0
    PROVE  /\ RevisionStage(revision) \in {"role", "platform_role"}
           /\ "users" \in DOMAIN database.tables
           /\ revision = HeadRevision => RevisionStage(revision) = "platform_role"
<1>1. /\ RevisionStage(revision) \in {"role", "platform_role"}
      /\ revision = 8 => RevisionStage(revision) = "platform_role"
  BY DEF IInv, RevisionStage
<1>2. "users" \in DOMAIN database.tables
  BY <1>1 DEF IInv, InStage, Only
<1> QED
  BY <1>1, <1>2, HeadIsEight

LEMMA StoredStep ==
    ASSUME IInv, command = Null, UNCHANGED <<revision, command>>,
           NEW d, Stored(d), DbInv(d), InStage(d, RevisionStage(revision))
    PROVE  IInv'
BY DEF IInv, Stored

LEMMA SignUpStep ==
    ASSUME IInv, NEW a, SignUp(a)
    PROVE  IInv' /\ Grows(database, database')
<1>1. /\ command = Null /\ revision # 0 /\ a \notin DOMAIN database.users
      /\ UNCHANGED <<revision, command>>
  BY DEF SignUp
<1>2. PICK name \in Names, role \in NewRoles :
          Stored([database EXCEPT !.users =
                     With(database.users, a, Row(name, role))])
  BY DEF SignUp
<1>k. PICK k : k = RevisionStage(revision)
  OBVIOUS
<1>3. /\ k \in {"role", "platform_role"} /\ "users" \in DOMAIN database.tables
      /\ DbInv(database) /\ InStage(database, k)
  BY <1>1, <1>k, AtRevision DEF IInv
<1>r. PICK row : row = Row(name, role)
  OBVIOUS
<1>4. RowFits(Columns(database), row)
  BY <1>3, <1>r, NewRowFits
<1>d. PICK d : d = [database EXCEPT !.users = With(database.users, a, row)]
  OBVIOUS
<1>5. DbInv(d) /\ InStage(d, k) /\ Grows(database, d)
  BY <1>1, <1>3, <1>4, <1>d, SignedUp
<1>6. Stored(d)
  BY <1>2, <1>r, <1>d
<1>7. IInv'
  BY <1>1, <1>5, <1>6, <1>k, StoredStep
<1> QED
  BY <1>5, <1>6, <1>7 DEF Stored

LEMMA PromoteStep ==
    ASSUME IInv, NEW a, Promote(a)
    PROVE  IInv' /\ Grows(database, database')
<1>d. PICK d : d = [database EXCEPT !.users[a].platform_role = "platform_admin"]
  OBVIOUS
<1>1. /\ command = Null /\ revision = HeadRevision /\ a \in DOMAIN database.users
      /\ UNCHANGED <<revision, command>> /\ Stored(d)
  BY <1>d DEF Promote
<1>2. /\ RevisionStage(revision) = "platform_role"
      /\ DbInv(database) /\ InStage(database, "platform_role")
  BY <1>1, AtRevision, HeadIsEight DEF IInv
<1>3. DbInv(d) /\ InStage(d, "platform_role") /\ Grows(database, d)
  BY <1>1, <1>2, <1>d, Promoted
<1>4. IInv'
  BY <1>1, <1>2, <1>3, StoredStep
<1> QED
  BY <1>1, <1>3, <1>4 DEF Stored

LEMMA StartAnalysisStep ==
    ASSUME IInv, StartAnalysis
    PROVE  IInv' /\ Grows(database, database')
<1>d. PICK d : d = [database EXCEPT !.latest = "run"]
  OBVIOUS
<1>1. command = Null /\ UNCHANGED <<revision, command>> /\ Stored(d)
  BY <1>d DEF StartAnalysis
<1>2. DbInv(database) /\ InStage(database, RevisionStage(revision))
  BY DEF IInv
<1>3. /\ DbInv(d) /\ InStage(d, RevisionStage(revision))
      /\ Grows(database, d)
  BY <1>2, <1>d, Analysed
<1>4. IInv'
  BY <1>1, <1>3, StoredStep
<1> QED
  BY <1>1, <1>3, <1>4 DEF Stored

(* The accounts of one database and its administrators are those of, or    *)
(* among those of, the other.                                              *)
AccountsStep ==
    /\ revision' \notin {0, revision} =>
          /\ DOMAIN database'.users = DOMAIN database.users
          /\ AdminsIn(database') = AdminsIn(database)
    /\ revision' = revision =>
          /\ DOMAIN database.users \subseteq DOMAIN database'.users
          /\ AdminsIn(database) \subseteq AdminsIn(database')

LEMMA NextStep ==
    ASSUME IInv, [Next]_vars
    PROVE  /\ IInv'
           /\ \/ revision' = revision /\ Grows(database, database')
              \/ /\ revision' # revision
                 /\ revision' # 0 => Kept(database, database')
<1>1. ASSUME UNCHANGED database
      PROVE  Grows(database, database')
  BY <1>1 DEF Grows
<1>2. CASE UNCHANGED vars
  BY <1>1, <1>2 DEF vars, IInv
<1>3. ASSUME NEW t \in Targets, Begin(t)
      PROVE  IInv' /\ revision' = revision /\ Grows(database, database')
  BY <1>1, <1>3, BeginStep DEF Begin
<1>4. CASE Execute
  BY <1>1, <1>4, ExecuteStep DEF Execute
<1>5. CASE Commit
  BY <1>5, CommitStep
<1>6. CASE Rollback
  <2>1. /\ working' = database /\ command' = Null
        /\ UNCHANGED <<revision, database>>
    BY <1>6 DEF Rollback
  <2>2. IInv'
    BY <2>1 DEF IInv
  <2> QED
    BY <1>1, <2>1, <2>2
<1>7. ASSUME NEW a \in Accounts, SignUp(a)
      PROVE  IInv' /\ revision' = revision /\ Grows(database, database')
  BY <1>7, SignUpStep DEF SignUp
<1>8. ASSUME NEW a \in Accounts, Promote(a)
      PROVE  IInv' /\ revision' = revision /\ Grows(database, database')
  BY <1>8, PromoteStep DEF Promote
<1>9. CASE StartAnalysis
  BY <1>9, StartAnalysisStep DEF StartAnalysis
<1> QED
  BY <1>2, <1>3, <1>4, <1>5, <1>6, <1>7, <1>8, <1>9 DEF Next

LEMMA Invariant == Spec => []IInv
<1>1. IInv /\ [Next]_vars => IInv'
  BY NextStep
<1> QED
  BY <1>1, InitIInv, PTL DEF Spec

(* The tables' references resolve, and every stored role is a value of its *)
(* column's enum type, after every statement of every upgrade and          *)
(* downgrade, for every set of accounts and of targets; and a command is   *)
(* always at a statement of its script.                                    *)
THEOREM TypeCorrect == Spec => []TypeOK
<1> QED
  BY Invariant, IInvTypeOK, PTL

(* A committed command that does not go back to the empty database leaves  *)
(* every account there and the same ones administrators, through the       *)
(* change of users.role to platform_role (002) and back; an interrupted    *)
(* one, and the application between commands, lose none.                   *)
THEOREM AccountsOutliveCommands == Spec => [][AccountsStep]_vars
<1>1. ASSUME IInv, [Next]_vars
      PROVE  AccountsStep
  <2>1. /\ IInv'
        /\ \/ revision' = revision /\ Grows(database, database')
           \/ /\ revision' # revision
              /\ revision' # 0 => Kept(database, database')
    BY <1>1, NextStep
  <2>2. AdminsIn(database) = Admins(database)
    BY <1>1, AdminsAreAdmins DEF IInv
  <2>3. AdminsIn(database') = Admins(database')
    <3> PICK d : d = database'
      OBVIOUS
    <3>1. DbInv(d)
      BY <2>1 DEF IInv
    <3>2. AdminsIn(d) = Admins(d)
      BY <3>1, AdminsAreAdmins
    <3> QED
      BY <3>2
  <2>4. CASE revision' = revision /\ Grows(database, database')
    BY <2>2, <2>3, <2>4 DEF AccountsStep, Grows
  <2>5. CASE /\ revision' # revision
             /\ revision' # 0 => Kept(database, database')
    BY <2>2, <2>3, <2>5 DEF AccountsStep, Kept
  <2> QED
    BY <2>1, <2>4, <2>5
<1>2. IInv /\ [Next]_vars => [AccountsStep]_vars
  BY <1>1
<1> QED
  BY <1>2, Invariant, PTL DEF Spec
=============================================================================
