------------------------- MODULE MigrationsChain_proofs -------------------------
(***************************************************************************)
(* The schema of a database that commands have moved along the chain, for  *)
(* every set of accounts and of targets.  What the statements of a script  *)
(* make of the database of its revision is a fact about constants, stated  *)
(* as ScriptsFit and computed by TLC; from it follows, here, what every    *)
(* sequence of commands, interrupted anywhere, makes of any data.          *)
(***************************************************************************)
EXTENDS Migrations_proofs

-----------------------------------------------------------------------------
(* Two databases that differ in their rows only.                           *)
SameSchema(db, e) ==
    /\ DOMAIN db = Parts /\ DOMAIN e = Parts
    /\ db.types = e.types /\ db.tables = e.tables /\ db.sequences = e.sequences

LEMMA SameSchemaTransitive ==
    ASSUME NEW db, NEW e, NEW f, SameSchema(db, e), SameSchema(e, f)
    PROVE  SameSchema(db, f)
BY DEF SameSchema

LEMMA SameSchemaMeans ==
    ASSUME NEW db, NEW e, DOMAIN db = Parts, DOMAIN e = Parts
    PROVE  SameSchema(db, e) <=> SchemaPart(db) = SchemaPart(e)
BY DEF SameSchema, SchemaPart

(* Whether a statement names things that exist depends on the schema only. *)
LEMMA WellFormedBySchema ==
    ASSUME NEW db, NEW e, NEW s, SameSchema(db, e), s.kind \in Kinds
    PROVE  WellFormed(s, db) <=> WellFormed(s, e)
<1>1. db.types = e.types /\ db.tables = e.tables
  BY DEF SameSchema
<1>2. /\ \A n : TypeInUse(db, n) <=> TypeInUse(e, n)
      /\ \A t, table : Resolves(db, t, table) <=> Resolves(e, t, table)
      /\ \A t : Dependents(db, t) = Dependents(e, t)
      /\ \A t, c : HasColumn(db, t, c) <=> HasColumn(e, t, c)
  BY <1>1 DEF TypeInUse, Resolves, Dependents, HasColumn
<1> QED
  BY <1>1, <1>2 DEF WellFormed, Kinds

(* So does the schema it makes of it.                                      *)
TypeKinds == {"create type", "drop type", "create sequence", "drop sequence"}
TableKinds ==
    {"create table", "add reference", "drop reference",
     "create index", "create index if not exists",
     "drop index", "drop index if exists"}
ColumnKinds == {"add column", "drop column", "rename column", "alter column"}

Alike(s, db, e) == SameSchema(Apply(s, db), Apply(s, e))

LEMMA TypesAndSequencesBySchema ==
    ASSUME NEW db, NEW e, NEW s, SameSchema(db, e),
           s.kind \in TypeKinds
    PROVE  Alike(s, db, e)
<1>1. /\ DOMAIN db = Parts /\ DOMAIN e = Parts /\ db.types = e.types
      /\ db.tables = e.tables /\ db.sequences = e.sequences
  BY DEF SameSchema
<1>2. CASE s.kind = "create type"
  <2>1. CASE s.name \in DOMAIN db.types
    <3>1. Apply(s, db) = db /\ Apply(s, e) = e
      BY <1>1, <1>2, <2>1 DEF Apply
    <3> QED
      BY <3>1 DEF Alike
  <2>2. CASE s.name \notin DOMAIN db.types
    <3>1. PICK types : types = With(db.types, s.name, s.values)
      OBVIOUS
    <3>2. /\ Apply(s, db) = [db EXCEPT !.types = types]
          /\ Apply(s, e) = [e EXCEPT !.types = types]
      BY <1>1, <1>2, <2>2, <3>1 DEF Apply
    <3> QED
      BY <1>1, <3>2 DEF SameSchema, Parts, Alike
  <2> QED
    BY <2>1, <2>2
<1>3. CASE s.kind = "drop type"
  <2>1. PICK types : types = Without(db.types, s.name)
    OBVIOUS
  <2>2. /\ Apply(s, db) = [db EXCEPT !.types = types]
        /\ Apply(s, e) = [e EXCEPT !.types = types]
    BY <1>1, <1>3, <2>1 DEF Apply
  <2> QED
    BY <1>1, <2>2 DEF SameSchema, Parts, Alike
<1>4. CASE s.kind \in {"create sequence", "drop sequence"}
  <2>1. PICK sequences : /\ Apply(s, db) = [db EXCEPT !.sequences = sequences]
                         /\ Apply(s, e) = [e EXCEPT !.sequences = sequences]
    BY <1>1, <1>4 DEF Apply
  <2> QED
    BY <1>1, <2>1 DEF SameSchema, Parts, Alike
<1> QED
  BY <1>2, <1>3, <1>4 DEF TypeKinds

(* Databases given the same tables.                                        *)
LEMMA SameTablesGiven ==
    ASSUME NEW db, NEW e, SameSchema(db, e), NEW d, NEW f, NEW tables,
           d = [db EXCEPT !.tables = tables], f = [e EXCEPT !.tables = tables]
    PROVE  SameSchema(d, f)
BY DEF SameSchema, Parts

LEMMA TablesBySchema ==
    ASSUME NEW db, NEW e, NEW s, SameSchema(db, e),
           s.kind \in TableKinds
    PROVE  Alike(s, db, e)
<1>1. /\ DOMAIN db = Parts /\ DOMAIN e = Parts /\ db.tables = e.tables
  BY DEF SameSchema
<1>2. PICK t : t = db.tables
  OBVIOUS
<1>3. PICK tables : /\ Apply(s, db) = [db EXCEPT !.tables = tables]
                    /\ Apply(s, e) = [e EXCEPT !.tables = tables]
  <2>1. CASE s.kind = "create table"
    <3>1. /\ Apply(s, db) = [db EXCEPT !.tables = With(t, s.table, s.as)]
          /\ Apply(s, e) = [e EXCEPT !.tables = With(t, s.table, s.as)]
      BY <1>1, <1>2, <2>1 DEF Apply
    <3> QED
      BY <3>1
  <2>2. CASE s.kind = "add reference"
    <3>1. PICK refs : refs = With(t[s.table].refs, s.column, s.ref)
      OBVIOUS
    <3>2. /\ Apply(s, db) = [db EXCEPT !.tables[s.table].refs = refs]
          /\ Apply(s, e) = [e EXCEPT !.tables[s.table].refs = refs]
      BY <1>1, <1>2, <2>2, <3>1 DEF Apply
    <3> QED
      BY <1>1, <1>2, <3>2 DEF Parts
  <2>3. CASE s.kind = "drop reference"
    <3>1. PICK refs : refs = Without(t[s.table].refs, s.column)
      OBVIOUS
    <3>2. /\ Apply(s, db) = [db EXCEPT !.tables[s.table].refs = refs]
          /\ Apply(s, e) = [e EXCEPT !.tables[s.table].refs = refs]
      BY <1>1, <1>2, <2>3, <3>1 DEF Apply
    <3> QED
      BY <1>1, <1>2, <3>2 DEF Parts
  <2>4. CASE s.kind \in {"create index", "create index if not exists"}
    <3>1. /\ Apply(s, db) = [db EXCEPT !.tables[s.table].indexes =
                                t[s.table].indexes \union {s.index}]
          /\ Apply(s, e) = [e EXCEPT !.tables[s.table].indexes =
                                t[s.table].indexes \union {s.index}]
      BY <1>1, <1>2, <2>4 DEF Apply
    <3> QED
      BY <1>1, <1>2, <3>1 DEF Parts
  <2>5. CASE s.kind \in {"drop index", "drop index if exists"}
    <3>1. /\ Apply(s, db) = [db EXCEPT !.tables[s.table].indexes =
                                t[s.table].indexes \ {s.index}]
          /\ Apply(s, e) = [e EXCEPT !.tables[s.table].indexes =
                                t[s.table].indexes \ {s.index}]
      BY <1>1, <1>2, <2>5 DEF Apply
    <3> QED
      BY <1>1, <1>2, <3>1 DEF Parts
  <2> QED
    BY <2>1, <2>2, <2>3, <2>4, <2>5 DEF TableKinds
<1> QED
  BY <1>3, SameTablesGiven DEF Alike

LEMMA TableDroppedBySchema ==
    ASSUME NEW db, NEW e, SameSchema(db, e), NEW t
    PROVE  SameSchema(TableDropped(db, t), TableDropped(e, t))
<1>1. PICK tables : tables = Without(db.tables, t)
  OBVIOUS
<1>2. PICK users, latest :
          TableDropped(db, t) = [db EXCEPT !.tables = tables, !.users = users,
                                           !.latest = latest]
  BY <1>1 DEF TableDropped
<1>3. PICK users2, latest2 :
          TableDropped(e, t) = [e EXCEPT !.tables = tables, !.users = users2,
                                         !.latest = latest2]
  BY <1>1 DEF TableDropped, SameSchema
<1> QED
  BY <1>2, <1>3 DEF SameSchema, Parts

LEMMA ReferencesDroppedBySchema ==
    ASSUME NEW db, NEW e, SameSchema(db, e), NEW t
    PROVE  SameSchema(ReferencesDropped(db, t), ReferencesDropped(e, t))
<1>1. PICK tables :
          /\ ReferencesDropped(db, t) = [db EXCEPT !.tables = tables]
          /\ ReferencesDropped(e, t) = [e EXCEPT !.tables = tables]
  BY DEF ReferencesDropped, SameSchema
<1> QED
  BY <1>1, SameTablesGiven

(* Whatever the rows become.                                               *)
WithRows(db, users) == [db EXCEPT !.users = users]

LEMMA ColumnsSetBySchema ==
    ASSUME NEW db, NEW e, SameSchema(db, e), NEW t, NEW columns
    PROVE  /\ SameSchema(ColumnsSet(db, t, columns), ColumnsSet(e, t, columns))
           /\ \A u, v : SameSchema(WithRows(ColumnsSet(db, t, columns), u),
                                   WithRows(ColumnsSet(e, t, columns), v))
<1>1. PICK tables :
          /\ ColumnsSet(db, t, columns) = [db EXCEPT !.tables = tables]
          /\ ColumnsSet(e, t, columns) = [e EXCEPT !.tables = tables]
  <2>1. PICK table : table = [db.tables[t] EXCEPT !.columns = columns]
    OBVIOUS
  <2>2. /\ ColumnsSet(db, t, columns) = [db EXCEPT !.tables[t] = table]
        /\ ColumnsSet(e, t, columns) = [e EXCEPT !.tables[t] = table]
    BY <2>1 DEF ColumnsSet, SameSchema
  <2> QED
    BY <2>2 DEF SameSchema, Parts
<1>2. SameSchema(ColumnsSet(db, t, columns), ColumnsSet(e, t, columns))
  BY <1>1, SameTablesGiven
<1>3. ASSUME NEW d, NEW f, NEW u, NEW v, SameSchema(d, f)
      PROVE  SameSchema(WithRows(d, u), WithRows(f, v))
  BY <1>3 DEF SameSchema, Parts, WithRows
<1> QED
  BY <1>2, <1>3

LEMMA ColumnsBySchema ==
    ASSUME NEW db, NEW e, NEW s, SameSchema(db, e),
           s.kind \in ColumnKinds
    PROVE  Alike(s, db, e)
<1>1. PICK old : /\ old = db.tables[s.table].columns
                 /\ old = e.tables[s.table].columns
  BY DEF SameSchema
<1>2. CASE s.kind = "add column"
  <2>1. PICK columns : columns = With(old, s.column, s.type)
    OBVIOUS
  <2>2. PICK u : Apply(s, db) = WithRows(ColumnsSet(db, s.table, columns), u)
    BY <1>1, <1>2, <2>1 DEF Apply, ColumnAdded, WithRows
  <2>3. PICK v : Apply(s, e) = WithRows(ColumnsSet(e, s.table, columns), v)
    BY <1>1, <1>2, <2>1 DEF Apply, ColumnAdded, WithRows
  <2> QED
    BY <2>2, <2>3, ColumnsSetBySchema DEF Alike
<1>3. CASE s.kind = "drop column"
  <2>1. PICK columns : columns = Without(old, s.column)
    OBVIOUS
  <2>2. PICK u : Apply(s, db) = WithRows(ColumnsSet(db, s.table, columns), u)
    BY <1>1, <1>3, <2>1 DEF Apply, ColumnDropped, WithRows
  <2>3. PICK v : Apply(s, e) = WithRows(ColumnsSet(e, s.table, columns), v)
    BY <1>1, <1>3, <2>1 DEF Apply, ColumnDropped, WithRows
  <2> QED
    BY <2>2, <2>3, ColumnsSetBySchema DEF Alike
<1>4. CASE s.kind = "rename column"
  <2>1. PICK columns : columns = Renamed(old, s.column, s.new)
    OBVIOUS
  <2>2. PICK u : Apply(s, db) = WithRows(ColumnsSet(db, s.table, columns), u)
    BY <1>1, <1>4, <2>1 DEF Apply, ColumnRenamed, WithRows
  <2>3. PICK v : Apply(s, e) = WithRows(ColumnsSet(e, s.table, columns), v)
    BY <1>1, <1>4, <2>1 DEF Apply, ColumnRenamed, WithRows
  <2> QED
    BY <2>2, <2>3, ColumnsSetBySchema DEF Alike
<1>5. CASE s.kind = "alter column"
  <2>1. PICK columns : columns = [old EXCEPT ![s.column] = s.type]
    OBVIOUS
  <2>2. /\ Apply(s, db) = ColumnsSet(db, s.table, columns)
        /\ Apply(s, e) = ColumnsSet(e, s.table, columns)
    BY <1>1, <1>5, <2>1 DEF Apply
  <2> QED
    BY <2>2, ColumnsSetBySchema DEF Alike
<1> QED
  BY <1>2, <1>3, <1>4, <1>5 DEF ColumnKinds

LEMMA ApplyBySchema ==
    ASSUME NEW db, NEW e, NEW s, SameSchema(db, e), s.kind \in Kinds
    PROVE  Alike(s, db, e)
<1>1. CASE s.kind = "drop table"
  <2>1. /\ Apply(s, db) = TableDropped(db, s.table)
        /\ Apply(s, e) = TableDropped(e, s.table)
    BY <1>1 DEF Apply
  <2> QED
    BY <2>1, TableDroppedBySchema DEF Alike
<1>2. CASE s.kind = "drop table if exists"
  <2>1. /\ Apply(s, db) = TableDropped(ReferencesDropped(db, s.table), s.table)
        /\ Apply(s, e) = TableDropped(ReferencesDropped(e, s.table), s.table)
    BY <1>2 DEF Apply
  <2> QED
    BY <2>1, ReferencesDroppedBySchema, TableDroppedBySchema DEF Alike
<1>3. CASE s.kind = "update users"
  <2>1. PICK u : Apply(s, db) = [db EXCEPT !.users = u]
    BY <1>3 DEF Apply, UsersUpdated
  <2>2. PICK v : Apply(s, e) = [e EXCEPT !.users = v]
    BY <1>3 DEF Apply, UsersUpdated
  <2> QED
    BY <2>1, <2>2 DEF SameSchema, Parts, Alike
<1>4. CASE s.kind \in TypeKinds
  BY <1>4, TypesAndSequencesBySchema
<1>5. CASE s.kind \in TableKinds
  BY <1>5, TablesBySchema
<1>6. CASE s.kind \in ColumnKinds
  BY <1>6, ColumnsBySchema
<1> QED
  BY <1>1, <1>2, <1>3, <1>4, <1>5, <1>6
  DEF Kinds, TypeKinds, TableKinds, ColumnKinds

-----------------------------------------------------------------------------
(* What ScriptsFit says of the script of a command, and of the database    *)
(* the scripts alone give at the command's position.                       *)
NextRevision(c) == IF c.target > c.at THEN c.at + 1 ELSE c.at - 1

Walk(c) == Path(ScriptOf(c), Upgraded[c.at])

Position(c) ==
    IF c.at = c.target THEN Upgraded[c.at] ELSE Walk(c)[c.next - 1]

LEMMA UpgradeKinds ==
    \A r \in 1 .. 8 : /\ Len(Upgrades[r]) \in Nat \ {0}
                      /\ \A n \in 1 .. Len(Upgrades[r]) :
                            Upgrades[r][n].kind \in Kinds
<1>1. ASSUME NEW r \in 1 .. 8, NEW n \in 1 .. Len(Upgrades[r])
      PROVE  Upgrades[r][n].kind \in Kinds
  <2>1. Good(Upgrades[r][n])
    <3>1. CASE r = 1
      <4>1. Upgrades[r] = Upgrade001 /\ Len(Upgrade001) = 16
        BY <3>1, UpgradesMean
      <4> QED
        BY <4>1, Upgrade001Means DEF Statements
    <3>2. CASE r = 2
      <4>1. Upgrades[r] = Upgrade002 /\ Len(Upgrade002) = 18
        BY <3>2, UpgradesMean
      <4> QED
        BY <4>1, Upgrade002Means DEF Statements
    <3>3. CASE r \in 3 .. 8
      BY <3>3, UpgradesMean DEF SteadyScript, Steady, Statements
    <3> QED
      BY <3>1, <3>2, <3>3
  <2> QED
    BY <2>1 DEF Good
<1> QED
  BY <1>1, StagesMeet

LEMMA DowngradeKinds ==
    \A r \in 1 .. 8 : /\ Len(Downgrades[r]) \in Nat \ {0}
                      /\ \A n \in 1 .. Len(Downgrades[r]) :
                            Downgrades[r][n].kind \in Kinds
<1>1. ASSUME NEW r \in 1 .. 8, NEW n \in 1 .. Len(Downgrades[r])
      PROVE  Downgrades[r][n].kind \in Kinds
  <2>1. Good(Downgrades[r][n])
    <3>1. CASE r = 1
      <4>1. Downgrades[r] = Downgrade001 /\ Len(Downgrade001) = 16
        BY <3>1, DowngradesMean
      <4> QED
        BY <4>1, Downgrade001Means DEF Statements
    <3>2. CASE r = 2
      <4>1. Downgrades[r] = Downgrade002 /\ Len(Downgrade002) = 18
        BY <3>2, DowngradesMean
      <4> QED
        BY <4>1, Downgrade002Means DEF Statements
    <3>3. CASE r \in 3 .. 8
      BY <3>3, DowngradesMean DEF SteadyScript, Steady, Statements
    <3> QED
      BY <3>1, <3>2, <3>3
  <2> QED
    BY <2>1 DEF Good
<1> QED
  BY <1>1, StagesMeet

LEMMA ScriptFits ==
    ASSUME ScriptsFit, NEW c \in Commands, c.at # c.target
    PROVE  /\ Fits(ScriptOf(c), Upgraded[c.at], Upgraded[NextRevision(c)])
           /\ DOMAIN Upgraded[c.at] = Parts
           /\ DOMAIN Upgraded[NextRevision(c)] = Parts
           /\ \A n \in 1 .. Len(ScriptOf(c)) : ScriptOf(c)[n].kind \in Kinds
           /\ Len(ScriptOf(c)) \in Nat \ {0}
<1>1. c.at \in 0 .. 8 /\ c.target \in 0 .. 8
  BY HeadIsEight DEF Commands
<1>2. \A r \in 0 .. 8 : DOMAIN Upgraded[r] = Parts
  BY HeadIsEight DEF ScriptsFit, EmptyDatabase, Parts
<1>3. \A r \in 1 .. 8 : /\ Fits(Upgrades[r], Upgraded[r - 1], Upgraded[r])
                        /\ Fits(Downgrades[r], Upgraded[r], Upgraded[r - 1])
  BY HeadIsEight DEF ScriptsFit
<1>4. CASE c.target > c.at
  <2>1. /\ c.at + 1 \in 1 .. 8 /\ (c.at + 1) - 1 = c.at
        /\ ScriptOf(c) = Upgrades[c.at + 1] /\ NextRevision(c) = c.at + 1
    BY <1>1, <1>4 DEF ScriptOf, NextRevision
  <2>2. Fits(ScriptOf(c), Upgraded[c.at], Upgraded[NextRevision(c)])
    BY <1>3, <2>1
  <2>3. /\ \A n \in 1 .. Len(Upgrades[c.at + 1]) :
              Upgrades[c.at + 1][n].kind \in Kinds
        /\ Len(Upgrades[c.at + 1]) \in Nat \ {0}
    BY <2>1, UpgradeKinds
  <2> QED
    BY <1>1, <1>2, <2>1, <2>2, <2>3
<1>5. CASE c.target < c.at
  <2>1. /\ c.at \in 1 .. 8 /\ c.at - 1 \in 0 .. 8
        /\ ScriptOf(c) = Downgrades[c.at] /\ NextRevision(c) = c.at - 1
    BY <1>1, <1>5 DEF ScriptOf, NextRevision
  <2>2. Fits(ScriptOf(c), Upgraded[c.at], Upgraded[NextRevision(c)])
    BY <1>3, <2>1
  <2>3. /\ \A n \in 1 .. Len(Downgrades[c.at]) :
              Downgrades[c.at][n].kind \in Kinds
        /\ Len(Downgrades[c.at]) \in Nat \ {0}
    BY <2>1, DowngradeKinds
  <2> QED
    BY <1>1, <1>2, <2>1, <2>2, <2>3
<1> QED
  BY <1>1, <1>4, <1>5

(* A command that is at the beginning of a script, or at its target.       *)
LEMMA PositionAtStart ==
    ASSUME ScriptsFit, NEW c \in Commands, c.next = 1
    PROVE  Position(c) = Upgraded[c.at]
<1>1. CASE c.at = c.target
  BY <1>1 DEF Position
<1>2. CASE c.at # c.target
  <2>1. Fits(ScriptOf(c), Upgraded[c.at], Upgraded[NextRevision(c)])
    BY <1>2, ScriptFits
  <2>2. Walk(c)[0] = Upgraded[c.at]
    BY <2>1 DEF Fits, Walk
  <2>3. c.next - 1 = 0
    OBVIOUS
  <2> QED
    BY <1>2, <2>2, <2>3 DEF Position
<1> QED
  BY <1>1, <1>2

(* The next statement is well formed in any database with the schema of    *)
(* the command's position, and leaves the schema of the next position.     *)
LEMMA PositionAdvances ==
    ASSUME ScriptsFit, NEW c, AtStatement(c), c.at # c.target,
           NEW w, SameSchema(w, Position(c)), NEW s, s = ScriptOf(c)[c.next]
    PROVE  /\ WellFormed(s, w)
           /\ SameSchema(Apply(s, w), Position(Advanced(c)))
<1> PICK script : script = ScriptOf(c)
  OBVIOUS
<1> PICK path : path = Walk(c)
  OBVIOUS
<1>1. /\ c \in Commands /\ c.next \in 1 .. Len(script)
      /\ Len(script) \in Nat \ {0}
  BY ScriptFits DEF AtStatement
<1>2. /\ \A n \in 1 .. Len(script) : /\ WellFormed(script[n], path[n - 1])
                                    /\ path[n] = Apply(script[n], path[n - 1])
      /\ SchemaPart(path[Len(script)]) = SchemaPart(Upgraded[NextRevision(c)])
      /\ DOMAIN Upgraded[NextRevision(c)] = Parts
  BY <1>1, ScriptFits DEF Fits, Walk
<1>3. s.kind \in Kinds
  BY <1>1, ScriptFits
<1>4. Position(c) = path[c.next - 1]
  BY DEF Position
<1>5. WellFormed(s, path[c.next - 1]) /\ path[c.next] = Apply(s, path[c.next - 1])
  BY <1>1, <1>2
<1>6. WellFormed(s, w)
  BY <1>3, <1>4, <1>5, WellFormedBySchema
<1>7. SameSchema(Apply(s, w), path[c.next])
  BY <1>3, <1>4, <1>5, ApplyBySchema DEF Alike
<1> PICK d : d = Advanced(c)
  OBVIOUS
<1>8. /\ d \in Commands /\ d.target = c.target
      /\ c.next < Len(script) => d.at = c.at /\ d.next = c.next + 1
      /\ c.next = Len(script) => d.next = 1 /\ d.at = NextRevision(c)
  BY AdvancedFields DEF NextRevision
<1>9. CASE c.next < Len(script)
  <2>1. d.at = c.at /\ d.next = c.next + 1 /\ d.at # d.target
    BY <1>8, <1>9
  <2>2. Walk(d) = path
    BY <1>8, <2>1 DEF Walk, ScriptOf
  <2>3. d.next - 1 = c.next
    BY <1>1, <2>1
  <2>4. Position(d) = path[c.next]
    BY <2>1, <2>2, <2>3 DEF Position
  <2> QED
    BY <1>6, <1>7, <2>4
<1>10. CASE c.next = Len(script)
  <2>1. Position(d) = Upgraded[NextRevision(c)]
    BY <1>8, <1>10, PositionAtStart
  <2>2. DOMAIN path[c.next] = Parts
    BY <1>7 DEF SameSchema
  <2>3. SameSchema(path[c.next], Upgraded[NextRevision(c)])
    BY <1>2, <1>10, <2>2, SameSchemaMeans
  <2> QED
    BY <1>6, <1>7, <2>1, <2>3, SameSchemaTransitive
<1> QED
  BY <1>1, <1>9, <1>10

-----------------------------------------------------------------------------
(* The invariant: what is committed has the schema of the revision it is   *)
(* stamped with, and the running command has made the schema of its        *)
(* position, whatever rows there are.                                      *)
ChainInv ==
    /\ SameSchema(database, Upgraded[revision])
    /\ command # Null => SameSchema(working, Position(command))

LEMMA InitChain == ScriptsFit /\ Init => ChainInv
<1>1. DOMAIN EmptyDatabase = Parts
  BY DEF EmptyDatabase, Parts
<1> QED
  BY <1>1 DEF Init, ChainInv, ScriptsFit, SameSchema

LEMMA BeginChain ==
    ASSUME ScriptsFit, IInv, ChainInv, NEW t \in Targets, Begin(t)
    PROVE  ChainInv'
<1>c. PICK c : c = [target |-> t, at |-> revision, next |-> 1]
  OBVIOUS
<1>1. c \in Commands /\ c.at = revision /\ c.next = 1
  BY <1>c, TargetsAreRevisions, HeadIsEight DEF IInv, Commands
<1>2. /\ working = database /\ command' = c
      /\ UNCHANGED <<revision, database, working>>
  BY <1>c DEF Begin, IInv
<1>3. Position(c) = Upgraded[revision]
  BY <1>1, PositionAtStart
<1> QED
  BY <1>2, <1>3 DEF ChainInv

LEMMA ExecuteChain ==
    ASSUME ScriptsFit, IInv, ChainInv, Execute
    PROVE  ChainInv'
<1>s. PICK s : s = Statement
  OBVIOUS
<1>1. /\ command # Null /\ command.at # command.target
      /\ working' = Apply(s, working)
      /\ UNCHANGED <<revision, database>>
  BY <1>s DEF Execute, Running
<1>2. s = ScriptOf(command)[command.next]
  BY <1>s DEF Statement, Script, ScriptOf, Upgrading
<1>3. command' = Advanced(command)
  BY DEF Execute, Advanced, Script, ScriptOf, Upgrading
<1>4. AtStatement(command) /\ SameSchema(working, Position(command))
  BY <1>1 DEF IInv, CommandOK, ChainInv
<1>5. SameSchema(Apply(s, working), Position(Advanced(command)))
  BY <1>1, <1>2, <1>4, PositionAdvances
<1> QED
  BY <1>1, <1>3, <1>5 DEF ChainInv

LEMMA CommitChain ==
    ASSUME ChainInv, Commit
    PROVE  ChainInv'
<1>1. /\ command # Null /\ command.at = command.target
      /\ revision' = command.target /\ database' = working
      /\ command' = Null
  BY DEF Commit
<1>2. SameSchema(working, Upgraded[revision'])
  BY <1>1 DEF ChainInv, Position
<1> QED
  BY <1>1, <1>2 DEF ChainInv

(* The application changes rows only.                                      *)
LEMMA ApplicationKeepsSchema ==
    ASSUME IInv, NEW a, SignUp(a) \/ Promote(a) \/ StartAnalysis
    PROVE  SameSchema(database', database)
<1>1. DOMAIN database = Parts
  BY DEF IInv, DbInv, Shaped
<1>2. PICK d : /\ database' = d
               /\ \/ \E users : d = [database EXCEPT !.users = users]
                  \/ d = [database EXCEPT !.users[a].platform_role =
                                              "platform_admin"]
                  \/ d = [database EXCEPT !.latest = "run"]
  BY DEF SignUp, Promote, StartAnalysis, Stored
<1>3. SameSchema(d, database)
  BY <1>1, <1>2 DEF SameSchema, Parts
<1> QED
  BY <1>2, <1>3

LEMMA ApplicationChain ==
    ASSUME IInv, ChainInv, NEW a, SignUp(a) \/ Promote(a) \/ StartAnalysis
    PROVE  ChainInv'
<1>1. command = Null /\ UNCHANGED <<revision, command>>
  BY DEF SignUp, Promote, StartAnalysis
<1>2. SameSchema(database', database)
  BY ApplicationKeepsSchema
<1>3. SameSchema(database', Upgraded[revision])
  BY <1>2, SameSchemaTransitive DEF ChainInv
<1> QED
  BY <1>1, <1>3 DEF ChainInv

LEMMA NextChain ==
    ASSUME ScriptsFit, IInv, ChainInv, [Next]_vars
    PROVE  ChainInv'
<1>1. CASE UNCHANGED vars
  BY <1>1 DEF vars, ChainInv
<1>2. ASSUME NEW t \in Targets, Begin(t)
      PROVE  ChainInv'
  BY <1>2, BeginChain
<1>3. CASE Execute
  BY <1>3, ExecuteChain
<1>4. CASE Commit
  BY <1>4, CommitChain
<1>5. CASE Rollback
  BY <1>5 DEF Rollback, ChainInv
<1>6. ASSUME NEW a \in Accounts, SignUp(a) \/ Promote(a)
      PROVE  ChainInv'
  BY <1>6, ApplicationChain
<1>7. CASE StartAnalysis
  BY <1>7, ApplicationChain
<1> QED
  BY <1>1, <1>2, <1>3, <1>4, <1>5, <1>6, <1>7 DEF Next

LEMMA ChainInvariant ==
    ASSUME ScriptsFit
    PROVE  Spec => [](IInv /\ ChainInv)
<1>1. IInv /\ ChainInv /\ [Next]_vars => (IInv /\ ChainInv)'
  BY NextStep, NextChain, ScriptsFit
<1>2. Init => IInv /\ ChainInv
  BY InitIInv, InitChain, ScriptsFit
<1> QED
  BY <1>1, <1>2, PTL DEF Spec

-----------------------------------------------------------------------------
(* Whatever commands were interrupted before and whatever the application  *)
(* has stored, the next statement of a command names things that exist, or *)
(* that do not exist yet: a command is only ever refused for the rows of   *)
(* users or of incidents.                                                  *)
THEOREM OnlyDataStops ==
    ASSUME ScriptsFit
    PROVE  Spec => []OnlyDataStopsCommands
<1>1. IInv /\ ChainInv => OnlyDataStopsCommands
  <2> SUFFICES ASSUME IInv, ChainInv, Running
               PROVE  WellFormed(Statement, working)
    BY DEF OnlyDataStopsCommands
  <2>s. PICK s : s = Statement
    OBVIOUS
  <2>1. command # Null /\ command.at # command.target
    BY DEF Running
  <2>2. s = ScriptOf(command)[command.next]
    BY <2>s DEF Statement, Script, ScriptOf, Upgrading
  <2>3. AtStatement(command) /\ SameSchema(working, Position(command))
    BY <2>1 DEF IInv, CommandOK, ChainInv
  <2>4. WellFormed(s, working)
    BY <2>1, <2>2, <2>3, PositionAdvances, ScriptsFit
  <2> QED
    BY <2>4, <2>s
<1> QED
  BY <1>1, ChainInvariant, ScriptsFit, PTL

(* A database stamped with the last revision has what the models declare,  *)
(* whichever commands led there, if the upgrades alone lead to a database  *)
(* that has.                                                               *)
THEOREM HeadServes ==
    ASSUME ScriptsFit, ServesModels(Upgraded[HeadRevision])
    PROVE  Spec => []HeadServesModels
<1>1. \A db, e : SameSchema(db, e) /\ ServesModels(e) => ServesModels(db)
  BY DEF SameSchema, ServesModels
<1>2. ChainInv => HeadServesModels
  BY <1>1 DEF ChainInv, HeadServesModels
<1> QED
  BY <1>2, ChainInvariant, ScriptsFit, PTL

-----------------------------------------------------------------------------
(* The refinement, step by step.                                           *)
LEMMA SchemaOfRevision ==
    ASSUME NEW r \in 0 .. 8, NEW db, SameSchema(db, Upgraded[r])
    PROVE  SchemaPart(db) = SchemaOf[r]
BY HeadIsEight DEF SameSchema, SchemaOf, SchemaPart

LEMMA ChainInit == ScriptsFit /\ Init => Chain!Init
<1> SUFFICES ASSUME ScriptsFit, Init PROVE Chain!Init
  OBVIOUS
<1>1. SchemaPart(database) = SchemaOf[0]
  BY HeadIsEight DEF Init, ScriptsFit, SchemaOf
<1>2. DOMAIN database.users = {}
  BY DEF Init, EmptyDatabase
<1>3. AdminsIn(database) = {}
  BY <1>2 DEF AdminsIn
<1> QED
  BY <1>1, <1>2, <1>3 DEF Init, Chain!Init

(* A commit is a move to the revision the command was given.               *)
LEMMA CommitMoves ==
    ASSUME ScriptsFit, IInv, ChainInv, Commit
    PROVE  Chain!Next
<1> PICK r : r = command.target
  OBVIOUS
<1> PICK d : d = working
  OBVIOUS
<1>1. revision' = r /\ database' = d
  BY DEF Commit
<1>2. IInv' /\ ChainInv' /\ revision' # revision /\ (r # 0 => Kept(database, d))
  BY <1>1, CommitStep, CommitChain
<1>3. DbInv(d) /\ r \in 0 .. 8 /\ InStage(d, RevisionStage(r))
  BY <1>1, <1>2 DEF IInv
<1>4. SchemaPart(d) = SchemaOf[r]
  BY <1>1, <1>2, <1>3, SchemaOfRevision DEF ChainInv
<1>5. ASSUME r = 0
      PROVE  DOMAIN d.users = {} /\ AdminsIn(d) = {}
  <2>1. Absent(d)
    BY <1>3, <1>5, StageValues DEF InStage
  <2>2. DOMAIN d.users = {}
    BY <1>3, <2>1 DEF DbInv, UsersOK, Absent
  <2> QED
    BY <2>2 DEF AdminsIn
<1>6. ASSUME r # 0
      PROVE  /\ DOMAIN d.users = DOMAIN database.users
             /\ AdminsIn(d) = AdminsIn(database)
  BY <1>2, <1>3, <1>6, AdminsAreAdmins DEF Kept, IInv
<1>7. Chain!Move(r)
  BY <1>1, <1>4, <1>5, <1>6 DEF Chain!Move
<1> QED
  BY <1>3, <1>7, HeadIsEight DEF Chain!Next

(* What the application stores enrols accounts and administrators.         *)
LEMMA ApplicationEnrols ==
    ASSUME IInv, IInv', revision # 0, UNCHANGED revision,
           SameSchema(database', database), Grows(database, database')
    PROVE  Chain!Next
<1> PICK d : d = database'
  OBVIOUS
<1>1. AdminsIn(database) = Admins(database) /\ AdminsIn(d) = Admins(d)
  <2>1. DbInv(database) /\ DbInv(d)
    BY DEF IInv
  <2> QED
    BY <2>1, AdminsAreAdmins
<1>2. /\ DOMAIN database.users \subseteq DOMAIN d.users
      /\ AdminsIn(database) \subseteq AdminsIn(d)
  BY <1>1 DEF Grows
<1>3. SchemaPart(d) = SchemaPart(database)
  BY DEF SameSchema, SchemaPart
<1>4. Chain!Enrol
  BY <1>2, <1>3 DEF Chain!Enrol
<1> QED
  BY <1>4 DEF Chain!Next

LEMMA StepImplements ==
    ASSUME ScriptsFit, IInv, ChainInv, [Next]_vars
    PROVE  [Chain!Next]_(Chain!vars)
<1>1. ASSUME UNCHANGED <<revision, database>>
      PROVE  UNCHANGED Chain!vars
  BY <1>1 DEF Chain!vars
<1>2. CASE UNCHANGED vars \/ Execute \/ Rollback
  BY <1>1, <1>2 DEF vars, Execute, Rollback
<1>3. ASSUME NEW t \in Targets, Begin(t)
      PROVE  UNCHANGED Chain!vars
  BY <1>1, <1>3 DEF Begin
<1>4. CASE Commit
  BY <1>4, CommitMoves
<1>5. ASSUME NEW a \in Accounts, SignUp(a) \/ Promote(a)
      PROVE  Chain!Next
  <2>1. IInv' /\ Grows(database, database')
    BY <1>5, SignUpStep, PromoteStep
  <2>2. revision # 0 /\ UNCHANGED revision
    BY <1>5, HeadIsEight DEF SignUp, Promote
  <2> QED
    BY <1>5, <2>1, <2>2, ApplicationKeepsSchema, ApplicationEnrols
<1>6. CASE StartAnalysis
  <2>1. IInv' /\ Grows(database, database')
    BY <1>6, StartAnalysisStep
  <2>2. revision # 0 /\ UNCHANGED revision
    BY <1>6, HeadIsEight DEF StartAnalysis
  <2> QED
    BY <1>6, <2>1, <2>2, ApplicationKeepsSchema, ApplicationEnrols
<1> QED
  BY <1>2, <1>3, <1>4, <1>5, <1>6 DEF Next

(* The commands implement the chain of revisions: a command is one move,   *)
(* at its commit, to the schema of the revision it was given, and accounts *)
(* and administrators outlive it unless that revision is 0.                *)
THEOREM CommandsImplementChain ==
    ASSUME ScriptsFit
    PROVE  Spec => ImplementsChain
<1>1. Init => Chain!Init
  BY ChainInit, ScriptsFit
<1>2. IInv /\ ChainInv /\ [Next]_vars => [Chain!Next]_(Chain!vars)
  BY StepImplements, ScriptsFit
<1> QED
  BY <1>1, <1>2, ChainInvariant, ScriptsFit, PTL
  DEF Spec, ImplementsChain, Chain!Spec
=============================================================================
