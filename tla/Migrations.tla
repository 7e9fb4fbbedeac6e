----------------------------- MODULE Migrations -----------------------------
(***************************************************************************)
(* alembic upgrade and alembic downgrade over the eight revisions.  A      *)
(* command executes the statements of one revision after the other in a    *)
(* single transaction (env.py: context.begin_transaction around            *)
(* context.run_migrations; PostgreSQL's DDL is transactional), so there    *)
(* is a committed database and, while a command runs, a working one.  A    *)
(* statement PostgreSQL refuses, or the end of the process, rolls the      *)
(* whole command back.                                                     *)
(*                                                                         *)
(* Between commands the application of the current revision stores the     *)
(* data the migrations have to carry over: accounts with a role and a      *)
(* name, and, at the last revision, incidents that point at an analysis    *)
(* run.  Commands run while the application does not.                      *)
(***************************************************************************)
EXTENDS Revisions

CONSTANTS Accounts,   \* the accounts that may be created
          Targets     \* the revisions a command may be given

ASSUME TargetsAreRevisions == Targets \subseteq 0 .. HeadRevision

\* What a command is given, the revision it has reached, and the statement it
\* executes next.
Commands == [target : 0 .. HeadRevision, at : 0 .. HeadRevision, next : Nat]

ASSUME NullIsNoCommand == Null \notin Commands

Models == INSTANCE Models

VARIABLES revision,   \* the row of table alembic_version, 0 for none
          database,   \* what is committed
          working,    \* what the running command has made of it
          command     \* the running command, or Null

vars == <<revision, database, working, command>>

-----------------------------------------------------------------------------
\* The revision script the command is in, and the statement it executes next.
Upgrading == command.target > command.at
Script == IF Upgrading THEN Upgrades[command.at + 1] ELSE Downgrades[command.at]
Statement == Script[command.next]

Running == command # Null /\ command.at # command.target

Init ==
    /\ revision = 0
    /\ database = EmptyDatabase
    /\ working = EmptyDatabase
    /\ command = Null

\* alembic upgrade <target>, alembic downgrade <target>
Begin(target) ==
    /\ command = Null
    /\ target # revision
    /\ command' = [target |-> target, at |-> revision, next |-> 1]
    /\ UNCHANGED <<revision, database, working>>

\* The next statement; after the last one of a script, the version it stamps.
Execute ==
    /\ Running
    /\ Applies(Statement, working)
    /\ working' = Apply(Statement, working)
    /\ command' =
         IF command.next < Len(Script)
         THEN [command EXCEPT !.next = command.next + 1]
         ELSE [command EXCEPT !.next = 1,
                   !.at = IF Upgrading THEN command.at + 1 ELSE command.at - 1]
    /\ UNCHANGED <<revision, database>>

Commit ==
    /\ command # Null
    /\ command.at = command.target
    /\ revision' = command.target
    /\ database' = working
    /\ command' = Null
    /\ UNCHANGED working

\* Faulty variant: what the command has done so far is kept.
Rollback_KeepsWork ==
    /\ command # Null
    /\ command' = Null
    /\ UNCHANGED <<revision, database, working>>

\* The statement is refused, or the process is killed.
Rollback ==
    /\ command # Null
    /\ working' = database
    /\ command' = Null
    /\ UNCHANGED <<revision, database>>

-----------------------------------------------------------------------------
\* The application, between two commands.

Stored(db) == database' = db /\ working' = db

\* A row of users as its table has it.
Row(name, role) ==
    LET columns == database.tables["users"].columns
    IN  [c \in DOMAIN columns |->
            IF c = "full_name" THEN name
            ELSE IF c \in {"role", "platform_role"} THEN role ELSE Null]

\* The roles an account is created with: any role of the prototype, and none on
\* the platform once users has that column.
NewRoles ==
    IF HasColumn(database, "users", "role")
    THEN database.types[database.tables["users"].columns.role] ELSE {"none"}

\* The names that fit their column.
Names ==
    IF database.tables["users"].columns.full_name = "varchar_150"
    THEN {"short"} ELSE {"short", "long"}

SignUp(a) ==
    /\ command = Null
    /\ revision # 0
    /\ a \notin DOMAIN database.users
    /\ \E name \in Names, role \in NewRoles :
          Stored([database EXCEPT !.users = With(@, a, Row(name, role))])
    /\ UNCHANGED <<revision, command>>

\* seed_bootstrap makes the owner account a platform administrator.
Promote(a) ==
    /\ command = Null
    /\ revision = HeadRevision
    /\ a \in DOMAIN database.users
    /\ database.users[a].platform_role # "platform_admin"
    /\ Stored([database EXCEPT !.users[a].platform_role = "platform_admin"])
    /\ UNCHANGED <<revision, command>>

\* An incident is analysed: its latest_analysis_run_id is set.
StartAnalysis ==
    /\ command = Null
    /\ revision = HeadRevision
    /\ database.latest = "none"
    /\ Stored([database EXCEPT !.latest = "run"])
    /\ UNCHANGED <<revision, command>>

Next ==
    \/ \E t \in Targets : Begin(t)
    \/ Execute
    \/ Commit
    \/ Rollback
    \/ \E a \in Accounts : SignUp(a) \/ Promote(a)
    \/ StartAnalysis

Spec == Init /\ [][Next]_vars

-----------------------------------------------------------------------------
\* A table's references resolve, and every stored role is a value its column's
\* enum type has at this point of the script.
Consistent(db) ==
    /\ \A t \in DOMAIN db.tables : Resolves(db, t, db.tables[t])
    /\ \A a \in DOMAIN db.users : \A c \in DOMAIN db.users[a] :
          LET type == db.tables["users"].columns[c]
          IN  type \in DOMAIN db.types => db.users[a][c] \in db.types[type]
    /\ db.latest \in {"none", "run", "lost"}

TypeOK ==
    /\ revision \in 0 .. HeadRevision
    /\ command # Null => /\ command.at \in 0 .. HeadRevision
                         /\ Running => command.next \in 1 .. Len(Script)
    /\ command = Null => working = database
    /\ Consistent(database) /\ Consistent(working)

\* What the SQLAlchemy models need is there.
ServesModels(db) ==
    /\ DOMAIN db.tables = DOMAIN Models!Tables
    /\ db.types = Models!EnumTypes
    /\ db.sequences = {"incident_number_seq"}
    /\ \A t \in DOMAIN db.tables :
          LET found == db.tables[t]
              model == Models!Tables[t]
          IN  /\ found.refs = model.refs
              /\ found.columns = model.columns
              /\ found.uniques = model.uniques
              /\ model.indexes \subseteq found.indexes

\* Whatever commands were run and wherever they were interrupted, a database
\* that is stamped with the last revision has the tables, enum values,
\* references and unique constraints the SQLAlchemy models declare, and at
\* least their indexes.
HeadServesModels == revision = HeadRevision => ServesModels(database)

\* Only stored data stops a command: a name too long for the narrower column of
\* revision 002, or, in revision 004, an incident that still points at an
\* analysis run an earlier downgrade has dropped.
OnlyDataStopsCommands == Running => WellFormed(Statement, working)

\* The chain is safely re-appliable (tests/test_migrations.py): no statement of
\* any command is refused.
EveryStatementApplies == Running => Applies(Statement, working)

-----------------------------------------------------------------------------
\* The databases the statements of a script lead through, from db on.
Path(script, db) ==
    LET made[n \in 0 .. Len(script)] ==
            IF n = 0 THEN db ELSE Apply(script[n], made[n - 1])
    IN  made

\* The database the upgrades alone lead to.
Upgraded[r \in 0 .. HeadRevision] ==
    IF r = 0 THEN EmptyDatabase
    ELSE Path(Upgrades[r], Upgraded[r - 1])[Len(Upgrades[r])]

SchemaPart(db) == <<db.types, db.tables, db.sequences>>

AdminsIn(db) ==
    {a \in DOMAIN db.users :
        \/ "role" \in DOMAIN db.users[a] /\ db.users[a].role = "admin"
        \/ /\ "platform_role" \in DOMAIN db.users[a]
           /\ db.users[a].platform_role = "platform_admin"}

SchemaOf == [r \in 0 .. HeadRevision |-> SchemaPart(Upgraded[r])]

\* From database from on, every statement of the script names things that exist,
\* or do not exist yet, and the last one leaves the schema of database to.
Fits(script, from, to) ==
    LET path == Path(script, from)
    IN  /\ path[0] = from
        /\ \A n \in 1 .. Len(script) :
              /\ WellFormed(script[n], path[n - 1])
              /\ path[n] = Apply(script[n], path[n - 1])
        /\ SchemaPart(path[Len(script)]) = SchemaPart(to)

\* Each revision's upgrade starts where the one before it ends, and its downgrade
\* leads back there.  No variable occurs in this: it is about the scripts alone.
ScriptsFit ==
    /\ Upgraded[0] = EmptyDatabase
    /\ \A r \in 0 .. HeadRevision : DOMAIN Upgraded[r] = DOMAIN EmptyDatabase
    /\ \A r \in 1 .. HeadRevision :
          /\ Fits(Upgrades[r], Upgraded[r - 1], Upgraded[r])
          /\ Fits(Downgrades[r], Upgraded[r], Upgraded[r - 1])

Chain == INSTANCE RevisionChain WITH
            Revisions <- 0 .. HeadRevision,
            SchemaOf <- SchemaOf,
            schema <- SchemaPart(database),
            accounts <- DOMAIN database.users,
            admins <- AdminsIn(database)

\* The scripts fit, and the commands implement the chain: a downgrade gives back
\* the very schema the upgrades had made, an interrupted command changes nothing,
\* and accounts and administrators survive the change of users.role to
\* platform_role and back.
ImplementsChain == ScriptsFit /\ Chain!Spec
=============================================================================
