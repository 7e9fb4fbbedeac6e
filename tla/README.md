# A TLA+ model of the DevGuard AI backend

The backend is a FastAPI application over PostgreSQL. Its services keep incidents,
their files and analyses, projects, organizations and login sessions, and many requests
work on the same rows at a time. The repository's tests send one request after another
through one shared session (`src/backend/tests/conftest.py`), so what happens when
requests overlap, or stop halfway, is what these modules are about.

Paths below are relative to `src/backend/app/` unless they start with `src/`.

## 1. The system

### How a request runs

Every request gets a database session of its own (`infrastructure/database/session.py`,
`get_db_session`): it is yielded to the endpoint, committed when the endpoint has
returned and rolled back when it raised. Four settings shape every model:

* the isolation level is PostgreSQL's READ COMMITTED: each SELECT sees what was
  committed before it started, and two SELECTs of one request may see different states;
* no query locks rows (`FOR UPDATE` appears nowhere) and no table has a version column:
  what a handler has read may have changed when it writes;
* `autoflush=False`: what a handler has assigned or added reaches the database only at
  its explicit `flush()`, so its own SELECTs do not see it;
* SQLAlchemy's UPDATE contains the columns whose assigned value differs from the loaded
  one. A handler that assigns the value it has loaded writes nothing, whatever the row
  holds by then. Rows loaded once are not refreshed by a later SELECT of the session.

A handler is therefore modelled as a **Load** step (its SELECTs, guards and early
returns; what it has read is kept in `req[w]`) and a **Commit** step (its flushes and the
commit: the row as it is by then, changed by the columns the handler changed). A handler
with several SELECTs whose order matters has a step for each. The flush and the commit
are one step, because other sessions see the first only with the second; where a lock
taken by the flush is observable (deletions of files, INSERTs under a unique constraint)
the two are separate. `Rollback`
ends a request at any point without writing: a guard or a constraint that fails, a lost
connection, a stopped process.

### Components

| Component | State | Operations | Interacts with | Hard behaviour | What makes it correct |
|---|---|---|---|---|---|
| Incident lifecycle (`incident_service`, `resolution_service`, `incident_transitions`) | row of `incidents`; `incident_assignments`, `incident_resolutions`, `incident_events` | create, update, change status, resolve, reopen, assign, unassign, acknowledge | membership (assignee), projects, analysis runs | guards on stale rows; two endpoints for the same status change; column-wise UPDATEs | status changes follow the table; settled incidents are not edited; the timeline, the assignment history and the timestamps tell what happened |
| Organization membership (`organization_service`) | `organization_members` | add, change, deactivate a member | access control decides who may call it | count of owners read without a lock; the caller's own row is cached | an active owner remains |
| Sessions (`auth_service`, `core/security`) | `users.password_hash`, `refresh_tokens` | login, refresh, logout, change password | every other endpoint trusts its access tokens | rotation, logout and change of password overlap | tokens are exchanged once; an ended session stays ended; no live token of an old password |
| Files (`upload_service`, `storage/local_storage`) | `uploaded_files`, blobs on disk, events | upload a batch, delete | analysis runs name files | storage outside the transaction; clean-up on failure; crash between storage and commit | rows and blobs account for each other; no duplicates; every upload and deletion on the timeline |
| Analysis runs (`analysis_run_service`) | `analysis_runs`, `latest_analysis_run_id` | start, reanalyse, cancel | files, incident status | checks against files that are being deleted | files of a run are kept; one active run |
| Projects, pipeline runs (`project_service`, `pipeline_run_service`) | `projects`, `pipeline_runs` | create, update, archive, restore, create run | incidents are created under them | archive overlaps creation; archive overlaps restore | archived projects are frozen; references stay within the project |
| Registration (`auth_service.register`, `create_default_organization_for_user`) | `users`, `organizations`, `organization_members` | register | membership, seed | check-then-insert of email and slug, three flushes in a transaction, waiting for another's INSERT | an account comes with an organization it owns, under the first free slug |
| Seed (`infrastructure/database/seed.py`) | the same tables and `failure_categories` | `run_seed` | registration | races registrations for the same keys in the opposite order; run again on any state | leads to the seeded state from any state |
| Lists, mappers, `schemas/common` | none | pagination | all | page arithmetic; rows are counted and then selected while others add some | a client that reads page by page misses nothing |
| Migrations (`src/backend/alembic`), models (`infrastructure/database/models`) | the schema, the data it carries, `alembic_version` | upgrade, downgrade | every service is written against the last revision | eight revisions written by hand in both directions; interrupted commands; data an older revision cannot hold | the schema is a function of the revision and serves the models; data survives |
| Notes (`incident_note_service`) | `incident_notes` | create, update, delete | access control | update overlaps delete | author or administrator only |
| Access (`api/deps`) | none | resolve the organization and the role of the caller | all | role cached for the request | role tables |
| Masking, validation, parsers | none | on the content of uploads | files | string processing | – |
| AI tables, reports, notifications, audit, integrations | tables only | none in the repository | – | – | – |
| Repositories (`infrastructure/repositories`) | – | not used by an endpoint | – | – | – |

## 2. Modules

| Module | Models |
|---|---|
| `IncidentTransitions` | the transition table and the two rules of `incident_transitions.py` |
| `Incident` | one incident row with its assignments, resolutions and events, and the overlapping requests on it |
| `IncidentAtomic` | the abstract specification: what each endpoint promises if it were one atomic step |
| `Incident_proofs` | theorems about `Incident` |
| `Membership`, `Membership_proofs` | the members of one organization |
| `AuthSessions`, `AuthSessions_proofs` | the password and the refresh tokens of one account |
| `AnalysisFiles`, `AnalysisFiles_proofs` | the files of one incident, their blobs, and the analysis runs that name them |
| `Pagination` | the page arithmetic, and a page of a list that is sorted newest first |
| `Projects`, `Projects_proofs` | the projects of one organization, what is created under them, and a client that reads the list of runs page by page |
| `DirectoryAtomic` | the abstract specification of registration and seed: each is one step |
| `Directory`, `Directory_proofs` | registrations and seeds as overlapping database transactions with unique constraints |
| `Schema` | a PostgreSQL schema as the migrations see it, and the statements they issue |
| `Revisions` | `upgrade()` and `downgrade()` of the eight revisions as sequences of statements |
| `Models` | the schema the SQLAlchemy models declare |
| `RevisionChain` | the abstract specification of a chain of migrations |
| `Migrations` | alembic commands over the chain, interrupted anywhere, with the data stored in between |
| `Migrations_proofs` | theorems about `Migrations`: references, types and rows |
| `MigrationsChain_proofs` | theorems about `Migrations`: the schema, and that it implements `RevisionChain` |
| `MC...` | constants and symmetry for TLC |

Operators whose name ends in `_Something` after the name of another operator
(`LoadReopen_Unguarded`) are faulty variants of that operator. No specification uses
them; they document which mistake each property catches.

### Incident

`incident` is the committed row: status, whether `resolved_at`, `closed_at` and
`acknowledged_at` are set, the assignee and the editable fields. `assignments` and
`events` are sequences in commit order, `resolutions` a count. `req[w]` holds the row a
request has loaded and its arguments. `Flushed(current, loaded, assigned)` is
SQLAlchemy's column-wise UPDATE. `unassign` has three steps, since its second SELECT sees later
commits than its first. An event keeps its type and the statuses in its metadata;
`reopen` writes only the new one and `resolve` none.

`IncidentAtomic` has the same tables and one action per endpoint. `Atomic == INSTANCE
IncidentAtomic` needs no substitution: the variables have the same names, and `req` is
hidden. With one worker a load is a stutter of `IncidentAtomic` and a commit is its
endpoint's step.

### Membership

`Enter` is `get_current_user` with `require_org_admin`: it reads the caller's own
membership, which the request then keeps. `update_member` guards and assigns the role,
then guards and assigns `is_active`; the owners are counted by a query of its own each
time (`AssignRole`, `AssignActive`). The flush writes the changed columns.

### AuthSessions

`tokens` is `refresh_tokens` by jti; `lineage` is a history variable that remembers for
each token which one it was exchanged for, the login it goes back to and the password
that login verified. Passwords are numbered. `change_password` has three steps: the
account as `get_current_user` loaded it, the SELECT of the tokens to revoke, and the flush.

### AnalysisFiles

`files`, `runs` and `timeline` are tables, `blobs` is the storage, `closed` the part of
the incident's status that matters here. Two history variables: `unlinked`, the files whose deletion has reached
the storage, and `cut`, the files of requests that a fault has cut off. An upload
processes its batch file by file: duplicate check, blob, record in the session;
`RejectUpload` is the `except` clause. A deletion selects the row, checks the runs, flushes the DELETE (which takes the row lock),
removes the blob, and commits. `Faults` says what may happen that the handlers do not
see: `"crash"` stands for a stopped process, a cancelled request and a failed commit,
`"unlink"` for a blob that cannot be removed during clean-up. The repository contains no
executor of runs, so a run is queued or cancelled.

`AuthSessions` and `AnalysisFiles` have a history variable `overlapped`: two requests
have been in flight at a time. Properties that only hold of requests one after another say
`~overlapped => ...`, so that one run shows what overlap keeps and what it does not.

### Projects and Pagination

A project is known by its key (unique by constraint). `archive` assigns a new timestamp,
so that column is always sent, while its status is sent only if the loaded row was not
archived. Incidents and pipeline runs are sequences of references.

`paging` is a client, not part of the program: it opens the list of a project's pipeline
runs, asks for page after page with some page size, and stops at the page the last answer
called `total_pages`; `due` are the runs there were when it began and `seen` those it has
been given. `LoadList` is the COUNT and `AnswerList` the SELECT with OFFSET and LIMIT. The
list is sorted by `created_at`, newest first. PostgreSQL's `now()` is the start of the
transaction, which is the commit order of the model as long as requests do not overlap;
ties, the other sort columns and the filters are left out.

### Directory

A row is its table and its unique key; there is nothing else about a user, organization or
membership that a registration or a seed could get wrong, but for the platform role
(`admins`) and the contents of a category (`outdated`: those that differ from the approved
ones). `held[w]` are the rows a transaction has inserted and not committed, `want` the
objects it has added to its session and not flushed. A flush of a key that another open
transaction holds waits (`WaitsFor`); when that one commits the flush violates the
constraint (`IntegrityError`, which no handler catches), when it rolls back it succeeds.
Transactions that wait for one another in a circle are PostgreSQL's deadlock, of which it
aborts one (`DeadlockDetected`). A registration takes its address and then its slug, the
seed its slug and then the address, so there is such a circle. `Fault` loses a transaction
to a crash. A flush of several rows is taken as one step. `seed_failure_categories` reads
and adds in one step; its UPDATEs of changed categories are made at the commit, and their
row locks are left out, since two seeds write the same values.

`DirectoryAtomic` makes each registration and each seed a single step: a registration adds
the account, the organization under its **first** free slug and the ownership, the seed
adds what is missing and updates what differs. `Atomic == INSTANCE DirectoryAtomic` maps
the committed tables to themselves.

### Schema, Revisions, Models, Migrations

`Schema` keeps of a table its references with their ON DELETE, its unique constraints, its
indexes, and those columns that have an enum type or that a later statement changes; of
the rows, the accounts (role, length of the name) and whether some incident points at an
analysis run. Nullability, server defaults, check constraints, the order of columns and
all other rows are left out. `Applies` says what PostgreSQL accepts: names that exist or
do not exist yet, tables that nothing refers to when they are dropped, types that no
column uses, references that the rows satisfy, names that fit their column.
`CreateType` does nothing when the type exists (`checkfirst=True`), whatever its values.

`Revisions` has one sequence of statements for each direction of each revision, in the
order of the code; a loop over tables or indexes is a comprehension. Where the code states
something twice (the prototype's tables, created by 001 and restored by the downgrade of
003) the module states it twice.

`Migrations` runs them. `command` is where an alembic command is, `working` what it has
made of the `database` within its one transaction (`env.py`). Between two commands the
application stores data: `SignUp` creates accounts as the current revision allows,
`Promote` is what the seed does to the owner, `StartAnalysis` points an incident at a run.
Commands run while the application is stopped. Offline mode, which writes SQL scripts, is
left out.

`RevisionChain` is what a chain promises: a command is one step between revisions, the
schema is a function `SchemaOf` of the revision, and accounts and administrators outlive
it. The refinement maps `schema` to types, tables and sequences of the committed database,
`SchemaOf[r]` to what the upgrades alone lead to, and `admins` to those with `role`
"admin" in the prototype or `platform_role` "platform_admin" later.

`ScriptsFit` is the part of it that is about the scripts and not about the commands:
executed from what the upgrades alone have made of an empty database, every statement of
every script names things that exist (or do not exist yet), each downgrade ends in the
schema its upgrade started from, and each upgrade where the next begins. No variable
occurs in it. It is a conjunct of `ImplementsChain`, so that a faulty script shows as a
violated property.

## 3. Runs

Passing runs:

| Run | Instance | States | Shows |
|---|---|---|---|
| `incident_concurrent` | 2 requests, 2 users, 5 events | 2.1 million | under any overlap: the assignee has an open assignment; the status is on the timeline; each status on the timeline was permitted from an earlier one; nothing is closed that was never resolved, or reopened that was never settled; each ended assignment has its event |
| `incident_serial` | 1 request, 2 users, 2 field values, 6 events | 1.0 million | one at a time: the atomic specification is implemented; the row keeps to the table; settled incidents are not edited; timestamps and timeline match the status |
| `membership_serial` | 3 users, one a platform admin, 3 roles | 22 thousand | one at a time: an active owner remains |
| `auth_sessions` | 2 requests, 4 tokens, 2 changes of password | 840 thousand | under any overlap: exchanged tokens are revoked and name a successor of theirs; unless requests have overlapped: tokens are single-use, ended logins stay ended, live tokens are of the current password |
| `files` | 2 requests, 2 ids, batches of 2, 1 run, all faults | 240 thousand | under any overlap, with faults: a row nobody asked to delete has its blob; but for what a fault has cut off, there is no orphan blob and a row without blob is about to go; the timeline accounts for all files; a deletion that waits for the row lock ends; unless requests have overlapped: analysed files are kept, a deletion is recorded once, duplicates come from one batch |
| `projects_serial` | 1 request, 2 projects, 2 details, 3 runs, 1 incident, pages of 1 or 2 | 300 thousand | one at a time: archived projects are frozen and alone have an archive time; references stay within the project; a client that pages through the runs while others are created misses none |
| `migrations` | 2 accounts, all 8 revisions | 43 thousand | any sequence of commands between any two revisions, each interrupted at any statement: the schema is a function of the revision, the last one is what the models declare, accounts and administrators are kept, and only stored data stops a command |
| `directory` | 2 transactions, 2 addresses, 2 names with colliding slugs, 1 crash | 105 thousand | registrations and seeds at any overlap: every commit is the whole operation in its abstract form; no account without organization; a constraint is met only through overlap; every transaction ends, the deadlock included |

Runs that are expected to find a violation, each of a sentence of the repository:

| Run | What the code does |
|---|---|
| `incident_assignment_history` | reassigning leaves the earlier assignment without an end (no overlap needed) |
| `membership_overlap` | two owners are demoted at once and none remains |
| `auth_password_overlap` | a login or refresh survives the change of password |
| `migrations_reapply` | once an analysis was started, a downgrade below 004 cannot be upgraded again (the test of re-applying the chain runs it on an empty database) |

The properties that hold only of requests that do not overlap state more than holds under
overlap, and it is worth knowing what. A second worker in the `.cfg` of a serial run, or
the property without its `~overlapped`, makes TLC refute

* `StatusStepsPermitted`: of two changes, each permitted from the status it has loaded,
  the second takes the row along a transition the table forbids;
* `EditsRequireReopen`: an update or assignment loaded before a resolution is written
  after it;
* `TokensAreSingleUse`: two refreshes exchange one token;
* `AnalysedFilesAreKept`: a deletion and `start_analysis` overlap, and the run names a
  file that is gone;
* `ArchivedProjectsAreFrozen` and `ArchivedAtMatchesStatus`: a creation, or a restore,
  overlaps `archive`;
* `PagesMissNothing`: a run committed between the COUNT and the SELECT of the last page
  moves a row to a page that the answer does not count.

Two divergences that need no overlap and no run of their own: `DuplicatesShareABatch` is
as strong as it can be, because the duplicate SELECT (`upload_service.py`,
`_process_one`) does not see the unflushed records of its own batch, so one batch may
store the same content twice although `src/docs/MASTER_ARCHITECTURE.md:687` says "Detect
duplicate content."; and `HeadServesModels` has `\subseteq` for indexes, because the
migrations create ten indexes that no model declares, which
`alembic revision --autogenerate` would offer to drop.

### Bounds

`MaxEvents`, `MaxPassword`, `MaxRuns`, `MaxIncidents`, `MaxBatch`, `MaxFaults` and the
sets of ids bound what grows. Two requests are enough for each race in section 1: every
guard reads one row (or one count) and races with one other writer; a deadlock needs two
transactions. Five events let two requests act after a setup of two. Four tokens allow a
login, two rotations and a second login. Two file ids let one upload complete while
another is refused and cleaned up, and let a batch hold a duplicate. Three runs and pages
of two give an exact multiple, one above it, and a page that moves while it is read. The
names of `directory` are "Default" and "Default 1": the first suffix of the one is the
base slug of the other and the base slug of the first is that of the bootstrap
organization, so that all three compete for the same slugs; their candidates are as many
as can be taken. The migrations need no bound but the number of accounts: the statements
are finite, and accounts do not interact. The theorems of section 4 have no such bounds.

Deadlock is checked in every run: a request can always begin or roll back, a command
always commit or roll back.

### Fairness

`files` assumes, for `DeletionsEnd`, weak fairness of each request's own steps: the event
loop resumes a coroutine whose await has completed. Strong fairness of `Unlink`:
PostgreSQL queues those that wait for a row lock, so that a waiter is not overtaken for
ever by later deletions that take the lock and are cut off.

`directory` assumes, for `RequestsEnd`, strong fairness of each transaction's steps. An
INSERT that waits for another transaction is woken whenever that one ends, by its commit
or its rollback, so it cannot be passed over for ever although its step is enabled only
now and then; PostgreSQL aborts a transaction of a circle after `deadlock_timeout`.

Rollbacks for other reasons, crashes and new requests are not assumed to happen. No other
liveness is claimed: every other handler is a finite sequence of steps that waits for
nothing in the model.

### Refinements

`IncidentAtomic` (by `incident_serial`), `DirectoryAtomic` (by `directory`, under any
overlap) and `RevisionChain` (by `migrations`) are checked as properties of the detailed
modules. All three are theorems too, the third given `ScriptsFit`.

## 4. Theorems

All are checked by TLAPS.

`Incident_proofs`, for any number of overlapping requests, any users and fields and any
bound on events:

* `TypeCorrect`, `StatusAlwaysOnTimeline`, `TimelineAlwaysJustified`,
  `AlwaysInOrder`. The inductive invariant is the type invariant with
  `StatusOnTimeline`, `TimelineIsJustified` and `RequestsAreJustified`. The last is
  what the others lack: when a request commits, its target was permitted from the
  status it *loaded*, and that status is on the timeline although the row may have
  moved on. That an incident is closed only after a resolution, and reopened only after
  it was settled, is inductive with these: `closed` is permitted from `resolved` and from
  itself only, `reopened` from the four settled statuses and from itself only, and an
  event that names either had an earlier cause of its own (`PermittedInOrder`).
* `AssigneeAlwaysHasOpenAssignment`, from the same invariant: `assign` adds the row in
  the transaction that sets the assignee, and `unassign`, which loaded a row with an
  assignee, always sends NULL.
* `ReleasesAlwaysRecorded`: no more assignments have ended than the timeline has
  `unassigned` events. It is a fact about two cardinalities: `unassign` ends the row it
  found by its second SELECT, which another `unassign` may have ended already, but always
  records one event, and no other endpoint ends a row.

With the assumption `NoOverlap` (at most one worker):

* `SerialImplementsAtomic`: a step of `Incident` is a stutter or an endpoint's step of
  `IncidentAtomic`. The added invariant is that what a request holds is what the tables
  hold, so that `Flushed(x, x, y) = y`.
* `SerialStatusSteps`, `SerialEditsRequireReopen`, from the same invariant.
* `SerialSettledHasTimestamps` and `SerialStatusIsLastOnTimeline`, by induction over the
  steps of `IncidentAtomic`, of which there are fewer: `closed` is entered from a resolved
  or closed row only, so that `resolved_at` is there, and every endpoint that changes the
  status names it in the event it appends.

`Membership_proofs`: `SerialOwnerAlwaysRemains`, for any set of users, roles and
platform administrators, with `NoOverlap`. The invariant says of a request in flight that
the row it loaded is the committed one and that, if what it has assigned so far takes an
active owner away, another active owner exists. `TypeCorrect` needs no such assumption,
but it needs `RequestHoldsRows`: the rows of a request in flight exist in the table,
because no code deletes a membership.

`Directory_proofs`, for any number of overlapping transactions, any addresses, names,
candidates and categories and any number of crashes:

* `TypeCorrect`, `AccountsAlwaysOwnOrganizations`, `DirectoryImplementsAtomic`. The
  inductive invariant says of a registration in flight what it holds and wants at each
  phase, and that the slugs it has passed over are **committed** (`RegistrationOK`): what
  it could have seen otherwise is its own, and it holds no organization while it searches.
  Of a seed it says that what it makes are seeded rows and that each row it has passed is
  committed, held or wanted (`SeedingOK`); rows are never deleted, so that stays true.
* `SerialNeverClashes`: when transactions have never overlapped, what one wants is not in
  the committed rows.

`Projects_proofs`:

* `TypeCorrect`, for any overlap: rows that others refer to exist and an incident's
  pipeline run is one of its project. The invariant carries the same facts in the
  requests; they stay true since rows are only added and a run stays with its project.
* With `NoOverlap`, `SerialPagesMissNothing`, for every page size and any number of runs.
  The invariant (`ReadingOK`): each run that is due and not yet seen has a rank in the list
  beyond the pages that were read; ranks only grow, because new runs come first; and the
  number of pages covers the number of rows (`PagesCover`, integer division), so after the
  last page no rank is left.
* With `NoOverlap`, `SerialArchivedAtMatchesStatus`: the request's load is the committed
  row, so both columns change together.
* With `NoOverlap`, `SerialArchivedProjectsAreFrozen`: a request that is about to write into
  a project found it active (`OfActive`), and nobody has archived it since.

`AuthSessions_proofs`, for any number of requests, tokens and changes of password:

* `TypeCorrect` and `ExchangedSpent`, under any overlap. The tables only grow: a token
  stays with its login and `revoked_at` is never cleared, so what a request has found stays
  issued, and a refresh sets `revoked` and `replacedBy` in one UPDATE.
* `SingleUse`, `CurrentPassword` and `EndedForGood`, as long as no two requests have
  overlapped. The invariant (`SerialOK`) adds that at most one request is in flight and
  that what it has loaded is still stored: the password it verified is the account's, the
  token it exchanges is not revoked, and the tokens it is about to revoke are all there
  are. It is an implication from `~overlapped`: that history variable is never reset, so
  the induction needs nothing of the states after the first overlap.

`AnalysisFiles_proofs`, for any number of requests, files, batches and runs and any set
of faults:

* `TypeCorrect`, `BlobsOfFiles`, `NoOrphans`, `NoDangling` and `TimelineAccounts`, under
  any overlap. None of these is inductive alone. Together they are, with three facts
  about requests (`RequestsOK`): the ids an upload has drawn were never committed and
  their blobs are there; two requests never hold the same id; what a deletion has removed
  from the storage was uploaded once. The last keeps an id that was given away from being
  drawn again while its blob is missing.
* `OnceDeleted`, `AnalysedKept` and `DuplicatesTogether`, as long as no two requests have
  overlapped: the file of a deletion in flight is stored and in no run, the files a run is
  to name are stored, and no file an upload has saved has the content of a stored one.

`Migrations_proofs`, for any set of accounts and any targets among the revisions:

* `TypeCorrect`: after every statement of every upgrade and downgrade, wherever it is
  interrupted, references resolve, every stored role is a value of its column's enum
  type, and a command is at a statement of its script. The invariant of a database is
  `DbInv`. Each kind of statement keeps it whenever PostgreSQL accepts it, given simple
  facts about its arguments (`Good`): a type of roles is created with its known values, a
  role column of `users` has one of those types and a default among its values. That the scripts consist of such statements is
  proved of each block of statements and joined along the concatenations.
* `AccountsOutliveCommands`: a command that commits at a revision with accounts leaves the
  same accounts and the same administrators, and nothing else takes one away. It is the
  part of `RevisionChain` about the rows. `users.role` becomes `platform_role` in 002 in
  three statements (add the new column, copy, drop the old one), and so back; in between, an
  administrator is one by either column. The invariant names the stage the table `users`
  has reached at each position of each script (`UpStage`, `DownStage`) and says that from
  stage to stage the command has kept accounts and administrators (`CommandOK`).

`MigrationsChain_proofs`, for any set of accounts and any targets, given `ScriptsFit`:

* `OnlyDataStops`: no statement of a command is ever refused for a name that is missing or
  exists already, wherever earlier commands were interrupted and whatever was stored.
* `HeadServes`: every database stamped with the last revision serves the models. Its second
  hypothesis, that the upgrades of an empty database do, is what the property says of the
  first uninterrupted upgrade in TLC's run.
* `CommandsImplementChain`: the commands implement `RevisionChain`.

  The scripts are executed on data, in pieces, after downgrades; `ScriptsFit` speaks of
  none of these. What carries it over is that the schema never depends on the rows:
  `WellFormedBySchema` and `ApplyBySchema` prove, kind of statement by kind of statement,
  that of two databases with the same schema a statement is well formed in both or in
  neither, and leaves the same schema in both. The invariant `ChainInv` then says that the
  committed database has the schema of its revision and the running command's that of its
  `Position`: the database the scripts alone make up to its next statement. At the end of
  a script this is, by `ScriptsFit`, the beginning of the next, upwards or downwards. It
  needs the invariant of `Migrations_proofs`, which keeps a command at a statement of its
  script, and the step lemmas behind `AccountsOutliveCommands` give the refinement the rows.

Assumptions on constants: sets are not empty and bounds are naturals where a definition
needs it, the markers for "none" are not values of the sets they are added to
(`NullIsNoCommand` and the like), targets are revisions. `NoOverlap` is a hypothesis of the
theorems that name it, not an assumption of the model. `ScriptsFit` is one too: it is not
an ASSUME, because a script that does not fit is a fault of the migrations to be found and
not a constant to be excluded.

Only model-checked:

* `ScriptsFit` and `ServesModels(Upgraded[HeadRevision])`. They say what some 150 constant
  statements compute when they are executed one after another, by recursion over the
  scripts, and have no variable and no parameter but the empty set of accounts to start
  from: TLC evaluates them once, in the run `migrations`, and leaves no instance out. A
  proof would evaluate each statement symbolically. Nothing else is only checked of the
  migrations.
* The liveness properties `DeletionsEnd` and `RequestsEnd`, which rest on fairness and
  are out of the prover's reach.

## 5. What is not modelled

* Notes: their rules are guards on one row to which no other state refers. A note that is
  updated while it is deleted makes the request fail without an effect.
* Access control: `require_org_admin` is part of `Membership`; the other roles are tables
  without state.
* The lists of incidents and projects, filters, and sorting by other columns than
  `created_at`.
* The organization's own name and description.
* Signing and hashing: tokens cannot be forged and passwords are compared exactly. `register`
  issues no tokens: a session begins with a login.
* The content of files: `Invalid` stands for everything that validation refuses.
* `.partial` files that a crash within `LocalFileStorage._write` leaves; they have a name
  of their own and are never read.
* The order of `occurred_at` timestamps: events are kept in commit order.
* Custom failure categories, which the seed never touches.
* Of the schema: nullability, defaults, check constraints, the order of columns; the rows
  of tables other than `users`; offline migrations; migrations while the application runs.
* The repositories, which no endpoint uses; tables without code that writes them
  (predictions, recommendations, knowledge, reports, feedback, notifications, audit,
  integrations), except for their shape in `Models`; the frontend and configuration.

## 6. Plan

Every safety property of the passing runs, and every refinement, is stated by a theorem.
What could be added, in the order of what it would say about the code:

1. Notes, as a module of their own, if a note ever becomes part of another row's state
   (section 5).
2. The rows of more tables in `Schema`, when a migration first moves data other than that
   of `users`; their part of the invariant would go beside `DbInv`, their part of the chain
   beside `CommandOK`.
3. The lists of incidents and projects, with `Pagination` as they stand.
