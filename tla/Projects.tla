------------------------------ MODULE Projects ------------------------------
(***************************************************************************)
(* The projects of one organization, and the pipeline runs and incidents   *)
(* that are created under them (ProjectService, PipelineRunService.create, *)
(* IncidentService.create).                                                *)
(*                                                                         *)
(* As in module Incident a handler is a Load step, which SELECTs the       *)
(* project and decides, and a Commit step, which sends the columns that    *)
(* the handler changed with respect to the values it had loaded.           *)
(*                                                                         *)
(* A client reads the list of a project's pipeline runs page by page, up   *)
(* to the page that the last answer called the last one, while others      *)
(* create runs.                                                            *)
(***************************************************************************)
EXTENDS Sequences, Pagination

CONSTANTS
    Workers,       \* the concurrent requests
    Keys,          \* project keys; a project is told by its key
    NoKey,         \* the pipeline run or the project of no request
    Details,       \* values of the columns that update assigns
    MaxRuns,       \* bound: pipeline runs
    MaxIncidents   \* bound: incidents

ASSUME NoKeyAssumption == NoKey \notin Keys
ASSUME DetailsAssumption == Details # {}
ASSUME BoundsAssumption == MaxRuns \in Nat /\ MaxIncidents \in Nat

VARIABLES
    projects,      \* the committed rows of projects, by key
    pipelineRuns,  \* the projects of the rows of pipeline_runs, in commit order
    incidents,     \* the rows of incidents, in commit order
    req,           \* what each request in flight has loaded
    paging         \* how far the client that reads the list of runs is

vars == <<projects, pipelineRuns, incidents, req, paging>>

Existing == DOMAIN projects

(* No code sets the status paused.  archivedAt: archived_at IS NOT NULL.   *)
Project == [status: {"active", "archived"}, archivedAt: BOOLEAN, details: Details]

(* run: the position in pipelineRuns of the run that pipeline_run_id names, *)
(* 0 when it is NULL.                                                      *)
Incident == [project: Keys, run: Nat]

RunsOf(k) == {i \in DOMAIN pipelineRuns : pipelineRuns[i] = k}

(* next: the page to ask for; pages: total_pages of the last answer, 1     *)
(* before there is one; due: the runs that existed when the client began;  *)
(* seen: those it has been given.                                          *)
Paging == [project: Keys \cup {NoKey}, size: 1..MAX_PAGE_SIZE,
           next: Nat \ {0}, pages: Nat,
           due: SUBSET (1..MaxRuns), seen: SUBSET (1..MaxRuns)]

NoPaging == [project |-> NoKey, size |-> 1, next |-> 1, pages |-> 0,
             due |-> {}, seen |-> {}]

PagingEnded == paging.next > paging.pages

-----------------------------------------------------------------------------
Op == {"idle", "create", "update", "archive", "restore", "create_run",
       "create_incident", "list_runs"}

Request == [op: Op, project: Keys \cup {NoKey}, loaded: Project,
            details: Details, run: Nat,
            total: Nat]   \* the number of rows a list has

NoRequest ==
    LET d == CHOOSE d \in Details : TRUE
    IN  [op |-> "idle", project |-> NoKey, details |-> d, run |-> 0, total |-> 0,
         loaded |-> [status |-> "active", archivedAt |-> FALSE, details |-> d]]

(* A request for the project k that get has found.                         *)
Loaded(op, k) == [NoRequest EXCEPT !.op = op, !.project = k, !.loaded = projects[k]]

Receive(w, r) ==
    /\ req[w].op = "idle"
    /\ req' = [req EXCEPT ![w] = r]
    /\ UNCHANGED <<projects, pipelineRuns, incidents, paging>>

Finish(w) == req' = [req EXCEPT ![w] = NoRequest]

Flushed(current, loaded, assigned) ==
    IF assigned = loaded THEN current ELSE assigned

Active(k) == projects[k].status # "archived"

-----------------------------------------------------------------------------
Init ==
    /\ projects = << >>
    /\ pipelineRuns = << >>
    /\ incidents = << >>
    /\ req = [w \in Workers |-> NoRequest]
    /\ paging = NoPaging

(* create: the unique constraint on (organization_id, key) refuses a key   *)
(* that is taken at the flush.                                             *)
LoadCreate(w, k, details) ==
    Receive(w, [NoRequest EXCEPT !.op = "create", !.project = k, !.details = details])

CommitCreate(w) ==
    LET k == req[w].project
        row == [status |-> "active", archivedAt |-> FALSE, details |-> req[w].details]
    IN  /\ req[w].op = "create"
        /\ k \notin Existing
        /\ projects' = [x \in Existing \cup {k} |-> IF x = k THEN row ELSE projects[x]]
        /\ Finish(w)
        /\ UNCHANGED <<pipelineRuns, incidents, paging>>

LoadUpdate(w, k, details) ==
    /\ k \in Existing /\ Active(k)
    /\ Receive(w, [Loaded("update", k) EXCEPT !.details = details])

CommitUpdate(w) ==
    LET r == req[w]
        row == projects[r.project]
    IN  /\ r.op = "update"
        /\ projects' = [projects EXCEPT ![r.project] =
              [row EXCEPT !.details = Flushed(row.details, r.loaded.details, r.details)]]
        /\ Finish(w)
        /\ UNCHANGED <<pipelineRuns, incidents, paging>>

(* archive and restore ask nothing of the status.                          *)
LoadArchive(w, k) == k \in Existing /\ Receive(w, Loaded("archive", k))
LoadRestore(w, k) == k \in Existing /\ Receive(w, Loaded("restore", k))

(* The timestamp assigned is a new one, so the column is always sent.      *)
CommitArchive(w) ==
    LET r == req[w]
        row == projects[r.project]
    IN  /\ r.op = "archive"
        /\ projects' = [projects EXCEPT ![r.project] =
              [row EXCEPT !.status = Flushed(row.status, r.loaded.status, "archived"),
                          !.archivedAt = TRUE]]
        /\ Finish(w)
        /\ UNCHANGED <<pipelineRuns, incidents, paging>>

(* Faulty variant: the timestamp is kept.                                  *)
CommitRestore_KeepsArchivedAt(w) ==
    LET r == req[w]
        row == projects[r.project]
    IN  /\ r.op = "restore"
        /\ projects' = [projects EXCEPT ![r.project] =
              [row EXCEPT !.status = Flushed(row.status, r.loaded.status, "active")]]
        /\ Finish(w)
        /\ UNCHANGED <<pipelineRuns, incidents, paging>>

CommitRestore(w) ==
    LET r == req[w]
        row == projects[r.project]
    IN  /\ r.op = "restore"
        /\ projects' = [projects EXCEPT ![r.project] =
              [row EXCEPT
                 !.status = Flushed(row.status, r.loaded.status, "active"),
                 !.archivedAt = Flushed(row.archivedAt, r.loaded.archivedAt, FALSE)]]
        /\ Finish(w)
        /\ UNCHANGED <<pipelineRuns, incidents, paging>>

(* Faulty variant: _get_project in the place of _get_active_project.       *)
LoadCreateRun_AnyProject(w, k) ==
    k \in Existing /\ Receive(w, Loaded("create_run", k))

(* PipelineRunService.create.                                              *)
LoadCreateRun(w, k) ==
    /\ k \in Existing /\ Active(k)
    /\ Receive(w, Loaded("create_run", k))

CommitCreateRun(w) ==
    /\ req[w].op = "create_run"
    /\ Len(pipelineRuns) < MaxRuns
    /\ pipelineRuns' = Append(pipelineRuns, req[w].project)
    /\ Finish(w)
    /\ UNCHANGED <<projects, incidents, paging>>

(* Faulty variant: any run of the organization will do.                    *)
LoadCreateIncident_AnyRun(w, k, run) ==
    /\ k \in Existing /\ Active(k)
    /\ run \in 0..Len(pipelineRuns)
    /\ Receive(w, [Loaded("create_incident", k) EXCEPT !.run = run])

(* IncidentService.create.                                                 *)
LoadCreateIncident(w, k, run) ==
    /\ k \in Existing /\ Active(k)
    /\ run \in 0..Len(pipelineRuns)
    /\ run # 0 => pipelineRuns[run] = k
    /\ Receive(w, [Loaded("create_incident", k) EXCEPT !.run = run])

CommitCreateIncident(w) ==
    /\ req[w].op = "create_incident"
    /\ Len(incidents) < MaxIncidents
    /\ incidents' = Append(incidents, [project |-> req[w].project, run |-> req[w].run])
    /\ Finish(w)
    /\ UNCHANGED <<projects, pipelineRuns, paging>>

(* A client opens the list of the runs of project k.                       *)
OpenList(k, size) ==
    /\ k \in Existing
    /\ PagingEnded
    /\ paging' = [project |-> k, size |-> size, next |-> 1, pages |-> 1,
                  due |-> RunsOf(k), seen |-> {}]
    /\ UNCHANGED <<projects, pipelineRuns, incidents, req>>

(* PipelineRunService.list_for_project: the rows are counted ...           *)
LoadList(w) ==
    /\ \A v \in Workers : req[v].op # "list_runs"
    /\ ~PagingEnded
    /\ Receive(w, [Loaded("list_runs", paging.project) EXCEPT
                      !.total = Cardinality(RunsOf(paging.project))])

(* ... and then selected.                                                  *)
AnswerList(w) ==
    LET p == normalize_pagination(paging.next, paging.size)
    IN  /\ req[w].op = "list_runs"
        /\ paging' = [paging EXCEPT
              !.seen = paging.seen \cup Page(RunsOf(paging.project), p),
              !.pages = TotalPages(req[w].total, p.size),
              !.next = paging.next + 1]
        /\ Finish(w)
        /\ UNCHANGED <<projects, pipelineRuns, incidents>>

Rollback(w) ==
    /\ req[w].op # "idle"
    /\ Finish(w)
    /\ UNCHANGED <<projects, pipelineRuns, incidents, paging>>

Next ==
    \/ \E k \in Keys, size \in 1..MAX_PAGE_SIZE : OpenList(k, size)
    \/ \E w \in Workers :
        \/ \E k \in Keys, d \in Details : LoadCreate(w, k, d) \/ LoadUpdate(w, k, d)
        \/ \E k \in Keys : LoadArchive(w, k) \/ LoadRestore(w, k) \/ LoadCreateRun(w, k)
        \/ \E k \in Keys, run \in 0..MaxRuns : LoadCreateIncident(w, k, run)
        \/ CommitCreate(w) \/ CommitUpdate(w)
        \/ CommitArchive(w) \/ CommitRestore(w)
        \/ CommitCreateRun(w) \/ CommitCreateIncident(w)
        \/ LoadList(w) \/ AnswerList(w)
        \/ Rollback(w)

Spec == Init /\ [][Next]_vars

-----------------------------------------------------------------------------
(* Type invariant; the rows that others refer to exist, and the pipeline   *)
(* run of an incident is one of its project.                               *)
TypeOK ==
    /\ Existing \subseteq Keys
    /\ projects \in [Existing -> Project]
    /\ pipelineRuns \in Seq(Existing)
    /\ incidents \in Seq([project: Existing, run: 0..Len(pipelineRuns)])
    /\ \A i \in DOMAIN incidents :
          LET run == incidents[i].run
          IN  run # 0 => pipelineRuns[run] = incidents[i].project
    /\ req \in [Workers -> Request]
    /\ paging \in Paging

(* list_for_project: a client that has read the last page has been given   *)
(* every run that was there when it opened the list, however many runs     *)
(* were created between its requests and moved the others to later pages.  *)
PagesMissNothing == PagingEnded => paging.due \subseteq paging.seen

(* archive and restore: archived_at is the archive time of the projects    *)
(* that are archived, and of no other.                                     *)
ArchivedAtMatchesStatus ==
    \A k \in Existing : projects[k].archivedAt <=> projects[k].status = "archived"

(* A project's details and the rows created under it.                      *)
IncidentsOf(k) == {i \in DOMAIN incidents : incidents[i].project = k}

Contents(k) == [details |-> projects[k].details,
                runs |-> RunsOf(k),
                incidents |-> {<<i, incidents[i]>> : i \in IncidentsOf(k)}]

(* _get_writable_project, "Archived projects cannot receive new incidents  *)
(* unless restored", _get_active_project and update: an archived project   *)
(* gets no incident and no pipeline run, and its details do not change.    *)
ArchivedProjectsAreFrozen ==
    [][\A k \in Existing : ~Active(k) => Contents(k)' = Contents(k)]_vars
=============================================================================
