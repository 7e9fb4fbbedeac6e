------------------------------ MODULE Incident ------------------------------
(***************************************************************************)
(* The life of one row of the table incidents, as the HTTP requests that   *)
(* work on it see it.                                                      *)
(*                                                                         *)
(* A request has a database session of its own (get_db_session).  Its      *)
(* handler SELECTs the incident, decides on the values it has loaded, and  *)
(* assigns to the attributes of the loaded object.  The session sends its  *)
(* UPDATE and INSERTs at the flush that ends the handler, and they become  *)
(* visible to other sessions at the commit that follows.  No SELECT locks  *)
(* the row and the table has no version column, so between the SELECT and  *)
(* the commit other requests may commit.  A handler is therefore a Load    *)
(* step, which keeps the loaded row in req[w], and a Commit step, which    *)
(* writes to the row as it is by then.                                     *)
(*                                                                         *)
(* The UPDATE holds only the columns whose assigned value differs from the *)
(* loaded one; see Flushed.                                                *)
(***************************************************************************)
EXTENDS IncidentTransitions, Naturals, Sequences, FiniteSets

CONSTANTS
    Workers,    \* the concurrent requests, each with its own session
    Users,      \* the active members an incident may be assigned to
    NoUser,     \* current_assignee_id IS NULL
    Fields,     \* values of the editable fields (title, severity, priority, tags)
    MaxEvents   \* bound: no request commits once the timeline is this long

ASSUME NoUserAssumption == NoUser \notin Users
ASSUME FieldsAssumption == Fields # {}
ASSUME MaxEventsAssumption == MaxEvents \in Nat

VARIABLES
    incident,     \* the committed row of the table incidents
    assignments,  \* its rows of incident_assignments, in commit order
    resolutions,  \* how many rows of incident_resolutions it has
    events,       \* its rows of incident_events, in commit order
    req           \* what each request in flight has loaded and will write

vars == <<incident, assignments, resolutions, events, req>>
tables == <<incident, assignments, resolutions, events>>

-----------------------------------------------------------------------------
(* The tables.  A timestamp column is TRUE when it is not NULL.            *)

Row == [status: IncidentStatus,
        resolvedAt: BOOLEAN,
        closedAt: BOOLEAN,
        acknowledgedAt: BOOLEAN,
        assignee: Users \cup {NoUser},
        fields: Fields]

Assignment == [to: Users, open: BOOLEAN]   \* open: unassigned_at IS NULL

EventType == {"incident_created", "status_changed", "assigned", "unassigned",
              "acknowledged", "resolution_added"}

NoStatus == "none"

Event == [type: EventType,
          from: IncidentStatus \cup {NoStatus},
          to: IncidentStatus \cup {NoStatus}]

PlainEvent(type) == [type |-> type, from |-> NoStatus, to |-> NoStatus]

(* The row IncidentService.create inserts.                                 *)
CreatedRow(fields) ==
    [status |-> "detected", resolvedAt |-> FALSE, closedAt |-> FALSE,
     acknowledgedAt |-> FALSE, assignee |-> NoUser, fields |-> fields]

(* What the session's UPDATE leaves in a column that now holds current,    *)
(* when the handler loaded one value and assigned another: an assignment   *)
(* of the loaded value is no change, and the column is left out.           *)
Flushed(current, loaded, assigned) ==
    IF assigned = loaded THEN current ELSE assigned

-----------------------------------------------------------------------------
(* Requests.  assignment is the position in assignments of the row that    *)
(* unassign has chosen to close, 0 when its SELECT found none.             *)

Op == {"idle", "update", "change_status", "resolve", "reopen", "assign",
       "unassign_loaded", "unassign", "acknowledge"}

Request == [op: Op,
            loaded: Row,
            target: IncidentStatus \cup {NoStatus},
            user: Users \cup {NoUser},
            fields: Fields,
            assignment: Nat]

Idle(w) == req[w].op = "idle"

NoRequest ==
    LET f == CHOOSE f \in Fields : TRUE
    IN  [op |-> "idle", loaded |-> CreatedRow(f), target |-> NoStatus,
         user |-> NoUser, fields |-> f, assignment |-> 0]

Loaded(op) == [NoRequest EXCEPT !.op = op, !.loaded = incident]

Receive(w, r) ==
    /\ Idle(w)
    /\ req' = [req EXCEPT ![w] = r]
    /\ UNCHANGED tables

(* The end of a request that has committed.                                *)
Finish(w) == req' = [req EXCEPT ![w] = NoRequest]

(* _record_event: the row is committed with the rest of the transaction.   *)
RecordEvent(e) ==
    /\ Len(events) < MaxEvents
    /\ events' = Append(events, e)

-----------------------------------------------------------------------------
Init ==
    /\ \E f \in Fields : incident = CreatedRow(f)
    /\ assignments = <<>>
    /\ resolutions = 0
    /\ events = <<PlainEvent("incident_created")>>
    /\ req = [w \in Workers |-> NoRequest]

(* IncidentService.update records no event.                                *)
LoadUpdate(w, fields) ==
    /\ Mutable(incident.status)
    /\ Receive(w, [Loaded("update") EXCEPT !.fields = fields])

CommitUpdate(w) ==
    /\ req[w].op = "update"
    /\ incident' = [incident EXCEPT
            !.fields = Flushed(@, req[w].loaded.fields, req[w].fields)]
    /\ Finish(w)
    /\ UNCHANGED <<assignments, resolutions, events>>

(* Faulty variants: no guard; only the closing time is stamped; the two    *)
(* statuses of the event are swapped.                                      *)
LoadChangeStatus_Unguarded(w, target) ==
    Receive(w, [Loaded("change_status") EXCEPT !.target = target])

CommitChangeStatus_NoResolvedAt(w) ==
    /\ req[w].op = "change_status"
    /\ incident' = [incident EXCEPT
            !.status = Flushed(@, req[w].loaded.status, req[w].target),
            !.closedAt = @ \/ req[w].target = "closed"]
    /\ RecordEvent([type |-> "status_changed",
                    from |-> req[w].loaded.status, to |-> req[w].target])
    /\ Finish(w)
    /\ UNCHANGED <<assignments, resolutions>>

CommitChangeStatus_SwappedEvent(w) ==
    /\ req[w].op = "change_status"
    /\ incident' = [incident EXCEPT
            !.status = Flushed(@, req[w].loaded.status, req[w].target),
            !.resolvedAt = @ \/ req[w].target = "resolved",
            !.closedAt = @ \/ req[w].target = "closed"]
    /\ RecordEvent([type |-> "status_changed",
                    from |-> req[w].target, to |-> req[w].loaded.status])
    /\ Finish(w)
    /\ UNCHANGED <<assignments, resolutions>>

(* IncidentService.change_status: a change to reopened leaves resolvedAt   *)
(* and closedAt as they are, and one to resolved inserts no resolution.    *)
LoadChangeStatus(w, target) ==
    /\ TransitionPermitted(incident.status, target)
    /\ Receive(w, [Loaded("change_status") EXCEPT !.target = target])

CommitChangeStatus(w) ==
    LET loaded == req[w].loaded
        target == req[w].target
    IN  /\ req[w].op = "change_status"
        /\ incident' = [incident EXCEPT
                !.status = Flushed(@, loaded.status, target),
                !.resolvedAt = @ \/ target = "resolved",
                !.closedAt = @ \/ target = "closed"]
        /\ RecordEvent([type |-> "status_changed",
                        from |-> loaded.status, to |-> target])
        /\ Finish(w)
        /\ UNCHANGED <<assignments, resolutions>>

(* ResolutionService.resolve                                               *)
LoadResolve(w) ==
    /\ TransitionPermitted(incident.status, "resolved")
    /\ Receive(w, Loaded("resolve"))

(* Faulty variant: the resolution is saved without its timeline event.     *)
CommitResolve_Silent(w) ==
    /\ req[w].op = "resolve"
    /\ incident' = [incident EXCEPT
            !.status = Flushed(@, req[w].loaded.status, "resolved"),
            !.resolvedAt = TRUE]
    /\ resolutions' = resolutions + 1
    /\ Finish(w)
    /\ UNCHANGED <<assignments, events>>

CommitResolve(w) ==
    /\ req[w].op = "resolve"
    /\ incident' = [incident EXCEPT
            !.status = Flushed(@, req[w].loaded.status, "resolved"),
            !.resolvedAt = TRUE]
    /\ resolutions' = resolutions + 1
    /\ RecordEvent(PlainEvent("resolution_added"))
    /\ Finish(w)
    /\ UNCHANGED assignments

(* Faulty variants: no guard; closed_at survives.                          *)
LoadReopen_Unguarded(w) == Receive(w, Loaded("reopen"))

CommitReopen_KeepsClosedAt(w) ==
    /\ req[w].op = "reopen"
    /\ incident' = [incident EXCEPT
            !.status = Flushed(@, req[w].loaded.status, "reopened"),
            !.resolvedAt = Flushed(@, req[w].loaded.resolvedAt, FALSE)]
    /\ RecordEvent([type |-> "status_changed",
                    from |-> NoStatus, to |-> "reopened"])
    /\ Finish(w)
    /\ UNCHANGED <<assignments, resolutions>>

(* ResolutionService.reopen: its event names only the new status.          *)
LoadReopen(w) ==
    /\ TransitionPermitted(incident.status, "reopened")
    /\ Receive(w, Loaded("reopen"))

CommitReopen(w) ==
    LET loaded == req[w].loaded
    IN  /\ req[w].op = "reopen"
        /\ incident' = [incident EXCEPT
                !.status = Flushed(@, loaded.status, "reopened"),
                !.resolvedAt = Flushed(@, loaded.resolvedAt, FALSE),
                !.closedAt = Flushed(@, loaded.closedAt, FALSE)]
        /\ RecordEvent([type |-> "status_changed",
                        from |-> NoStatus, to |-> "reopened"])
        /\ Finish(w)
        /\ UNCHANGED <<assignments, resolutions>>

(* Faulty variant: the assignee of a settled incident may be changed.      *)
LoadAssign_Unguarded(w, user) ==
    Receive(w, [Loaded("assign") EXCEPT !.user = user])

(* IncidentService.assign: an earlier open assignment stays open.          *)
LoadAssign(w, user) ==
    /\ Mutable(incident.status)
    /\ Receive(w, [Loaded("assign") EXCEPT !.user = user])

CommitAssign(w) ==
    LET user == req[w].user
    IN  /\ req[w].op = "assign"
        /\ incident' = [incident EXCEPT
                !.assignee = Flushed(@, req[w].loaded.assignee, user)]
        /\ assignments' = Append(assignments, [to |-> user, open |-> TRUE])
        /\ RecordEvent(PlainEvent("assigned"))
        /\ Finish(w)
        /\ UNCHANGED resolutions

(* IncidentService.unassign returns early when nobody is assigned.  It     *)
(* SELECTs the incident, then, in a second statement that sees what was    *)
(* committed in between, some open assignment.                             *)
LoadUnassign(w) ==
    /\ Mutable(incident.status)
    /\ incident.assignee # NoUser
    /\ Receive(w, Loaded("unassign_loaded"))

OpenAssignments == {i \in DOMAIN assignments : assignments[i].open}

FindOpenAssignment(w) ==
    /\ req[w].op = "unassign_loaded"
    /\ \E i \in (IF OpenAssignments = {} THEN {0} ELSE OpenAssignments) :
            req' = [req EXCEPT
                ![w] = [@ EXCEPT !.op = "unassign", !.assignment = i]]
    /\ UNCHANGED tables

(* Faulty variants: the row is deleted, not ended; every open row is       *)
(* ended; the assignee is cleared only while it is the one loaded.         *)
CommitUnassign_Deletes(w) ==
    /\ req[w].op = "unassign"
    /\ incident' = [incident EXCEPT !.assignee = NoUser]
    /\ assignments' = IF assignments = <<>> THEN <<>> ELSE Tail(assignments)
    /\ RecordEvent(PlainEvent("unassigned"))
    /\ Finish(w)
    /\ UNCHANGED resolutions

CommitUnassign_EndsAll(w) ==
    /\ req[w].op = "unassign"
    /\ incident' = [incident EXCEPT !.assignee = NoUser]
    /\ assignments' = [i \in DOMAIN assignments |->
                           [assignments[i] EXCEPT !.open = FALSE]]
    /\ RecordEvent(PlainEvent("unassigned"))
    /\ Finish(w)
    /\ UNCHANGED resolutions

CommitUnassign_ClearsIfUnchanged(w) ==
    LET chosen == req[w].assignment
    IN  /\ req[w].op = "unassign"
        /\ incident' = [incident EXCEPT
                !.assignee = IF @ = req[w].loaded.assignee THEN NoUser ELSE @]
        /\ assignments' = IF chosen = 0 THEN assignments ELSE
                          [assignments EXCEPT ![chosen].open = FALSE]
        /\ RecordEvent(PlainEvent("unassigned"))
        /\ Finish(w)
        /\ UNCHANGED resolutions

CommitUnassign(w) ==
    LET chosen == req[w].assignment
    IN  /\ req[w].op = "unassign"
        /\ incident' = [incident EXCEPT
                !.assignee = Flushed(@, req[w].loaded.assignee, NoUser)]
        /\ assignments' = IF chosen = 0 THEN assignments
                          ELSE [assignments EXCEPT ![chosen].open = FALSE]
        /\ RecordEvent(PlainEvent("unassigned"))
        /\ Finish(w)
        /\ UNCHANGED resolutions

(* IncidentService.acknowledge asks neither of the two rules.              *)
LoadAcknowledge(w) == Receive(w, Loaded("acknowledge"))

CommitAcknowledge(w) ==
    /\ req[w].op = "acknowledge"
    /\ incident' = [incident EXCEPT !.acknowledgedAt = TRUE]
    /\ RecordEvent(PlainEvent("acknowledged"))
    /\ Finish(w)
    /\ UNCHANGED <<assignments, resolutions>>

(* The session rolls back: an error after the load, a lost connection, or  *)
(* the end of the server process.                                          *)
Rollback(w) ==
    /\ ~Idle(w)
    /\ Finish(w)
    /\ UNCHANGED tables

Load(w) ==
    \/ \E f \in Fields : LoadUpdate(w, f)
    \/ \E s \in IncidentStatus : LoadChangeStatus(w, s)
    \/ LoadResolve(w)
    \/ LoadReopen(w)
    \/ \E u \in Users : LoadAssign(w, u)
    \/ LoadUnassign(w)
    \/ LoadAcknowledge(w)

Commit(w) ==
    \/ CommitUpdate(w)
    \/ CommitChangeStatus(w)
    \/ CommitResolve(w)
    \/ CommitReopen(w)
    \/ CommitAssign(w)
    \/ CommitUnassign(w)
    \/ CommitAcknowledge(w)

Next == \E w \in Workers :
            Load(w) \/ FindOpenAssignment(w) \/ Commit(w) \/ Rollback(w)

Spec == Init /\ [][Next]_vars
-----------------------------------------------------------------------------
(* Type invariant: the tables hold rows of their types and every request   *)
(* in flight holds a row that was loaded from them (models Incident,       *)
(* IncidentAssignment, IncidentEvent).                                     *)
TypeOK ==
    /\ incident \in Row
    /\ assignments \in Seq(Assignment)
    /\ resolutions \in Nat
    /\ events \in Seq(Event)
    /\ req \in [Workers -> Request]
    /\ \A w \in Workers : req[w].assignment \in 0 .. Len(assignments)

(* However requests overlap, an incident that has an assignee has an open  *)
(* assignment row for that user: assign and unassign write the two tables  *)
(* in one transaction, and unassign, whose choice of the row may be stale, *)
(* clears the assignee of whatever row it finds.                           *)
AssigneeHasOpenAssignment ==
    incident.assignee # NoUser =>
        \E i \in DOMAIN assignments :
            assignments[i] = [to |-> incident.assignee, open |-> TRUE]

(* The status an event of the timeline says the incident has reached.      *)
Reached(e) ==
    CASE e.type = "incident_created" -> "detected"
      [] e.type = "resolution_added" -> "resolved"
      [] OTHER -> e.to

ReachedBefore(status, n) == \E i \in 1 .. n - 1 : Reached(events[i]) = status

(* However requests overlap, the committed status is one the timeline      *)
(* names: no request writes a status without its event, and none is lost.  *)
StatusOnTimeline == ReachedBefore(incident.status, Len(events) + 1)

(* However requests overlap, every status on the timeline was a permitted  *)
(* change from one the incident had reached earlier, and the "from" of a   *)
(* status_changed event is such a status (validate_status_transition asks  *)
(* about the loaded status, which some committed request wrote).           *)
TimelineIsJustified ==
    \A n \in 2 .. Len(events) :
        LET e == events[n]
        IN  Reached(e) # NoStatus =>
                \E s \in IncidentStatus :
                    /\ ReachedBefore(s, n)
                    /\ TransitionPermitted(s, Reached(e))
                    /\ e.from \in {s, NoStatus}

(* However requests overlap, an incident is closed only after it has been  *)
(* resolved, and reopened only after it has been settled in some way: the  *)
(* two endpoints that reopen (change_status, resolution_service.reopen)    *)
(* and the one that closes leave no such event earlier than its cause.     *)
Settled == {"resolved", "closed", "ignored", "false_positive"}

InOrder(status, n) ==
    /\ status = "closed" => ReachedBefore("resolved", n)
    /\ status = "reopened" => \E s \in Settled : ReachedBefore(s, n)

ClosedAndReopenedInOrder ==
    \A n \in DOMAIN events : InOrder(events[n].to, n)

(* However requests overlap, each assignment row that was closed is        *)
(* accounted for by an unassigned event of its own: one call of unassign   *)
(* closes at most one row.                                                 *)
ReleasesAreRecorded ==
    Cardinality({i \in DOMAIN assignments : ~assignments[i].open})
        <= Cardinality({n \in DOMAIN events : events[n].type = "unassigned"})

(* What a request in flight knows: the arguments its handler was given,    *)
(* the guard it passed on the loaded row, and that the loaded status was   *)
(* committed.  It makes the invariants above inductive.                    *)
RequestsAreJustified ==
    \A w \in Workers :
        LET r == req[w]
        IN  /\ r.op # "idle" => ReachedBefore(r.loaded.status, Len(events) + 1)
            /\ r.op = "change_status" =>
                  /\ r.target \in IncidentStatus
                  /\ TransitionPermitted(r.loaded.status, r.target)
            /\ r.op = "resolve" => TransitionPermitted(r.loaded.status, "resolved")
            /\ r.op = "reopen" => TransitionPermitted(r.loaded.status, "reopened")
            /\ r.op = "assign" => r.user \in Users
            /\ r.op \in {"unassign_loaded", "unassign"} =>
                  r.loaded.assignee \in Users

-----------------------------------------------------------------------------
(* What the rules promise of the row itself.  These hold when no two       *)
(* requests overlap on the incident.                                       *)

(* validate_status_transition, "Raise InvalidTransitionError when the      *)
(* transition is not permitted": the row changes status only as the rules  *)
(* permit.                                                                 *)
StatusStepsPermitted ==
    [][TransitionPermitted(incident.status, incident'.status)]_vars

(* assert_incident_mutable, "Closed or resolved incidents require reopen   *)
(* before field edits": neither the editable fields nor the assignee of a  *)
(* resolved or closed incident change.                                     *)
EditsRequireReopen ==
    [][ (incident'.fields # incident.fields
            \/ incident'.assignee # incident.assignee)
        => Mutable(incident.status) ]_vars

(* A resolved or closed incident has its resolved_at, and a closed one its *)
(* closed_at, whichever of the two endpoints changed the status and        *)
(* however often it was reopened in between.                               *)
SettledHasTimestamps ==
    /\ incident.status \in TerminalForEdit => incident.resolvedAt
    /\ incident.status = "closed" => incident.closedAt

(* The status of the row is the one the last event that names a status     *)
(* gave it, so that the timeline can be read as the history of the row.    *)
StatusIsLastOnTimeline ==
    \E n \in DOMAIN events :
        /\ Reached(events[n]) = incident.status
        /\ \A m \in n + 1 .. Len(events) : Reached(events[m]) = NoStatus

(* The assignment history (docs/DATABASE_ARCHITECTURE.md, "unassigned_at:  *)
(* End of assignment"): an assignment whose user is no longer the assignee *)
(* has ended.                                                              *)
AssignmentHistoryIsClosed ==
    \A i \in DOMAIN assignments :
        assignments[i].open => assignments[i].to = incident.assignee
-----------------------------------------------------------------------------
(* Requests that do not overlap are atomic: with one of them at a time the *)
(* loads are invisible and every commit is the step that IncidentAtomic    *)
(* promises of its endpoint.                                               *)
Atomic == INSTANCE IncidentAtomic
ImplementsAtomic == Atomic!Spec
=============================================================================
