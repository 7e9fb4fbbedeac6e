--------------------------- MODULE IncidentAtomic ---------------------------
(***************************************************************************)
(* What the endpoints of an incident promise to somebody who calls them    *)
(* one after the other: each is one step that decides on the row as it is. *)
(* Incident implements this specification when no two requests overlap on  *)
(* the incident, and does not when they do.                                *)
(***************************************************************************)
EXTENDS IncidentTransitions, Naturals, Sequences

CONSTANTS Users, NoUser, Fields, MaxEvents

VARIABLES incident, assignments, resolutions, events

avars == <<incident, assignments, resolutions, events>>

Log(type, from, to) ==
    /\ Len(events) < MaxEvents
    /\ events' = Append(events, [type |-> type, from |-> from, to |-> to])

Init ==
    /\ \E f \in Fields :
          incident = [status |-> "detected", resolvedAt |-> FALSE,
                      closedAt |-> FALSE, acknowledgedAt |-> FALSE,
                      assignee |-> NoUser, fields |-> f]
    /\ assignments = <<>>
    /\ resolutions = 0
    /\ events = <<[type |-> "incident_created", from |-> "none", to |-> "none"]>>

Update(fields) ==
    /\ Mutable(incident.status)
    /\ incident' = [incident EXCEPT !.fields = fields]
    /\ UNCHANGED <<assignments, resolutions, events>>

ChangeStatus(target) ==
    /\ TransitionPermitted(incident.status, target)
    /\ incident' = [incident EXCEPT !.status = target,
                                    !.resolvedAt = @ \/ target = "resolved",
                                    !.closedAt = @ \/ target = "closed"]
    /\ Log("status_changed", incident.status, target)
    /\ UNCHANGED <<assignments, resolutions>>

Resolve ==
    /\ TransitionPermitted(incident.status, "resolved")
    /\ incident' = [incident EXCEPT !.status = "resolved", !.resolvedAt = TRUE]
    /\ resolutions' = resolutions + 1
    /\ Log("resolution_added", "none", "none")
    /\ UNCHANGED assignments

Reopen ==
    /\ TransitionPermitted(incident.status, "reopened")
    /\ incident' = [incident EXCEPT !.status = "reopened",
                                    !.resolvedAt = FALSE, !.closedAt = FALSE]
    /\ Log("status_changed", "none", "reopened")
    /\ UNCHANGED <<assignments, resolutions>>

Assign(user) ==
    /\ Mutable(incident.status)
    /\ incident' = [incident EXCEPT !.assignee = user]
    /\ assignments' = Append(assignments, [to |-> user, open |-> TRUE])
    /\ Log("assigned", "none", "none")
    /\ UNCHANGED resolutions

(* An incident with an assignee has an open assignment to end.             *)
Unassign ==
    /\ Mutable(incident.status)
    /\ incident.assignee # NoUser
    /\ incident' = [incident EXCEPT !.assignee = NoUser]
    /\ \E i \in DOMAIN assignments :
          /\ assignments[i].open
          /\ assignments' = [assignments EXCEPT ![i].open = FALSE]
    /\ Log("unassigned", "none", "none")
    /\ UNCHANGED resolutions

Acknowledge ==
    /\ incident' = [incident EXCEPT !.acknowledgedAt = TRUE]
    /\ Log("acknowledged", "none", "none")
    /\ UNCHANGED <<assignments, resolutions>>

Next ==
    \/ \E f \in Fields : Update(f)
    \/ \E s \in IncidentStatus : ChangeStatus(s)
    \/ Resolve
    \/ Reopen
    \/ \E u \in Users : Assign(u)
    \/ Unassign
    \/ Acknowledge

Spec == Init /\ [][Next]_avars
=============================================================================
