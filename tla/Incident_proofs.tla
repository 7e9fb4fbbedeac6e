--------------------------- MODULE Incident_proofs ---------------------------
(***************************************************************************)
(* Theorems about Incident, for every set of workers and users.            *)
(***************************************************************************)
EXTENDS Incident, FiniteSetTheorems, TLAPS

(* The idle request is well typed.                                         *)
LEMMA NoRequestType ==
    /\ NoRequest \in Request
    /\ NoRequest.op = "idle"
    /\ NoRequest.assignment = 0
<1>1. \E f \in Fields : TRUE
  BY FieldsAssumption
<1>2. (CHOOSE f \in Fields : TRUE) \in Fields
  BY <1>1
<1> QED
  BY <1>2 DEF NoRequest, Request, Op, CreatedRow, Row, IncidentStatus

(* A request that has just loaded the row is well typed.                   *)
LEMMA LoadedType ==
    ASSUME incident \in Row, NEW op \in Op
    PROVE  /\ Loaded(op) \in Request
           /\ Loaded(op).op = op
           /\ Loaded(op).loaded = incident
           /\ Loaded(op).assignment = 0
BY NoRequestType DEF Loaded, Request

-----------------------------------------------------------------------------
(* The type invariant and what requests in flight know, together.          *)
Typed == TypeOK /\ RequestsAreJustified

LEMMA InitTyped == Init => Typed
<1> SUFFICES ASSUME Init PROVE Typed
  OBVIOUS
<1>1. incident \in Row
  BY DEF Init, CreatedRow, Row, IncidentStatus
<1>2. /\ events \in Seq(Event)
      /\ assignments \in Seq(Assignment)
      /\ Len(assignments) = 0
  BY DEF Init, PlainEvent, Event, EventType, NoStatus
<1>3. req \in [Workers -> Request]
  BY NoRequestType DEF Init
<1>4. RequestsAreJustified
  BY NoRequestType DEF Init, RequestsAreJustified
<1>5. \A w \in Workers : req[w].assignment \in 0 .. Len(assignments)
  BY <1>2, NoRequestType DEF Init
<1> QED
  BY <1>1, <1>2, <1>3, <1>4, <1>5 DEF Typed, TypeOK, Init
-----------------------------------------------------------------------------
(* The timeline grows at its end: what it named it still names.            *)
LEMMA TimelineGrows ==
    ASSUME events \in Seq(Event), NEW e \in Event, events' = Append(events, e)
    PROVE  /\ events' \in Seq(Event)
           /\ Len(events') = Len(events) + 1
           /\ events'[Len(events) + 1] = e
           /\ \A i \in 1 .. Len(events) : events'[i] = events[i]
           /\ \A s : ReachedBefore(s, Len(events) + 1) =>
                    ReachedBefore(s, Len(events) + 1)'
           /\ ReachedBefore(Reached(e), Len(events) + 1)'
<1>1. /\ events' \in Seq(Event)
      /\ Len(events) \in Nat
      /\ Len(events') = Len(events) + 1
      /\ events'[Len(events) + 1] = e
      /\ \A i \in 1 .. Len(events) : events'[i] = events[i]
  OBVIOUS
<1>2. \A s : ReachedBefore(s, Len(events) + 1) =>
              ReachedBefore(s, Len(events) + 1)'
  <2> TAKE s
  <2> HAVE ReachedBefore(s, Len(events) + 1)
  <2>1. PICK i \in 1 .. Len(events) : Reached(events[i]) = s
    BY <1>1 DEF ReachedBefore
  <2>2. /\ i \in 1 .. (Len(events') + 1) - 1
        /\ Reached(events'[i]) = s
    BY <1>1, <2>1
  <2> QED
    BY <2>2 DEF ReachedBefore
<1>3. ReachedBefore(Reached(e), Len(events) + 1)'
  <2>1. /\ Len(events) + 1 \in 1 .. (Len(events') + 1) - 1
        /\ Reached(events'[Len(events) + 1]) = Reached(e)
    BY <1>1
  <2> QED
    BY <2>1 DEF ReachedBefore
<1> QED
  BY <1>1, <1>2, <1>3

(* The end of a request, committed or rolled back, leaves the others       *)
(* well typed and justified.                                               *)
LEMMA FinishTyped ==
    ASSUME Typed, NEW w \in Workers, Finish(w),
           \/ events' = events
           \/ \E e \in Event : events' = Append(events, e),
           assignments' \in Seq(Assignment),
           Len(assignments) <= Len(assignments')
    PROVE  /\ req' \in [Workers -> Request]
           /\ \A v \in Workers : req'[v].assignment \in 0 .. Len(assignments')
           /\ RequestsAreJustified'
<1>1. /\ req' \in [Workers -> Request]
      /\ req'[w] = NoRequest
      /\ \A v \in Workers : v # w => req'[v] = req[v]
  BY NoRequestType DEF Finish, Typed, TypeOK
<1>2. ASSUME NEW v \in Workers
      PROVE  req'[v].assignment \in 0 .. Len(assignments')
  <2>1. CASE v = w
    BY <1>1, <2>1, NoRequestType DEF Typed, TypeOK
  <2>2. CASE v # w
    <3>1. req[v].assignment \in 0 .. Len(assignments)
      BY DEF Typed, TypeOK
    <3>2. Len(assignments) \in Nat /\ Len(assignments') \in Nat
      BY DEF Typed, TypeOK
    <3> QED
      BY <1>1, <2>2, <3>1, <3>2
  <2> QED
    BY <2>1, <2>2
<1>3. \A s : ReachedBefore(s, Len(events) + 1) =>
              ReachedBefore(s, Len(events) + 1)'
  <2>1. CASE events' = events
    BY <2>1 DEF ReachedBefore
  <2>2. ASSUME NEW e \in Event, events' = Append(events, e)
        PROVE  \A s : ReachedBefore(s, Len(events) + 1) =>
                       ReachedBefore(s, Len(events) + 1)'
    BY <2>2, TimelineGrows DEF Typed, TypeOK
  <2> QED
    BY <2>1, <2>2
<1>4. RequestsAreJustified'
  <2>1. RequestsAreJustified
    BY DEF Typed
  <2> QED
    BY <1>1, <1>3, <2>1, NoRequestType DEF RequestsAreJustified
<1> QED
  BY <1>1, <1>2, <1>4
(* What the guards of a load step say of the request it starts.            *)
Justified(r) ==
    /\ ReachedBefore(r.loaded.status, Len(events) + 1)
    /\ r.op = "change_status" =>
          /\ r.target \in IncidentStatus
          /\ TransitionPermitted(r.loaded.status, r.target)
    /\ r.op = "resolve" => TransitionPermitted(r.loaded.status, "resolved")
    /\ r.op = "reopen" => TransitionPermitted(r.loaded.status, "reopened")
    /\ r.op = "assign" => r.user \in Users
    /\ r.op \in {"unassign_loaded", "unassign"} => r.loaded.assignee \in Users

(* A request begins with a well typed, justified load.                     *)
LEMMA ReceiveTyped ==
    ASSUME Typed, NEW w \in Workers, NEW r \in Request, Receive(w, r),
           Justified(r), r.assignment = 0
    PROVE  Typed'
<1>1. /\ req' \in [Workers -> Request]
      /\ req'[w] = r
      /\ \A v \in Workers : v # w => req'[v] = req[v]
      /\ UNCHANGED tables
  BY DEF Receive, Typed, TypeOK
<1>2. ASSUME NEW v \in Workers
      PROVE  req'[v].assignment \in 0 .. Len(assignments)
  BY <1>1 DEF Typed, TypeOK
<1>3. TypeOK'
  BY <1>1, <1>2 DEF Typed, TypeOK, tables
<1>4. RequestsAreJustified'
  <2>1. /\ RequestsAreJustified
        /\ \A s, n : ReachedBefore(s, n)' <=> ReachedBefore(s, n)
        /\ events' = events
    BY <1>1 DEF Typed, ReachedBefore, tables
  <2> QED
    BY <1>1, <2>1 DEF RequestsAreJustified, Justified
<1> QED
  BY <1>3, <1>4 DEF Typed

(* The status a request loads is on the timeline, because it is the        *)
(* committed one.                                                          *)
LEMMA LoadTyped ==
    ASSUME Typed, StatusOnTimeline, NEW w \in Workers, Load(w)
    PROVE  Typed'
<1>1. incident \in Row /\ ReachedBefore(incident.status, Len(events) + 1)
  BY DEF Typed, TypeOK, StatusOnTimeline
<1>2. ASSUME NEW f \in Fields, LoadUpdate(w, f)
      PROVE  Typed'
  <2> DEFINE r == [Loaded("update") EXCEPT !.fields = f]
  <2>1. /\ r \in Request /\ r.op = "update" /\ r.loaded = incident
        /\ r.assignment = 0
    BY <1>1, <1>2, LoadedType DEF Op, Request
  <2>2. Justified(r) /\ Receive(w, r)
    BY <1>1, <1>2, <2>1 DEF Justified, LoadUpdate
  <2> HIDE DEF r
  <2> QED
    BY <2>1, <2>2, ReceiveTyped
<1>3. ASSUME NEW s \in IncidentStatus, LoadChangeStatus(w, s)
      PROVE  Typed'
  <2> DEFINE r == [Loaded("change_status") EXCEPT !.target = s]
  <2>1. /\ r \in Request /\ r.op = "change_status" /\ r.loaded = incident
        /\ r.target = s /\ r.assignment = 0
    BY <1>1, <1>3, LoadedType DEF Op, Request
  <2>2. Justified(r) /\ Receive(w, r)
    BY <1>1, <1>3, <2>1 DEF Justified, LoadChangeStatus
  <2> HIDE DEF r
  <2> QED
    BY <2>1, <2>2, ReceiveTyped
<1>4. ASSUME NEW op \in {"resolve", "reopen", "acknowledge", "unassign_loaded"},
             Receive(w, Loaded(op)),
             op = "resolve" => TransitionPermitted(incident.status, "resolved"),
             op = "reopen" => TransitionPermitted(incident.status, "reopened"),
             op = "unassign_loaded" => incident.assignee # NoUser
      PROVE  Typed'
  <2>1. /\ Loaded(op) \in Request /\ Loaded(op).op = op
        /\ Loaded(op).loaded = incident /\ Loaded(op).assignment = 0
    BY <1>1, <1>4, LoadedType DEF Op
  <2>2. Justified(Loaded(op))
    BY <1>1, <1>4, <2>1 DEF Justified, Row
  <2> QED
    BY <1>4, <2>1, <2>2, ReceiveTyped
<1>5. ASSUME NEW u \in Users, LoadAssign(w, u)
      PROVE  Typed'
  <2> DEFINE r == [Loaded("assign") EXCEPT !.user = u]
  <2>1. /\ r \in Request /\ r.op = "assign" /\ r.loaded = incident
        /\ r.user = u /\ r.assignment = 0
    BY <1>1, <1>5, LoadedType DEF Op, Request
  <2>2. Justified(r) /\ Receive(w, r)
    BY <1>1, <1>5, <2>1 DEF Justified, LoadAssign
  <2> HIDE DEF r
  <2> QED
    BY <2>1, <2>2, ReceiveTyped
<1>6. CASE LoadResolve(w) \/ LoadReopen(w) \/ LoadUnassign(w) \/ LoadAcknowledge(w)
  BY <1>4, <1>6 DEF LoadResolve, LoadReopen, LoadUnassign, LoadAcknowledge
<1> QED
  BY <1>2, <1>3, <1>5, <1>6 DEF Load

(* The second SELECT of unassign.                                          *)
LEMMA FindTyped ==
    ASSUME Typed, NEW w \in Workers, FindOpenAssignment(w)
    PROVE  Typed'
<1> DEFINE found(i) == [req[w] EXCEPT !.op = "unassign", !.assignment = i]
<1>1. PICK i \in 0 .. Len(assignments) :
          req' = [req EXCEPT ![w] = found(i)]
  <2>1. /\ Len(assignments) \in Nat
        /\ DOMAIN assignments = 1 .. Len(assignments)
    BY DEF Typed, TypeOK
  <2>2. (IF OpenAssignments = {} THEN {0} ELSE OpenAssignments)
            \subseteq 0 .. Len(assignments)
    BY <2>1 DEF OpenAssignments
  <2> QED
    BY <2>2 DEF FindOpenAssignment
<1>2. /\ req[w] \in Request
      /\ found(i) \in Request
      /\ found(i).op = "unassign" /\ found(i).assignment = i
      /\ found(i).loaded = req[w].loaded
  <2>1. i \in Nat /\ req[w] \in Request
    BY DEF Typed, TypeOK
  <2> QED
    BY <2>1 DEF Request, Op
<1> HIDE DEF found
<1>3. /\ req' \in [Workers -> Request]
      /\ req'[w] = found(i)
      /\ \A v \in Workers : v # w => req'[v] = req[v]
      /\ req[w].op = "unassign_loaded"
      /\ UNCHANGED tables
  BY <1>1, <1>2 DEF FindOpenAssignment, Typed, TypeOK
<1>4. TypeOK'
  BY <1>1, <1>2, <1>3 DEF Typed, TypeOK, tables
<1>5. RequestsAreJustified'
  <2>1. /\ RequestsAreJustified
        /\ \A s, n : ReachedBefore(s, n)' <=> ReachedBefore(s, n)
        /\ events' = events
    BY <1>3 DEF Typed, ReachedBefore, tables
  <2> QED
    BY <1>2, <1>3, <2>1 DEF RequestsAreJustified
<1> QED
  BY <1>4, <1>5 DEF Typed
-----------------------------------------------------------------------------
(* Ending one assignment changes neither the others nor whom it was for.   *)
LEMMA EndAssignment ==
    ASSUME NEW s \in Seq(Assignment), NEW i \in 1 .. Len(s)
    PROVE  LET t == [s EXCEPT ![i].open = FALSE]
           IN  /\ t \in Seq(Assignment)
               /\ Len(t) = Len(s)
               /\ \A j \in 1 .. Len(s) : j # i => t[j] = s[j]
               /\ t[i].to = s[i].to /\ t[i].open = FALSE
<1> DEFINE a == [s[i] EXCEPT !.open = FALSE]
<1>1. a \in Assignment /\ a.to = s[i].to /\ a.open = FALSE
  <2>1. s[i] \in Assignment
    OBVIOUS
  <2> QED
    BY <2>1 DEF Assignment
<1> HIDE DEF a
<1>2. [s EXCEPT ![i].open = FALSE] = [s EXCEPT ![i] = a]
  BY DEF a
<1>3. /\ [s EXCEPT ![i] = a] \in Seq(Assignment)
      /\ Len([s EXCEPT ![i] = a]) = Len(s)
      /\ \A j \in 1 .. Len(s) : j # i => [s EXCEPT ![i] = a][j] = s[j]
      /\ [s EXCEPT ![i] = a][i] = a
  BY <1>1
<1> QED
  BY <1>1, <1>2, <1>3

(* Every commit keeps the tables well typed: one case per endpoint.        *)
LEMMA CommitTyped ==
    ASSUME Typed, NEW w \in Workers, Commit(w)
    PROVE  Typed'
<1>1. /\ incident \in Row
      /\ assignments \in Seq(Assignment)
      /\ resolutions \in Nat
      /\ events \in Seq(Event)
      /\ req[w] \in Request
      /\ req[w].loaded \in Row
      /\ Len(assignments) \in Nat
  BY DEF Typed, TypeOK, Request
<1>2. ASSUME incident' \in Row, assignments' \in Seq(Assignment),
             Len(assignments) <= Len(assignments'), resolutions' \in Nat,
             NEW e \in Event, events' = events \/ RecordEvent(e), Finish(w)
      PROVE  Typed'
  <2>1. events' = events \/ \E d \in Event : events' = Append(events, d)
    BY <1>2 DEF RecordEvent
  <2>2. events' \in Seq(Event)
    BY <1>1, <2>1
  <2> QED
    BY <1>2, <2>1, <2>2, FinishTyped DEF Typed, TypeOK
<1>3. \A type \in EventType : PlainEvent(type) \in Event
  BY DEF PlainEvent, Event
<1>4. CASE CommitUpdate(w)
  <2>1. incident' \in Row
    BY <1>1, <1>4 DEF CommitUpdate, Row, Flushed, Request
  <2>2. PlainEvent("assigned") \in Event
    BY <1>3 DEF EventType
  <2> QED
    BY <1>1, <1>2, <1>4, <2>1, <2>2 DEF CommitUpdate
<1>5. CASE CommitChangeStatus(w)
  <2> DEFINE e == [type |-> "status_changed",
                   from |-> req[w].loaded.status, to |-> req[w].target]
  <2>1. req[w].target \in IncidentStatus
    BY <1>5 DEF CommitChangeStatus, Typed, RequestsAreJustified
  <2>2. incident' \in Row
    BY <1>1, <1>5, <2>1 DEF CommitChangeStatus, Row, Flushed
  <2>3. e \in Event
    BY <1>1, <2>1 DEF Event, EventType, Row
  <2>4. RecordEvent(e)
    BY <1>5 DEF CommitChangeStatus
  <2> HIDE DEF e
  <2> QED
    BY <1>1, <1>2, <1>5, <2>2, <2>3, <2>4 DEF CommitChangeStatus
<1>6. CASE CommitResolve(w)
  <2>1. incident' \in Row
    BY <1>1, <1>6 DEF CommitResolve, Row, Flushed, IncidentStatus
  <2>2. PlainEvent("resolution_added") \in Event
    BY <1>3 DEF EventType
  <2> QED
    BY <1>1, <1>2, <1>6, <2>1, <2>2 DEF CommitResolve
<1>7. CASE CommitReopen(w)
  <2> DEFINE e == [type |-> "status_changed", from |-> NoStatus, to |-> "reopened"]
  <2>1. incident' \in Row
    BY <1>1, <1>7 DEF CommitReopen, Row, Flushed, IncidentStatus
  <2>2. e \in Event /\ RecordEvent(e)
    BY <1>7 DEF CommitReopen, Event, EventType, IncidentStatus
  <2> HIDE DEF e
  <2> QED
    BY <1>1, <1>2, <1>7, <2>1, <2>2 DEF CommitReopen
<1>8. CASE CommitAssign(w)
  <2>1. req[w].user \in Users
    BY <1>8 DEF CommitAssign, Typed, RequestsAreJustified
  <2>2. incident' \in Row
    BY <1>1, <1>8, <2>1 DEF CommitAssign, Row, Flushed
  <2>3. /\ assignments' \in Seq(Assignment)
        /\ Len(assignments') = Len(assignments) + 1
    BY <1>1, <1>8, <2>1 DEF CommitAssign, Assignment
  <2>4. PlainEvent("assigned") \in Event
    BY <1>3 DEF EventType
  <2> QED
    BY <1>1, <1>2, <1>8, <2>2, <2>3, <2>4 DEF CommitAssign
<1>9. CASE CommitUnassign(w)
  <2>1. incident' \in Row
    BY <1>1, <1>9 DEF CommitUnassign, Row, Flushed
  <2>2. /\ assignments' \in Seq(Assignment)
        /\ Len(assignments') = Len(assignments)
    <3>1. CASE req[w].assignment = 0
      BY <1>1, <1>9, <3>1 DEF CommitUnassign
    <3>2. CASE req[w].assignment # 0
      <4>1. req[w].assignment \in 1 .. Len(assignments)
        BY <3>2 DEF Typed, TypeOK
      <4> QED
        BY <1>1, <1>9, <3>2, <4>1, EndAssignment DEF CommitUnassign
    <3> QED
      BY <3>1, <3>2
  <2>3. PlainEvent("unassigned") \in Event
    BY <1>3 DEF EventType
  <2> QED
    BY <1>1, <1>2, <1>9, <2>1, <2>2, <2>3 DEF CommitUnassign
<1>10. CASE CommitAcknowledge(w)
  <2>1. incident' \in Row
    BY <1>1, <1>10 DEF CommitAcknowledge, Row
  <2>2. PlainEvent("acknowledged") \in Event
    BY <1>3 DEF EventType
  <2> QED
    BY <1>1, <1>2, <1>10, <2>1, <2>2 DEF CommitAcknowledge
<1> QED
  BY <1>4, <1>5, <1>6, <1>7, <1>8, <1>9, <1>10 DEF Commit

LEMMA RollbackTyped ==
    ASSUME Typed, NEW w \in Workers, Rollback(w)
    PROVE  Typed'
<1>1. Finish(w) /\ UNCHANGED tables
  BY DEF Rollback
<1>2. /\ assignments' \in Seq(Assignment)
      /\ Len(assignments) <= Len(assignments')
      /\ events' = events
  BY <1>1 DEF tables, Typed, TypeOK
<1> QED
  BY <1>1, <1>2, FinishTyped DEF Typed, TypeOK, tables

LEMMA StutterTyped ==
    ASSUME Typed, UNCHANGED vars
    PROVE  Typed'
BY DEF Typed, TypeOK, RequestsAreJustified, ReachedBefore, vars
-----------------------------------------------------------------------------
(* The timeline.                                                           *)
TimelineInv ==
    StatusOnTimeline /\ TimelineIsJustified /\ ClosedAndReopenedInOrder

(* A permitted change from a status already reached is in order: closed    *)
(* and reopened are permitted from settled statuses and from themselves,   *)
(* and an event that names either had its own cause.                       *)
LEMMA PermittedInOrder ==
    ASSUME Typed, TimelineInv, NEW s \in IncidentStatus, NEW t,
           ReachedBefore(s, Len(events) + 1), TransitionPermitted(s, t)
    PROVE  InOrder(t, Len(events) + 1)
<1>1. events \in Seq(Event) /\ Len(events) \in Nat
  BY DEF Typed, TypeOK
<1>2. ASSUME s \in {"closed", "reopened"}
      PROVE  InOrder(s, Len(events) + 1)
  <2>1. PICK i \in 1 .. Len(events) : Reached(events[i]) = s
    BY <1>1 DEF ReachedBefore
  <2>2. events[i].to = s
    BY <1>2, <2>1 DEF Reached
  <2>3. InOrder(s, i)
    BY <1>1, <2>1, <2>2 DEF TimelineInv, ClosedAndReopenedInOrder
  <2>4. \A x : ReachedBefore(x, i) => ReachedBefore(x, Len(events) + 1)
    BY <1>1, <2>1 DEF ReachedBefore
  <2> QED
    BY <2>3, <2>4 DEF InOrder
<1>3. t = "closed" => s \in {"resolved", "closed"}
  BY DEF TransitionPermitted, AllowedTransitions, IncidentStatus
<1>4. t = "reopened" => s \in Settled \union {"reopened"}
  BY DEF TransitionPermitted, AllowedTransitions, IncidentStatus, Settled
<1> QED
  BY <1>2, <1>3, <1>4 DEF InOrder

(* A commit whose event e names the status it may have written: e is       *)
(* justified by a status already reached, and the row keeps its status or  *)
(* takes the one e names.                                                  *)
LEMMA StatusEvent ==
    ASSUME Typed, TimelineInv, NEW e \in Event, RecordEvent(e),
           incident'.status \in {incident.status, Reached(e)},
           Reached(e) # NoStatus =>
              \E s \in IncidentStatus :
                 /\ ReachedBefore(s, Len(events) + 1)
                 /\ TransitionPermitted(s, Reached(e))
                 /\ e.from \in {s, NoStatus},
           InOrder(e.to, Len(events) + 1)
    PROVE  TimelineInv'
<1>1. /\ events \in Seq(Event) /\ Len(events) \in Nat
      /\ events' = Append(events, e)
  BY DEF Typed, TypeOK, RecordEvent
<1>2. /\ events' \in Seq(Event)
      /\ Len(events') = Len(events) + 1
      /\ events'[Len(events) + 1] = e
      /\ \A i \in 1 .. Len(events) : events'[i] = events[i]
      /\ ReachedBefore(Reached(e), Len(events) + 1)'
      /\ \A s : ReachedBefore(s, Len(events) + 1) =>
                ReachedBefore(s, Len(events) + 1)'
  BY <1>1, TimelineGrows
<1>3. ASSUME NEW n \in 1 .. Len(events) + 1, NEW s, ReachedBefore(s, n)
      PROVE  \E i \in 1 .. n - 1 : Reached(events'[i]) = s
  <2>1. PICK i \in 1 .. n - 1 : Reached(events[i]) = s
    BY <1>3 DEF ReachedBefore
  <2> QED
    BY <1>1, <1>2, <2>1
<1>4. StatusOnTimeline'
  BY <1>2 DEF TimelineInv, StatusOnTimeline
<1>5. TimelineIsJustified'
  <2> SUFFICES ASSUME NEW n \in 2 .. Len(events'), Reached(events'[n]) # NoStatus
               PROVE  \E s \in IncidentStatus :
                         /\ \E i \in 1 .. n - 1 : Reached(events'[i]) = s
                         /\ TransitionPermitted(s, Reached(events'[n]))
                         /\ events'[n].from \in {s, NoStatus}
    BY DEF TimelineIsJustified, ReachedBefore
  <2>1. CASE n = Len(events) + 1
    BY <1>1, <1>2, <1>3, <2>1
  <2>2. CASE n \in 2 .. Len(events)
    <3>1. Reached(events[n]) # NoStatus /\ events'[n] = events[n]
      BY <1>1, <1>2, <2>2
    <3>2. PICK s \in IncidentStatus :
              /\ ReachedBefore(s, n)
              /\ TransitionPermitted(s, Reached(events[n]))
              /\ events[n].from \in {s, NoStatus}
      BY <2>2, <3>1 DEF TimelineInv, TimelineIsJustified
    <3>3. n \in 1 .. Len(events) + 1
      BY <1>1, <2>2
    <3>4. \E i \in 1 .. n - 1 : Reached(events'[i]) = s
      BY <1>3, <3>2, <3>3
    <3> QED
      BY <3>1, <3>2, <3>4
  <2> QED
    BY <1>1, <1>2, <2>1, <2>2
<1>6. ClosedAndReopenedInOrder'
  <2>1. ASSUME NEW n \in 1 .. Len(events) + 1, NEW t, InOrder(t, n)
        PROVE  InOrder(t, n)'
    BY <1>3, <2>1 DEF InOrder, ReachedBefore
  <2> SUFFICES ASSUME NEW n \in 1 .. Len(events'), NEW t, t = events'[n].to
               PROVE  InOrder(t, n)'
    BY <1>2 DEF ClosedAndReopenedInOrder, InOrder
  <2>2. CASE n = Len(events) + 1
    BY <1>1, <1>2, <2>1, <2>2
  <2>3. CASE n \in 1 .. Len(events)
    <3>1. events'[n] = events[n] /\ n \in 1 .. Len(events) + 1
      BY <1>1, <1>2, <2>3
    <3>2. InOrder(events[n].to, n)
      BY <1>1, <2>3 DEF TimelineInv, ClosedAndReopenedInOrder
    <3> QED
      BY <2>1, <3>1, <3>2
  <2> QED
    BY <1>1, <1>2, <2>2, <2>3
<1> QED
  BY <1>4, <1>5, <1>6 DEF TimelineInv
(* Events that name no status, commits that record none, and steps that    *)
(* commit nothing.                                                         *)
LEMMA OtherEvent ==
    ASSUME Typed, TimelineInv, incident'.status = incident.status,
           NEW type \in {"assigned", "unassigned", "acknowledged"},
           RecordEvent(PlainEvent(type))
    PROVE  TimelineInv'
<1>1. /\ PlainEvent(type) \in Event
      /\ Reached(PlainEvent(type)) = NoStatus
      /\ InOrder(PlainEvent(type).to, Len(events) + 1)
  BY DEF PlainEvent, Event, EventType, Reached, NoStatus, InOrder
<1> QED
  BY <1>1, StatusEvent

LEMMA NoEvent ==
    ASSUME TimelineInv, incident'.status = incident.status, events' = events
    PROVE  TimelineInv'
BY DEF TimelineInv, StatusOnTimeline, TimelineIsJustified,
       ClosedAndReopenedInOrder, InOrder, ReachedBefore

LEMMA CommitTimeline ==
    ASSUME Typed, TimelineInv, NEW w \in Workers, Commit(w)
    PROVE  TimelineInv'
<1> DEFINE loaded == req[w].loaded
<1>1. /\ incident \in Row /\ req[w] \in Request /\ loaded \in Row
      /\ events \in Seq(Event)
  BY DEF Typed, TypeOK, Request
<1>2. req[w].op # "idle" => ReachedBefore(loaded.status, Len(events) + 1)
  BY DEF Typed, RequestsAreJustified
<1>3. CASE CommitUpdate(w)
  <2>1. incident'.status = incident.status /\ events' = events
    BY <1>1, <1>3 DEF CommitUpdate, Row
  <2> QED
    BY <2>1, NoEvent
<1>4. CASE CommitChangeStatus(w)
  <2> DEFINE e == [type |-> "status_changed",
                   from |-> loaded.status, to |-> req[w].target]
  <2>1. /\ req[w].target \in IncidentStatus
        /\ TransitionPermitted(loaded.status, req[w].target)
        /\ ReachedBefore(loaded.status, Len(events) + 1)
    BY <1>2, <1>4 DEF CommitChangeStatus, Typed, RequestsAreJustified
  <2>2. e \in Event /\ RecordEvent(e) /\ Reached(e) = req[w].target
    BY <1>1, <1>4, <2>1 DEF CommitChangeStatus, Event, EventType, Row, Reached
  <2>3. incident'.status \in {incident.status, Reached(e)}
    BY <1>1, <1>4, <2>2 DEF CommitChangeStatus, Row, Flushed
  <2>4. InOrder(e.to, Len(events) + 1)
    <3>1. loaded.status \in IncidentStatus
      BY <1>1 DEF Row
    <3> QED
      BY <2>1, <3>1, PermittedInOrder
  <2>5. /\ loaded.status \in IncidentStatus
        /\ e.from \in {loaded.status, NoStatus}
    BY <1>1 DEF Row
  <2> HIDE DEF e
  <2> QED
    BY <2>1, <2>2, <2>3, <2>4, <2>5, StatusEvent
<1>5. CASE CommitResolve(w)
  <2> DEFINE e == PlainEvent("resolution_added")
  <2>1. e \in Event /\ Reached(e) = "resolved" /\ e.from = NoStatus
        /\ InOrder(e.to, Len(events) + 1)
    BY DEF PlainEvent, Event, EventType, Reached, NoStatus, InOrder
  <2>2. /\ RecordEvent(e)
        /\ incident'.status \in {incident.status, "resolved"}
    BY <1>1, <1>5 DEF CommitResolve, Row, Flushed
  <2>3. /\ TransitionPermitted(loaded.status, "resolved")
        /\ ReachedBefore(loaded.status, Len(events) + 1)
        /\ loaded.status \in IncidentStatus
    BY <1>1, <1>2, <1>5 DEF CommitResolve, Typed, RequestsAreJustified, Row
  <2> HIDE DEF e
  <2> QED
    BY <2>1, <2>2, <2>3, StatusEvent
<1>6. CASE CommitReopen(w)
  <2> DEFINE e == [type |-> "status_changed", from |-> NoStatus, to |-> "reopened"]
  <2>1. e \in Event /\ Reached(e) = "reopened" /\ e.from = NoStatus
    BY DEF Event, EventType, Reached, NoStatus, IncidentStatus
  <2>2. /\ RecordEvent(e)
        /\ incident'.status \in {incident.status, "reopened"}
    BY <1>1, <1>6 DEF CommitReopen, Row, Flushed
  <2>3. /\ TransitionPermitted(loaded.status, "reopened")
        /\ ReachedBefore(loaded.status, Len(events) + 1)
        /\ loaded.status \in IncidentStatus
    BY <1>1, <1>2, <1>6 DEF CommitReopen, Typed, RequestsAreJustified, Row
  <2>4. InOrder(e.to, Len(events) + 1)
    BY <2>3, PermittedInOrder
  <2> HIDE DEF e
  <2> QED
    BY <2>1, <2>2, <2>3, <2>4, StatusEvent
<1>7. CASE CommitAssign(w) \/ CommitUnassign(w) \/ CommitAcknowledge(w)
  <2>1. incident'.status = incident.status
    BY <1>1, <1>7 DEF CommitAssign, CommitUnassign, CommitAcknowledge, Row
  <2> QED
    BY <1>7, <2>1, OtherEvent DEF CommitAssign, CommitUnassign, CommitAcknowledge
<1> QED
  BY <1>3, <1>4, <1>5, <1>6, <1>7 DEF Commit
-----------------------------------------------------------------------------
(* The theorems for requests that overlap as they please.                  *)
Inv == Typed /\ TimelineInv

LEMMA InitTimeline == Init => TimelineInv
<1> SUFFICES ASSUME Init PROVE TimelineInv
  OBVIOUS
<1> DEFINE e == PlainEvent("incident_created")
<1>1. /\ events = <<e>> /\ Len(events) = 1 /\ events[1] = e
      /\ incident.status = "detected"
      /\ Reached(e) = "detected" /\ InOrder(e.to, 1)
  BY DEF Init, PlainEvent, CreatedRow, Reached, NoStatus, InOrder
<1>2. StatusOnTimeline
  BY <1>1 DEF StatusOnTimeline, ReachedBefore
<1> QED
  BY <1>1, <1>2 DEF TimelineInv, TimelineIsJustified, ClosedAndReopenedInOrder

LEMMA InvStep == Inv /\ [Next]_vars => Inv'
<1> SUFFICES ASSUME Inv, [Next]_vars PROVE Inv'
  OBVIOUS
<1> USE DEF Inv
<1>1. ASSUME NEW w \in Workers, Load(w) PROVE Inv'
  <2>1. UNCHANGED tables
    BY <1>1 DEF Load, LoadUpdate, LoadChangeStatus, LoadResolve, LoadReopen,
                LoadAssign, LoadUnassign, LoadAcknowledge, Receive
  <2> QED
    BY <1>1, <2>1, LoadTyped, NoEvent DEF TimelineInv, tables
<1>2. ASSUME NEW w \in Workers, FindOpenAssignment(w) PROVE Inv'
  BY <1>2, FindTyped, NoEvent DEF FindOpenAssignment, tables
<1>3. ASSUME NEW w \in Workers, Commit(w) PROVE Inv'
  BY <1>3, CommitTyped, CommitTimeline
<1>4. ASSUME NEW w \in Workers, Rollback(w) PROVE Inv'
  BY <1>4, RollbackTyped, NoEvent DEF Rollback, tables
<1>5. CASE UNCHANGED vars
  BY <1>5, StutterTyped, NoEvent DEF vars
<1> QED
  BY <1>1, <1>2, <1>3, <1>4, <1>5 DEF Next

LEMMA Invariance == Spec => []Inv
<1>1. Init => Inv
  BY InitTyped, InitTimeline DEF Inv
<1> QED
  BY <1>1, InvStep, PTL DEF Spec

(* The tables and the requests in flight stay well typed.                  *)
THEOREM TypeCorrect == Spec => []TypeOK
<1>1. Inv => TypeOK
  BY DEF Inv, Typed
<1> QED
  BY <1>1, Invariance, PTL

(* The committed status is always one that the timeline names.             *)
THEOREM StatusAlwaysOnTimeline == Spec => []StatusOnTimeline
<1>1. Inv => StatusOnTimeline
  BY DEF Inv, TimelineInv
<1> QED
  BY <1>1, Invariance, PTL

(* Every status on the timeline was a permitted change from a status that  *)
(* the incident had reached before.                                        *)
THEOREM TimelineAlwaysJustified == Spec => []TimelineIsJustified
<1>1. Inv => TimelineIsJustified
  BY DEF Inv, TimelineInv
<1> QED
  BY <1>1, Invariance, PTL

(* No incident is closed that was never resolved, and none reopened that   *)
(* was never settled.                                                      *)
THEOREM AlwaysInOrder == Spec => []ClosedAndReopenedInOrder
<1>1. Inv => ClosedAndReopenedInOrder
  BY DEF Inv, TimelineInv
<1> QED
  BY <1>1, Invariance, PTL
-----------------------------------------------------------------------------
(* Only a commit writes to the tables.                                     *)
LEMMA TablesStep ==
    ASSUME [Next]_vars
    PROVE  UNCHANGED tables \/ \E w \in Workers : Commit(w)
<1>1. ASSUME NEW w \in Workers, Load(w) \/ FindOpenAssignment(w) \/ Rollback(w)
      PROVE  UNCHANGED tables
  BY <1>1 DEF Load, LoadUpdate, LoadChangeStatus, LoadResolve, LoadReopen,
              LoadAssign, LoadUnassign, LoadAcknowledge, Receive,
              FindOpenAssignment, Rollback
<1>2. CASE UNCHANGED vars
  BY <1>2 DEF vars, tables
<1> QED
  BY <1>1, <1>2 DEF Next

(* The assignee and the open assignments.                                  *)

LEMMA CommitAssignee ==
    ASSUME Typed, AssigneeHasOpenAssignment, NEW w \in Workers, Commit(w)
    PROVE  AssigneeHasOpenAssignment'
<1>1. /\ incident \in Row /\ req[w] \in Request /\ req[w].loaded \in Row
      /\ assignments \in Seq(Assignment)
      /\ Len(assignments) \in Nat
      /\ DOMAIN assignments = 1 .. Len(assignments)
  BY DEF Typed, TypeOK, Request
<1>2. CASE /\ incident'.assignee = incident.assignee
           /\ assignments' = assignments
  BY <1>2 DEF AssigneeHasOpenAssignment
<1>3. CASE CommitAssign(w)
  <2> DEFINE a == [to |-> req[w].user, open |-> TRUE]
  <2>1. req[w].user \in Users
    BY <1>3 DEF CommitAssign, Typed, RequestsAreJustified
  <2>2. a \in Assignment /\ assignments' = Append(assignments, a)
    BY <1>3, <2>1 DEF CommitAssign, Assignment
  <2>3. incident'.assignee \in {incident.assignee, req[w].user}
    BY <1>1, <1>3 DEF CommitAssign, Row, Flushed
  <2>4. a.to = req[w].user /\ a.open
    OBVIOUS
  <2> HIDE DEF a
  <2>5. /\ DOMAIN assignments' = 1 .. Len(assignments) + 1
        /\ assignments'[Len(assignments) + 1] = a
        /\ \A i \in DOMAIN assignments : assignments'[i] = assignments[i]
    BY <1>1, <2>2
  <2>6. CASE incident'.assignee = req[w].user
    <3>1. a = [to |-> incident'.assignee, open |-> TRUE]
      BY <2>6 DEF a
    <3> QED
      BY <1>1, <2>5, <3>1 DEF AssigneeHasOpenAssignment
  <2>7. CASE incident'.assignee = incident.assignee
    <3> SUFFICES ASSUME incident.assignee # NoUser
                 PROVE  \E i \in DOMAIN assignments' :
                           assignments'[i] = [to |-> incident.assignee, open |-> TRUE]
      BY <2>7 DEF AssigneeHasOpenAssignment
    <3>1. PICK i \in DOMAIN assignments :
              assignments[i] = [to |-> incident.assignee, open |-> TRUE]
      BY DEF AssigneeHasOpenAssignment
    <3>2. i \in DOMAIN assignments' /\ assignments'[i] = assignments[i]
      BY <1>1, <2>5
    <3> QED
      BY <3>1, <3>2
  <2> QED
    BY <2>3, <2>6, <2>7
<1>4. CASE CommitUnassign(w)
  <2>1. req[w].loaded.assignee \in Users
    BY <1>4 DEF CommitUnassign, Typed, RequestsAreJustified
  <2>2. incident'.assignee = NoUser
    BY <1>1, <1>4, <2>1, NoUserAssumption DEF CommitUnassign, Row, Flushed
  <2> QED
    BY <2>2 DEF AssigneeHasOpenAssignment
<1>5. CASE \/ CommitUpdate(w) \/ CommitChangeStatus(w) \/ CommitResolve(w)
           \/ CommitReopen(w) \/ CommitAcknowledge(w)
  BY <1>1, <1>2, <1>5
     DEF CommitUpdate, CommitChangeStatus, CommitResolve, CommitReopen,
         CommitAcknowledge, Row
<1> QED
  BY <1>3, <1>4, <1>5 DEF Commit

(* An incident with an assignee always has an open assignment for them,    *)
(* however assignments and unassignments overlap.                          *)
THEOREM AssigneeAlwaysHasOpenAssignment == Spec => []AssigneeHasOpenAssignment
<1>1. Init => AssigneeHasOpenAssignment
  BY DEF Init, CreatedRow, AssigneeHasOpenAssignment
<1>2. Inv /\ AssigneeHasOpenAssignment /\ [Next]_vars => AssigneeHasOpenAssignment'
  <2> SUFFICES ASSUME Inv, AssigneeHasOpenAssignment, [Next]_vars
               PROVE  AssigneeHasOpenAssignment'
    OBVIOUS
  <2>1. CASE UNCHANGED tables
    BY <2>1 DEF tables, AssigneeHasOpenAssignment
  <2>2. ASSUME NEW w \in Workers, Commit(w)
        PROVE  AssigneeHasOpenAssignment'
    BY <2>2, CommitAssignee DEF Inv
  <2> QED
    BY <2>1, <2>2, TablesStep
<1> QED
  BY <1>1, <1>2, Invariance, PTL DEF Spec
-----------------------------------------------------------------------------
(* Each ended assignment is accounted for by an unassigned event.          *)
Ended == {i \in DOMAIN assignments : ~assignments[i].open}
Releases == {n \in DOMAIN events : events[n].type = "unassigned"}

LEMMA FinitePositions ==
    ASSUME NEW n \in Nat, NEW S \in SUBSET (1 .. n)
    PROVE  IsFiniteSet(S) /\ Cardinality(S) \in Nat
<1>1. IsFiniteSet(1 .. n)
  BY FS_Interval
<1>2. IsFiniteSet(S)
  BY <1>1, FS_Subset
<1> QED
  BY <1>2, FS_CardinalityType

LEMMA FiniteHistory ==
    TypeOK => /\ IsFiniteSet(Ended) /\ Cardinality(Ended) \in Nat
              /\ IsFiniteSet(Releases) /\ Cardinality(Releases) \in Nat
<1> SUFFICES ASSUME TypeOK
             PROVE  /\ IsFiniteSet(Ended) /\ Cardinality(Ended) \in Nat
                    /\ IsFiniteSet(Releases) /\ Cardinality(Releases) \in Nat
  OBVIOUS
<1>1. /\ Len(assignments) \in Nat /\ DOMAIN assignments = 1 .. Len(assignments)
      /\ Len(events) \in Nat /\ DOMAIN events = 1 .. Len(events)
  BY DEF TypeOK
<1>2. /\ Ended \in SUBSET (1 .. Len(assignments))
      /\ Releases \in SUBSET (1 .. Len(events))
  BY <1>1 DEF Ended, Releases
<1> QED
  BY <1>1, <1>2, FinitePositions

LEMMA FiniteHistoryAfter ==
    TypeOK' => /\ IsFiniteSet(Ended') /\ Cardinality(Ended') \in Nat
               /\ IsFiniteSet(Releases') /\ Cardinality(Releases') \in Nat
<1> SUFFICES ASSUME TypeOK'
             PROVE  /\ IsFiniteSet(Ended') /\ Cardinality(Ended') \in Nat
                    /\ IsFiniteSet(Releases') /\ Cardinality(Releases') \in Nat
  OBVIOUS
<1>1. /\ Len(assignments') \in Nat /\ DOMAIN assignments' = 1 .. Len(assignments')
      /\ Len(events') \in Nat /\ DOMAIN events' = 1 .. Len(events')
  BY DEF TypeOK
<1>2. /\ Ended' \in SUBSET (1 .. Len(assignments'))
      /\ Releases' \in SUBSET (1 .. Len(events'))
  BY <1>1 DEF Ended, Releases
<1> QED
  BY <1>1, <1>2, FinitePositions

(* A commit that ends no assignment forgets no release.                    *)
LEMMA ReleasesGrow ==
    ASSUME Typed, NEW e \in Event,
           events' = events \/ events' = Append(events, e)
    PROVE  Releases \subseteq Releases'
<1>1. CASE events' = events
  BY <1>1 DEF Releases
<1>2. CASE events' = Append(events, e)
  <2>1. /\ events \in Seq(Event) /\ Len(events) \in Nat
        /\ DOMAIN events = 1 .. Len(events)
        /\ DOMAIN events' = 1 .. Len(events) + 1
        /\ \A n \in 1 .. Len(events) : events'[n] = events[n]
    BY <1>2 DEF Typed, TypeOK
  <2> QED
    BY <2>1 DEF Releases
<1> QED
  BY <1>1, <1>2

(* unassign ends at most one row and records one event.                    *)
LEMMA UnassignAccounted ==
    ASSUME Typed, NEW w \in Workers, CommitUnassign(w)
    PROVE  /\ Ended' \subseteq Ended \cup {req[w].assignment}
           /\ \E n : n \notin Releases /\ Releases' = Releases \cup {n}
<1>1. /\ assignments \in Seq(Assignment) /\ Len(assignments) \in Nat
      /\ DOMAIN assignments = 1 .. Len(assignments)
      /\ events \in Seq(Event) /\ Len(events) \in Nat
      /\ DOMAIN events = 1 .. Len(events)
  BY DEF Typed, TypeOK
<1>2. Ended' \subseteq Ended \cup {req[w].assignment}
  <2>1. CASE req[w].assignment = 0
    BY <2>1 DEF CommitUnassign, Ended
  <2>2. CASE req[w].assignment # 0
    <3>1. req[w].assignment \in 1 .. Len(assignments)
      BY <2>2 DEF Typed, TypeOK
    <3>2. assignments' = [assignments EXCEPT ![req[w].assignment].open = FALSE]
      BY <2>2 DEF CommitUnassign
    <3>3. /\ DOMAIN assignments' = DOMAIN assignments
          /\ \A j \in DOMAIN assignments :
                 j # req[w].assignment => assignments'[j] = assignments[j]
      BY <1>1, <3>1, <3>2
    <3> QED
      BY <3>3 DEF Ended
  <2> QED
    BY <2>1, <2>2
<1>3. PICK n \in Nat : n = Len(events) + 1
  BY <1>1
<1> DEFINE e == PlainEvent("unassigned")
<1>4. e \in Event /\ e.type = "unassigned"
  BY DEF PlainEvent, Event, EventType
<1>5. events' = Append(events, e)
  BY DEF CommitUnassign, RecordEvent
<1> HIDE DEF e
<1>6. /\ DOMAIN events' = DOMAIN events \cup {n}
      /\ n \notin DOMAIN events
      /\ events'[n].type = "unassigned"
      /\ \A m \in DOMAIN events : events'[m] = events[m]
  BY <1>1, <1>3, <1>4, <1>5
<1>7. n \notin Releases /\ Releases' = Releases \cup {n}
  BY <1>6 DEF Releases
<1> QED
  BY <1>2, <1>7

(* No other endpoint ends an assignment.                                   *)
LEMMA OtherCommitsEndNothing ==
    ASSUME Typed, NEW w \in Workers, Commit(w), ~CommitUnassign(w)
    PROVE  Ended' = Ended /\ Releases \subseteq Releases'
<1>1. Ended' = Ended
  <2>1. CASE CommitAssign(w)
    <3>1. PICK a : /\ a = [to |-> req[w].user, open |-> TRUE]
                   /\ a.open
                   /\ assignments' = Append(assignments, a)
      BY <2>1 DEF CommitAssign
    <3>2. assignments \in Seq(Assignment) /\ a \in Assignment
      BY <2>1, <3>1 DEF Typed, TypeOK, RequestsAreJustified, CommitAssign, Assignment
    <3>3. /\ Len(assignments) \in Nat
          /\ DOMAIN assignments = 1 .. Len(assignments)
          /\ DOMAIN assignments' = 1 .. Len(assignments) + 1
          /\ assignments'[Len(assignments) + 1] = a
          /\ \A i \in 1 .. Len(assignments) : assignments'[i] = assignments[i]
      BY <3>1, <3>2
    <3> QED
      BY <3>1, <3>3 DEF Ended
  <2>2. CASE ~CommitAssign(w)
    BY <2>2 DEF Commit, CommitUpdate, CommitChangeStatus, CommitResolve,
                CommitReopen, CommitAcknowledge, Ended
  <2> QED
    BY <2>1, <2>2
<1>2. \A type \in EventType : PlainEvent(type) \in Event
  BY DEF PlainEvent, Event
<1>3. \E e \in Event : events' = events \/ events' = Append(events, e)
  <2>1. CASE CommitUpdate(w)
    BY <1>2, <2>1 DEF CommitUpdate, EventType
  <2>2. CASE CommitChangeStatus(w)
    <3>1. /\ req[w].target \in IncidentStatus
          /\ req[w].loaded.status \in IncidentStatus
      BY <2>2 DEF CommitChangeStatus, Typed, TypeOK, RequestsAreJustified,
                  Request, Row
    <3>2. [type |-> "status_changed", from |-> req[w].loaded.status,
           to |-> req[w].target] \in Event
      BY <3>1 DEF Event, EventType
    <3> QED
      BY <2>2, <3>2 DEF CommitChangeStatus, RecordEvent
  <2>3. CASE CommitReopen(w)
    <3>1. [type |-> "status_changed", from |-> NoStatus, to |-> "reopened"] \in Event
      BY DEF Event, EventType, IncidentStatus
    <3> QED
      BY <2>3, <3>1 DEF CommitReopen, RecordEvent
  <2>4. CASE CommitResolve(w) \/ CommitAssign(w) \/ CommitAcknowledge(w)
    BY <1>2, <2>4 DEF CommitResolve, CommitAssign, CommitAcknowledge,
                      RecordEvent, EventType
  <2> QED
    BY <2>1, <2>2, <2>3, <2>4 DEF Commit
<1> QED
  BY <1>1, <1>3, ReleasesGrow

(* One call of unassign ends at most one assignment, and every ended one   *)
(* has an unassigned event of its own, however the calls overlap.          *)
THEOREM ReleasesAlwaysRecorded == Spec => []ReleasesAreRecorded
<1> DEFINE Counted == Cardinality(Ended) <= Cardinality(Releases)
<1>1. Init => Counted
  <2> SUFFICES ASSUME Init PROVE Counted
    OBVIOUS
  <2>1. Ended = {}
    BY DEF Init, Ended
  <2>2. Cardinality(Ended) = 0
    BY <2>1, FS_EmptySet
  <2>3. Cardinality(Releases) \in Nat
    BY InitTyped, FiniteHistory DEF Typed
  <2> QED
    BY <2>2, <2>3
<1>2. Inv /\ Counted /\ [Next]_vars => Counted'
  <2> SUFFICES ASSUME Inv, Counted, [Next]_vars PROVE Counted'
    OBVIOUS
  <2>1. Typed /\ Typed'
    BY InvStep DEF Inv
  <2>2. /\ IsFiniteSet(Ended) /\ Cardinality(Ended) \in Nat
        /\ IsFiniteSet(Releases) /\ Cardinality(Releases) \in Nat
    BY <2>1, FiniteHistory DEF Typed
  <2>3. /\ IsFiniteSet(Ended') /\ Cardinality(Ended') \in Nat
        /\ IsFiniteSet(Releases') /\ Cardinality(Releases') \in Nat
    BY <2>1, FiniteHistoryAfter DEF Typed
  <2>4. ASSUME Ended' = Ended, Releases \subseteq Releases'
        PROVE  Counted'
    <3>1. Cardinality(Releases) <= Cardinality(Releases')
      BY <2>3, <2>4, FS_Subset
    <3> QED
      BY <2>2, <2>3, <2>4, <3>1
  <2>5. CASE UNCHANGED tables
    BY <2>4, <2>5 DEF tables, Ended, Releases
  <2>6. ASSUME NEW w \in Workers, Commit(w), ~CommitUnassign(w)
        PROVE  Counted'
    BY <2>1, <2>4, <2>6, OtherCommitsEndNothing
  <2>7. ASSUME NEW w \in Workers, CommitUnassign(w)
        PROVE  Counted'
    <3>1. PICK chosen : chosen = req[w].assignment
      OBVIOUS
    <3>2. Ended' \subseteq Ended \cup {chosen}
      BY <2>1, <2>7, <3>1, UnassignAccounted
    <3>3. PICK n : n \notin Releases /\ Releases' = Releases \cup {n}
      BY <2>1, <2>7, UnassignAccounted
    <3>4. /\ IsFiniteSet(Ended \cup {chosen})
          /\ Cardinality(Ended \cup {chosen}) <= Cardinality(Ended) + 1
      <4>1. PICK S : S = Ended
        OBVIOUS
      <4>2. /\ IsFiniteSet(S \cup {chosen})
            /\ \/ Cardinality(S \cup {chosen}) = Cardinality(S)
               \/ Cardinality(S \cup {chosen}) = Cardinality(S) + 1
        BY <2>2, <4>1, FS_AddElement, Zenon
      <4> QED
        BY <2>2, <4>1, <4>2
    <3>5. Cardinality(Ended') <= Cardinality(Ended \cup {chosen})
      BY <3>2, <3>4, FS_Subset
    <3>6. Cardinality(Releases') = Cardinality(Releases) + 1
      BY <2>2, <3>3, FS_AddElement
    <3>7. Cardinality(Ended \cup {chosen}) \in Nat
      BY <3>4, FS_CardinalityType
    <3> QED
      BY <2>2, <2>3, <3>4, <3>5, <3>6, <3>7
  <2> QED
    BY <2>5, <2>6, <2>7, TablesStep
<1>3. Counted <=> ReleasesAreRecorded
  BY DEF Ended, Releases, ReleasesAreRecorded
<1> QED
  BY <1>1, <1>2, <1>3, Invariance, PTL DEF Spec
-----------------------------------------------------------------------------
(* Requests that do not overlap on the incident.                           *)
NoOverlap == \A v, w \in Workers : v = w

(* The load of the only request in flight is still the committed row, so   *)
(* its guard and its choice of an assignment still hold at the commit.     *)
LoadIsFresh ==
    \A w \in Workers :
        LET r == req[w]
        IN  /\ r.op # "idle" => r.loaded = incident
            /\ r.op \in {"update", "assign", "unassign_loaded", "unassign"} =>
                  Mutable(incident.status)
            /\ r.op = "unassign" => r.assignment \in OpenAssignments

SerialInv == Inv /\ AssigneeHasOpenAssignment /\ LoadIsFresh

LEMMA LoadFresh ==
    ASSUME NoOverlap, SerialInv, NEW w \in Workers, Load(w)
    PROVE  LoadIsFresh'
<1>1. /\ req \in [Workers -> Request] /\ incident \in Row
      /\ \A v \in Workers : v = w
  BY DEF NoOverlap, SerialInv, Inv, Typed, TypeOK
<1>2. ASSUME NEW r, Receive(w, r), r.loaded = incident, r.op # "unassign",
             r.op \in {"update", "assign", "unassign_loaded"} =>
                Mutable(incident.status)
      PROVE  LoadIsFresh'
  BY <1>1, <1>2 DEF LoadIsFresh, Receive, tables
<1>3. ASSUME NEW f \in Fields, LoadUpdate(w, f)
      PROVE  LoadIsFresh'
  <2> DEFINE r == [Loaded("update") EXCEPT !.fields = f]
  <2>1. r.op = "update" /\ r.loaded = incident
    BY <1>1, LoadedType DEF Op, Request
  <2>2. Mutable(incident.status) /\ Receive(w, r)
    BY <1>3 DEF LoadUpdate
  <2> HIDE DEF r
  <2> QED
    BY <1>2, <2>1, <2>2
<1>4. ASSUME NEW s \in IncidentStatus, LoadChangeStatus(w, s)
      PROVE  LoadIsFresh'
  <2> DEFINE r == [Loaded("change_status") EXCEPT !.target = s]
  <2>1. r.op = "change_status" /\ r.loaded = incident
    BY <1>1, LoadedType DEF Op, Request
  <2>2. Receive(w, r)
    BY <1>4 DEF LoadChangeStatus
  <2> HIDE DEF r
  <2> QED
    BY <1>2, <2>1, <2>2
<1>5. ASSUME NEW u \in Users, LoadAssign(w, u)
      PROVE  LoadIsFresh'
  <2> DEFINE r == [Loaded("assign") EXCEPT !.user = u]
  <2>1. r.op = "assign" /\ r.loaded = incident
    BY <1>1, LoadedType DEF Op, Request
  <2>2. Mutable(incident.status) /\ Receive(w, r)
    BY <1>5 DEF LoadAssign
  <2> HIDE DEF r
  <2> QED
    BY <1>2, <2>1, <2>2
<1>6. \A op \in {"resolve", "reopen", "acknowledge", "unassign_loaded"} :
          Loaded(op).op = op /\ Loaded(op).loaded = incident
  BY <1>1, LoadedType DEF Op
<1>7. CASE LoadResolve(w) \/ LoadReopen(w) \/ LoadUnassign(w) \/ LoadAcknowledge(w)
  BY <1>2, <1>6, <1>7 DEF LoadResolve, LoadReopen, LoadUnassign, LoadAcknowledge
<1> QED
  BY <1>3, <1>4, <1>5, <1>7 DEF Load

LEMMA FindFresh ==
    ASSUME NoOverlap, SerialInv, NEW w \in Workers, FindOpenAssignment(w)
    PROVE  LoadIsFresh'
<1>1. /\ req \in [Workers -> Request]
      /\ \A v \in Workers : v = w
      /\ req[w].op = "unassign_loaded"
      /\ req[w].loaded = incident /\ Mutable(incident.status)
      /\ incident.assignee \in Users
      /\ UNCHANGED tables
  BY DEF NoOverlap, SerialInv, Inv, Typed, TypeOK, LoadIsFresh,
         FindOpenAssignment, RequestsAreJustified
<1>2. OpenAssignments # {}
  BY <1>1, NoUserAssumption
     DEF SerialInv, AssigneeHasOpenAssignment, OpenAssignments
<1>3. PICK i \in OpenAssignments :
          req' = [req EXCEPT ![w] = [@ EXCEPT !.op = "unassign", !.assignment = i]]
  BY <1>2 DEF FindOpenAssignment
<1> DEFINE found == [req[w] EXCEPT !.op = "unassign", !.assignment = i]
<1>4. /\ found.op = "unassign" /\ found.assignment = i
      /\ found.loaded = incident
  BY <1>1 DEF Request
<1>5. req' = [req EXCEPT ![w] = found]
  BY <1>3
<1>6. i \in OpenAssignments'
  BY <1>1 DEF OpenAssignments, tables
<1> HIDE DEF found
<1> QED
  BY <1>1, <1>4, <1>5, <1>6 DEF LoadIsFresh, tables

LEMMA FinishFresh ==
    ASSUME NoOverlap, SerialInv, NEW w \in Workers, Finish(w)
    PROVE  LoadIsFresh'
<1>1. /\ \A v \in Workers : v = w
      /\ req' [w] = NoRequest
  BY DEF NoOverlap, SerialInv, Inv, Typed, TypeOK, Finish
<1> QED
  BY <1>1, NoRequestType DEF LoadIsFresh
(* The rules are the same ones on both sides of the refinement.            *)
LEMMA SameRules ==
    /\ \A s, t : Atomic!TransitionPermitted(s, t) <=> TransitionPermitted(s, t)
    /\ \A s : Atomic!Mutable(s) <=> Mutable(s)
    /\ Atomic!IncidentStatus = IncidentStatus
BY DEF Atomic!TransitionPermitted, TransitionPermitted,
       Atomic!AllowedTransitions, AllowedTransitions,
       Atomic!Mutable, Mutable, Atomic!TerminalForEdit, TerminalForEdit,
       Atomic!IncidentStatus, IncidentStatus

(* A flush of a fresh load is a plain assignment.                          *)
LEMMA FreshFlush == \A x, y : Flushed(x, x, y) = y
BY DEF Flushed

(* Every commit of a fresh load is the atomic step of its endpoint.        *)
LEMMA CommitAtomic ==
    ASSUME NoOverlap, SerialInv, NEW w \in Workers, Commit(w)
    PROVE  Atomic!Next
<1> DEFINE r == req[w]
<1>1. /\ r \in Request
      /\ r.op # "idle" => r.loaded = incident
      /\ assignments \in Seq(Assignment)
  BY DEF SerialInv, LoadIsFresh, Inv, Typed, TypeOK
<1>2. \A e : RecordEvent(e) <=>
            Len(events) < MaxEvents /\ events' = Append(events, e)
  BY DEF RecordEvent
<1>3. CASE CommitUpdate(w)
  <2>1. r.fields \in Fields /\ Mutable(incident.status) /\ r.loaded = incident
    BY <1>1, <1>3 DEF CommitUpdate, Request, SerialInv, LoadIsFresh
  <2>2. Atomic!Update(r.fields)
    BY <1>3, <2>1, FreshFlush, SameRules DEF CommitUpdate, Atomic!Update
  <2> QED
    BY <2>1, <2>2 DEF Atomic!Next
<1>4. CASE CommitChangeStatus(w)
  <2>1. /\ r.loaded = incident
        /\ r.target \in IncidentStatus
        /\ TransitionPermitted(incident.status, r.target)
    BY <1>1, <1>4
       DEF CommitChangeStatus, SerialInv, Inv, Typed, RequestsAreJustified
  <2>2. Atomic!ChangeStatus(r.target)
    BY <1>2, <1>4, <2>1, FreshFlush, SameRules
       DEF CommitChangeStatus, Atomic!ChangeStatus, Atomic!Log
  <2> QED
    BY <2>1, <2>2, SameRules DEF Atomic!Next
<1>5. CASE CommitResolve(w)
  <2>1. r.loaded = incident /\ TransitionPermitted(incident.status, "resolved")
    BY <1>1, <1>5 DEF CommitResolve, SerialInv, Inv, Typed, RequestsAreJustified
  <2>2. Atomic!Resolve
    BY <1>2, <1>5, <2>1, FreshFlush, SameRules
       DEF CommitResolve, Atomic!Resolve, Atomic!Log, PlainEvent, NoStatus
  <2> QED
    BY <2>2 DEF Atomic!Next
<1>6. CASE CommitReopen(w)
  <2>1. r.loaded = incident /\ TransitionPermitted(incident.status, "reopened")
    BY <1>1, <1>6 DEF CommitReopen, SerialInv, Inv, Typed, RequestsAreJustified
  <2>2. Atomic!Reopen
    BY <1>2, <1>6, <2>1, FreshFlush, SameRules
       DEF CommitReopen, Atomic!Reopen, Atomic!Log, NoStatus
  <2> QED
    BY <2>2 DEF Atomic!Next
<1>7. CASE CommitAssign(w)
  <2>1. r.loaded = incident /\ r.user \in Users /\ Mutable(incident.status)
    BY <1>1, <1>7
       DEF CommitAssign, SerialInv, LoadIsFresh, Inv, Typed, RequestsAreJustified
  <2>2. Atomic!Assign(r.user)
    BY <1>2, <1>7, <2>1, FreshFlush, SameRules
       DEF CommitAssign, Atomic!Assign, Atomic!Log, PlainEvent, NoStatus
  <2> QED
    BY <2>1, <2>2 DEF Atomic!Next
<1>8. CASE CommitUnassign(w)
  <2>1. /\ r.loaded = incident /\ Mutable(incident.status)
        /\ r.assignment \in OpenAssignments
        /\ r.loaded.assignee \in Users
    BY <1>1, <1>8
       DEF CommitUnassign, SerialInv, LoadIsFresh, Inv, Typed, RequestsAreJustified
  <2>2. /\ incident.assignee # NoUser
        /\ r.assignment \in DOMAIN assignments
        /\ assignments[r.assignment].open
        /\ r.assignment # 0
    BY <1>1, <2>1, NoUserAssumption DEF OpenAssignments
  <2>3. Atomic!Unassign
    BY <1>2, <1>8, <2>1, <2>2, FreshFlush, SameRules
       DEF CommitUnassign, Atomic!Unassign, Atomic!Log, PlainEvent, NoStatus
  <2> QED
    BY <2>3 DEF Atomic!Next
<1>9. CASE CommitAcknowledge(w)
  <2>1. Atomic!Acknowledge
    BY <1>2, <1>9
       DEF CommitAcknowledge, Atomic!Acknowledge, Atomic!Log, PlainEvent, NoStatus
  <2> QED
    BY <2>1 DEF Atomic!Next
<1> QED
  BY <1>3, <1>4, <1>5, <1>6, <1>7, <1>8, <1>9 DEF Commit
LEMMA SerialInvariance ==
    ASSUME NoOverlap
    PROVE  Spec => []SerialInv
<1>1. Init => LoadIsFresh
  BY NoRequestType DEF Init, LoadIsFresh
<1>2. SerialInv /\ [Next]_vars => LoadIsFresh'
  <2> SUFFICES ASSUME SerialInv, [Next]_vars
               PROVE  LoadIsFresh'
    OBVIOUS
  <2>1. ASSUME NEW w \in Workers, Commit(w) \/ Rollback(w)
        PROVE  LoadIsFresh'
    <3>1. Finish(w)
      BY <2>1 DEF Commit, CommitUpdate, CommitChangeStatus, CommitResolve,
                  CommitReopen, CommitAssign, CommitUnassign,
                  CommitAcknowledge, Rollback
    <3> QED
      BY <3>1, FinishFresh, NoOverlap
  <2>2. CASE UNCHANGED vars
    BY <2>2 DEF SerialInv, LoadIsFresh, OpenAssignments, vars
  <2> QED
    BY <2>1, <2>2, LoadFresh, FindFresh, NoOverlap DEF Next
<1> QED
  BY <1>1, <1>2, Invariance, AssigneeAlwaysHasOpenAssignment, PTL
     DEF Spec, SerialInv

(* Endpoints called one after the other are atomic: the handlers implement *)
(* the specification in which each of them is a single step.               *)
THEOREM SerialImplementsAtomic ==
    ASSUME NoOverlap
    PROVE  Spec => ImplementsAtomic
<1>1. Init => Atomic!Init
  BY DEF Init, Atomic!Init, CreatedRow, PlainEvent, NoStatus
<1>2. SerialInv /\ [Next]_vars => [Atomic!Next]_(Atomic!avars)
  BY TablesStep, CommitAtomic, NoOverlap DEF Atomic!avars, tables
<1> QED
  BY <1>1, <1>2, SerialInvariance, NoOverlap, PTL
     DEF Spec, ImplementsAtomic, Atomic!Spec

(* Called one after the other, the endpoints change the status only as the *)
(* rules permit.                                                           *)
THEOREM SerialStatusSteps ==
    ASSUME NoOverlap
    PROVE  Spec => StatusStepsPermitted
<1>1. SerialInv /\ [Next]_vars
        => [TransitionPermitted(incident.status, incident'.status)]_vars
  <2> SUFFICES ASSUME SerialInv, [Next]_vars
               PROVE  TransitionPermitted(incident.status, incident'.status)
    OBVIOUS
  <2>1. incident \in Row
    BY DEF SerialInv, Inv, Typed, TypeOK
  <2>2. CASE UNCHANGED tables
    BY <2>2 DEF tables, TransitionPermitted
  <2>3. CASE Atomic!Next
    BY <2>1, <2>3, SameRules
       DEF Atomic!Next, Atomic!Update, Atomic!ChangeStatus, Atomic!Resolve,
           Atomic!Reopen, Atomic!Assign, Atomic!Unassign, Atomic!Acknowledge,
           Row, TransitionPermitted
  <2> QED
    BY <2>2, <2>3, TablesStep, CommitAtomic, NoOverlap
<1> QED
  BY <1>1, SerialInvariance, NoOverlap, PTL DEF Spec, StatusStepsPermitted

(* Called one after the other, the endpoints edit a resolved or closed     *)
(* incident only after it has been reopened.                               *)
THEOREM SerialEditsRequireReopen ==
    ASSUME NoOverlap
    PROVE  Spec => EditsRequireReopen
<1>1. SerialInv /\ [Next]_vars
        => [(incident'.fields # incident.fields
                \/ incident'.assignee # incident.assignee)
            => Mutable(incident.status)]_vars
  <2> SUFFICES ASSUME SerialInv, [Next]_vars,
                      incident'.fields # incident.fields
                        \/ incident'.assignee # incident.assignee
               PROVE  Mutable(incident.status)
    OBVIOUS
  <2>1. incident \in Row
    BY DEF SerialInv, Inv, Typed, TypeOK
  <2>2. Atomic!Next
    BY TablesStep, CommitAtomic, NoOverlap DEF tables
  <2> QED
    BY <2>1, <2>2, SameRules
       DEF Atomic!Next, Atomic!Update, Atomic!ChangeStatus, Atomic!Resolve,
           Atomic!Reopen, Atomic!Assign, Atomic!Unassign, Atomic!Acknowledge,
           Row
<1> QED
  BY <1>1, SerialInvariance, NoOverlap, PTL DEF Spec, EditsRequireReopen

(* Called one after the other, the endpoints leave every settled incident  *)
(* with its resolved_at, and every closed one with its closed_at.          *)
THEOREM SerialSettledHasTimestamps ==
    ASSUME NoOverlap
    PROVE  Spec => []SettledHasTimestamps
<1>1. Init => SettledHasTimestamps
  BY DEF Init, CreatedRow, SettledHasTimestamps, TerminalForEdit
<1>2. SerialInv /\ SettledHasTimestamps /\ [Next]_vars => SettledHasTimestamps'
  <2> SUFFICES ASSUME SerialInv, SettledHasTimestamps, [Next]_vars
               PROVE  SettledHasTimestamps'
    OBVIOUS
  <2>1. /\ incident \in Row
        /\ incident.status \in TerminalForEdit => incident.resolvedAt
        /\ incident.status = "closed" => incident.closedAt
    BY DEF SerialInv, Inv, Typed, TypeOK, SettledHasTimestamps
  <2>2. CASE UNCHANGED tables
    BY <2>2 DEF tables, SettledHasTimestamps
  <2>3. ASSUME NEW s \in IncidentStatus, Atomic!ChangeStatus(s)
        PROVE  SettledHasTimestamps'
    <3>1. TransitionPermitted(incident.status, s)
      BY <2>3, SameRules DEF Atomic!ChangeStatus
    <3>2. s = "closed" => incident.status \in TerminalForEdit
      BY <2>1, <3>1
         DEF TransitionPermitted, AllowedTransitions, TerminalForEdit, Row,
             IncidentStatus
    <3>3. /\ incident'.status = s
          /\ incident'.resolvedAt = (incident.resolvedAt \/ s = "resolved")
          /\ incident'.closedAt = (incident.closedAt \/ s = "closed")
      BY <2>1, <2>3 DEF Atomic!ChangeStatus, Row
    <3> QED
      BY <2>1, <3>2, <3>3 DEF SettledHasTimestamps, TerminalForEdit
  <2>4. CASE Atomic!Resolve
    BY <2>1, <2>4 DEF Atomic!Resolve, Row, SettledHasTimestamps
  <2>5. CASE Atomic!Reopen
    BY <2>1, <2>5 DEF Atomic!Reopen, Row, SettledHasTimestamps, TerminalForEdit
  <2>6. CASE \/ \E f \in Fields : Atomic!Update(f)
             \/ \E u \in Users : Atomic!Assign(u)
             \/ Atomic!Unassign
             \/ Atomic!Acknowledge
    <3>1. /\ incident'.status = incident.status
          /\ incident'.resolvedAt = incident.resolvedAt
          /\ incident'.closedAt = incident.closedAt
      BY <2>1, <2>6 DEF Atomic!Update, Atomic!Assign, Atomic!Unassign,
                        Atomic!Acknowledge, Row
    <3> QED
      BY <2>1, <3>1 DEF SettledHasTimestamps
  <2>7. CASE Atomic!Next
    BY <2>3, <2>4, <2>5, <2>6, <2>7, SameRules DEF Atomic!Next
  <2> QED
    BY <2>2, <2>7, TablesStep, CommitAtomic, NoOverlap
<1> QED
  BY <1>1, <1>2, SerialInvariance, NoOverlap, PTL DEF Spec

(* A step that records the event e: the row's status is the last on the    *)
(* timeline again if e names it, or names none and it has not changed.     *)
LEMMA LastStatus ==
    ASSUME events \in Seq(Event), NEW e \in Event,
           events' = Append(events, e),
           \/ Reached(e) = incident'.status
           \/ /\ Reached(e) = NoStatus
              /\ incident'.status = incident.status
              /\ StatusIsLastOnTimeline
    PROVE  StatusIsLastOnTimeline'
<1>1. /\ Len(events) \in Nat
      /\ DOMAIN events = 1 .. Len(events)
      /\ Len(events') = Len(events) + 1
      /\ DOMAIN events' = 1 .. Len(events) + 1
      /\ events'[Len(events) + 1] = e
      /\ \A i \in 1 .. Len(events) : events'[i] = events[i]
  OBVIOUS
<1>2. CASE Reached(e) = incident'.status
  <2>1. /\ Len(events) + 1 \in DOMAIN events'
        /\ Reached(events'[Len(events) + 1]) = incident'.status
        /\ (Len(events) + 1) + 1 .. Len(events') = {}
    BY <1>1, <1>2
  <2> QED
    BY <2>1 DEF StatusIsLastOnTimeline
<1>3. CASE /\ Reached(e) = NoStatus
           /\ incident'.status = incident.status
           /\ StatusIsLastOnTimeline
  <2>1. PICK n \in 1 .. Len(events) :
            /\ Reached(events[n]) = incident.status
            /\ \A m \in n + 1 .. Len(events) : Reached(events[m]) = NoStatus
    BY <1>1, <1>3 DEF StatusIsLastOnTimeline
  <2>2. n \in DOMAIN events' /\ Reached(events'[n]) = incident'.status
    BY <1>1, <1>3, <2>1
  <2>3. \A m \in n + 1 .. Len(events') : Reached(events'[m]) = NoStatus
    <3> TAKE m \in n + 1 .. Len(events')
    <3>1. CASE m = Len(events) + 1
      BY <1>1, <1>3, <3>1
    <3>2. CASE m # Len(events) + 1
      BY <1>1, <2>1, <3>2
    <3> QED
      BY <3>1, <3>2
  <2> QED
    BY <2>2, <2>3 DEF StatusIsLastOnTimeline
<1> QED
  BY <1>2, <1>3

(* Called one after the other, the endpoints keep the timeline readable as *)
(* the history of the row: the last status it names is the row's.          *)
THEOREM SerialStatusIsLastOnTimeline ==
    ASSUME NoOverlap
    PROVE  Spec => []StatusIsLastOnTimeline
<1>1. Init => StatusIsLastOnTimeline
  <2> SUFFICES ASSUME Init PROVE StatusIsLastOnTimeline
    OBVIOUS
  <2>1. /\ DOMAIN events = {1} /\ Len(events) = 1
        /\ events[1].type = "incident_created"
        /\ incident.status = "detected"
    BY DEF Init, PlainEvent, CreatedRow
  <2>2. Reached(events[1]) = incident.status /\ 1 + 1 .. Len(events) = {}
    BY <2>1 DEF Reached
  <2> QED
    BY <2>1, <2>2 DEF StatusIsLastOnTimeline
<1>2. SerialInv /\ StatusIsLastOnTimeline /\ [Next]_vars
        => StatusIsLastOnTimeline'
  <2> SUFFICES ASSUME SerialInv, StatusIsLastOnTimeline, [Next]_vars
               PROVE  StatusIsLastOnTimeline'
    OBVIOUS
  <2>1. /\ incident \in Row /\ events \in Seq(Event)
        /\ incident.status \in IncidentStatus
    BY DEF SerialInv, Inv, Typed, TypeOK, Row
  <2>2. CASE UNCHANGED tables
    BY <2>2 DEF tables, StatusIsLastOnTimeline
  <2>3. ASSUME NEW f \in Fields, Atomic!Update(f)
        PROVE  StatusIsLastOnTimeline'
    <3>1. incident'.status = incident.status /\ events' = events
      BY <2>1, <2>3 DEF Atomic!Update, Row
    <3> QED
      BY <3>1 DEF StatusIsLastOnTimeline
  <2>4. ASSUME NEW s \in IncidentStatus, Atomic!ChangeStatus(s)
        PROVE  StatusIsLastOnTimeline'
    <3> DEFINE e == [type |-> "status_changed",
                     from |-> incident.status, to |-> s]
    <3>1. e \in Event /\ Reached(e) = s
      BY <2>1 DEF Event, EventType, Reached
    <3>2. events' = Append(events, e) /\ incident'.status = s
      BY <2>1, <2>4, <3>1 DEF Atomic!ChangeStatus, Atomic!Log, Row
    <3> HIDE DEF e
    <3> QED
      BY <2>1, <3>1, <3>2, LastStatus
  <2>5. CASE Atomic!Resolve
    <3> DEFINE e == [type |-> "resolution_added",
                     from |-> "none", to |-> "none"]
    <3>1. e \in Event /\ Reached(e) = "resolved"
      BY DEF Event, EventType, Reached, NoStatus
    <3>2. events' = Append(events, e) /\ incident'.status = "resolved"
      BY <2>1, <2>5, <3>1 DEF Atomic!Resolve, Atomic!Log, Row
    <3> HIDE DEF e
    <3> QED
      BY <2>1, <3>1, <3>2, LastStatus
  <2>6. CASE Atomic!Reopen
    <3> DEFINE e == [type |-> "status_changed",
                     from |-> "none", to |-> "reopened"]
    <3>1. e \in Event /\ Reached(e) = "reopened"
      BY DEF Event, EventType, IncidentStatus, Reached, NoStatus
    <3>2. events' = Append(events, e) /\ incident'.status = "reopened"
      BY <2>1, <2>6, <3>1 DEF Atomic!Reopen, Atomic!Log, Row
    <3> HIDE DEF e
    <3> QED
      BY <2>1, <3>1, <3>2, LastStatus
  <2>7. ASSUME NEW type \in {"assigned", "unassigned", "acknowledged"},
               events' = Append(events,
                           [type |-> type, from |-> "none", to |-> "none"]),
               incident'.status = incident.status
        PROVE  StatusIsLastOnTimeline'
    <3> DEFINE e == [type |-> type, from |-> "none", to |-> "none"]
    <3>1. e \in Event /\ Reached(e) = NoStatus
      BY DEF Event, EventType, Reached, NoStatus
    <3>2. events' = Append(events, e)
      BY <2>7
    <3> HIDE DEF e
    <3> QED
      BY <2>1, <2>7, <3>1, <3>2, LastStatus
  <2>8. CASE \/ \E u \in Users : Atomic!Assign(u)
             \/ Atomic!Unassign
             \/ Atomic!Acknowledge
    BY <2>1, <2>7, <2>8 DEF Atomic!Assign, Atomic!Unassign,
                            Atomic!Acknowledge, Atomic!Log, Row
  <2>9. CASE Atomic!Next
    BY <2>3, <2>4, <2>5, <2>6, <2>8, <2>9, SameRules DEF Atomic!Next
  <2> QED
    BY <2>2, <2>9, TablesStep, CommitAtomic, NoOverlap
<1> QED
  BY <1>1, <1>2, SerialInvariance, NoOverlap, PTL DEF Spec
=============================================================================
