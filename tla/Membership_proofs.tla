-------------------------- MODULE Membership_proofs --------------------------
(***************************************************************************)
(* An organization keeps an active owner when its membership requests do   *)
(* not overlap, for every set of users, roles and platform admins.         *)
(***************************************************************************)
EXTENDS Membership, FiniteSetTheorems, TLAPS

NoOverlap == \A v, w \in Workers : v = w

(* Where a finite set counts more than one element there is a second one.  *)
LEMMA AnotherElement ==
    ASSUME NEW S, IsFiniteSet(S), Cardinality(S) > 1, NEW x
    PROVE  \E y \in S : y # x
<1> SUFFICES ASSUME \A y \in S : y = x
             PROVE  FALSE
  OBVIOUS
<1>1. CASE S = {}
  BY <1>1, FS_EmptySet
<1>2. CASE S # {}
  <2>1. S = {x}
    BY <1>2
  <2>2. Cardinality({x}) = 1
    BY FS_Singleton
  <2> QED
    BY <2>1, <2>2
<1> QED
  BY <1>1, <1>2

(* The organization would still have an owner with row in place of the     *)
(* target's.                                                               *)
Covered(t, row) ==
    \/ row.role = Owner /\ row.active
    \/ \E u \in Users : u # t /\ members[u].role = Owner /\ members[u].active

(* What the only request in flight holds: rows as they are committed, and  *)
(* an object whose flush would leave an owner.                             *)
HoldsFreshRows ==
    \A w \in Workers :
        LET r == req[w]
        IN  /\ r.phase = "entered" => r.self = members[r.caller]
            /\ r.phase \in {"adding", "loaded", "role_done", "ready"} =>
                  r.loaded = members[r.target]
            /\ r.phase = "adding" =>
                  ~r.loaded.active /\ r.now \in [role: Roles, active: {TRUE}]
            /\ r.phase \in {"loaded", "role_done", "ready"} =>
                  /\ r.now \in [role: Roles, active: BOOLEAN]
                  /\ Covered(r.target, r.now)

Inv == TypeOK /\ HasActiveOwner /\ HoldsFreshRows

(* Every guard that passes leaves an owner beside the target, or leaves    *)
(* the target an owner.                                                    *)
LEMMA GuardCovers ==
    ASSUME TypeOK, NEW w \in Workers, NEW removes \in BOOLEAN,
           Covered(req[w].target, req[w].now), GuardPasses(w, removes), removes
    PROVE  \E u \in Users : /\ u # req[w].target
                            /\ members[u].role = Owner /\ members[u].active
<1>1. CASE req[w].now.role # Owner \/ ~req[w].now.active
  BY <1>1 DEF Covered
<1>2. CASE Cardinality(ActiveOwners(members)) > 1
  <2>1. ActiveOwners(members) \subseteq Users
    BY DEF ActiveOwners, TypeOK
  <2>2. IsFiniteSet(ActiveOwners(members))
    BY <2>1, UsersAssumption, FS_Subset
  <2>3. PICK u \in ActiveOwners(members) : u # req[w].target
    BY <1>2, <2>2, AnotherElement
  <2> QED
    BY <2>1, <2>3 DEF ActiveOwners
<1> QED
  BY <1>1, <1>2 DEF GuardPasses

LEMMA InitInv == Init => Inv
<1> SUFFICES ASSUME Init PROVE Inv
  OBVIOUS
<1>1. NoRequest \in Request /\ NoRequest.phase = "idle"
  BY UsersAssumption DEF NoRequest, Request, Phase, Activity, Member, Absent
<1>2. TypeOK
  BY <1>1, RolesAssumption DEF Init, TypeOK, Member
<1>3. Founder \in ActiveOwners(members)
  BY UsersAssumption DEF Init, ActiveOwners
<1>4. HoldsFreshRows
  BY <1>1 DEF Init, HoldsFreshRows
<1> QED
  BY <1>2, <1>3, <1>4 DEF Inv, HasActiveOwner
-----------------------------------------------------------------------------
(* Steps that only change the request: it is the only one, so its new      *)
(* value decides the invariant.                                            *)
LEMMA RequestStep ==
    ASSUME NoOverlap, Inv, NEW w \in Workers, NEW r \in Request,
           req' = [req EXCEPT ![w] = r], UNCHANGED members,
           r.phase = "entered" => r.self = members[r.caller],
           r.phase \in {"adding", "loaded", "role_done", "ready"} =>
              r.loaded = members[r.target],
           r.phase = "adding" =>
              ~r.loaded.active /\ r.now \in [role: Roles, active: {TRUE}],
           r.phase \in {"loaded", "role_done", "ready"} =>
              /\ r.now \in [role: Roles, active: BOOLEAN]
              /\ Covered(r.target, r.now)
    PROVE  Inv'
<1>1. /\ req' \in [Workers -> Request]
      /\ \A v \in Workers : req'[v] = r
  BY DEF NoOverlap, Inv, TypeOK
<1>2. TypeOK' /\ HasActiveOwner'
  BY <1>1 DEF Inv, TypeOK, HasActiveOwner
<1>3. \A t, row : Covered(t, row)' <=> Covered(t, row)
  BY DEF Covered
<1>4. HoldsFreshRows'
  BY <1>1, <1>3 DEF HoldsFreshRows
<1> QED
  BY <1>2, <1>4 DEF Inv

LEMMA NoRequestType ==
    NoRequest \in Request /\ NoRequest.phase = "idle"
BY UsersAssumption DEF NoRequest, Request, Phase, Activity, Member, Absent

LEMMA EnterStep ==
    ASSUME NoOverlap, Inv, NEW w \in Workers, NEW u \in Users, Enter(w, u)
    PROVE  Inv'
<1> DEFINE r == [NoRequest EXCEPT !.phase = "entered", !.caller = u,
                                  !.self = members[u]]
<1>1. members[u] \in Member
  BY DEF Inv, TypeOK
<1>2. /\ r \in Request /\ r.phase = "entered" /\ r.caller = u
      /\ r.self = members[u]
  BY <1>1, NoRequestType DEF Request, Phase
<1>3. req' = [req EXCEPT ![w] = r] /\ UNCHANGED members
  BY DEF Enter
<1> HIDE DEF r
<1> QED
  BY <1>2, <1>3, RequestStep

(* Whatever the only request sees is committed.                            *)
LEMMA SeenIsFresh ==
    ASSUME Inv, NEW w \in Workers, NEW u \in Users, req[w].phase = "entered"
    PROVE  /\ Seen(w, u) = members[u]
           /\ members[u] \in Member
BY DEF Inv, HoldsFreshRows, TypeOK, Seen

LEMMA LoadAddStep ==
    ASSUME NoOverlap, Inv, NEW w \in Workers, NEW u \in Users,
           NEW role \in Roles, LoadAdd(w, u, role)
    PROVE  Inv'
<1> DEFINE r == [req[w] EXCEPT !.phase = "adding", !.target = u,
                               !.loaded = Seen(w, u),
                               !.now = [role |-> role, active |-> TRUE]]
<1>1. /\ Seen(w, u) = members[u] /\ members[u] \in Member
      /\ ~members[u].active
      /\ req[w] \in Request
      /\ req' = [req EXCEPT ![w] = r] /\ UNCHANGED members
  BY SeenIsFresh DEF LoadAdd, Inv, TypeOK
<1>2. [role |-> role, active |-> TRUE] \in [role: Roles, active: {TRUE}]
  OBVIOUS
<1>3. [role |-> role, active |-> TRUE] \in Member
  BY DEF Member
<1>4. /\ r \in Request /\ r.phase = "adding" /\ r.target = u
      /\ r.loaded = members[u] /\ r.now = [role |-> role, active |-> TRUE]
  BY <1>1, <1>3 DEF Request, Phase
<1> HIDE DEF r
<1> QED
  BY <1>1, <1>2, <1>4, RequestStep

LEMMA LoadMemberStep ==
    ASSUME NoOverlap, Inv, NEW w \in Workers, NEW u \in Users,
           NEW role \in Roles \cup {NoRole}, NEW active \in Activity,
           LoadMember(w, u, role, active)
    PROVE  Inv'
<1> DEFINE r == [req[w] EXCEPT !.phase = "loaded", !.target = u,
                               !.loaded = Seen(w, u), !.now = Seen(w, u),
                               !.role = role, !.active = active]
<1>1. /\ Seen(w, u) = members[u] /\ members[u] \in Member
      /\ members[u] # Absent
      /\ req[w] \in Request
      /\ req' = [req EXCEPT ![w] = r] /\ UNCHANGED members
  BY SeenIsFresh DEF LoadMember, Inv, TypeOK
<1>2. members[u] \in [role: Roles, active: BOOLEAN]
  BY <1>1 DEF Member
<1>3. Covered(u, members[u])
  <2>1. PICK o \in Users : members[o].role = Owner /\ members[o].active
    BY DEF Inv, HasActiveOwner, ActiveOwners, TypeOK
  <2> QED
    BY <2>1 DEF Covered
<1>4. /\ r \in Request /\ r.phase = "loaded" /\ r.target = u
      /\ r.loaded = members[u] /\ r.now = members[u]
  BY <1>1 DEF Request, Phase
<1> HIDE DEF r
<1> QED
  BY <1>1, <1>2, <1>3, <1>4, RequestStep

LEMMA AssignRoleStep ==
    ASSUME NoOverlap, Inv, NEW w \in Workers, AssignRole(w)
    PROVE  Inv'
<1> DEFINE q == req[w]
           now == [q.now EXCEPT !.role = IF q.role = NoRole THEN q.now.role ELSE q.role]
           r == [q EXCEPT !.phase = "role_done", !.now = now]
<1>1. /\ q \in Request /\ q.phase = "loaded"
      /\ q.loaded = members[q.target]
      /\ q.now \in [role: Roles, active: BOOLEAN]
      /\ Covered(q.target, q.now)
      /\ req' = [req EXCEPT ![w] = r] /\ UNCHANGED members
  BY DEF AssignRole, Inv, HoldsFreshRows, TypeOK
<1>2. q.role \in Roles \cup {NoRole}
  BY <1>1 DEF Request
<1>3. /\ now \in [role: Roles, active: BOOLEAN]
      /\ now.active = q.now.active
      /\ now.role = IF q.role = NoRole THEN q.now.role ELSE q.role
  BY <1>1, <1>2
<1>4. Covered(q.target, now)
  <2>1. CASE q.role = NoRole \/ q.role = Owner
    BY <1>1, <1>3, <2>1 DEF Covered
  <2>2. CASE q.role # NoRole /\ q.role # Owner
    <3>1. GuardPasses(w, TRUE)
      BY <2>2 DEF AssignRole
    <3> QED
      BY <1>1, <3>1, GuardCovers DEF Covered, Inv
  <2> QED
    BY <2>1, <2>2
<1>5. /\ r \in Request /\ r.phase = "role_done" /\ r.target = q.target
      /\ r.loaded = q.loaded /\ r.now = now
  BY <1>1, <1>3 DEF Request, Phase, Member
<1> HIDE DEF r, now, q
<1> QED
  BY <1>1, <1>3, <1>4, <1>5, RequestStep

LEMMA AssignActiveStep ==
    ASSUME NoOverlap, Inv, NEW w \in Workers, AssignActive(w)
    PROVE  Inv'
<1> DEFINE q == req[w]
           now == [q.now EXCEPT !.active =
                      IF q.active = "keep" THEN q.now.active
                      ELSE q.active = "activate"]
           r == [q EXCEPT !.phase = "ready", !.now = now]
<1>1. /\ q \in Request /\ q.phase = "role_done"
      /\ q.loaded = members[q.target]
      /\ q.now \in [role: Roles, active: BOOLEAN]
      /\ Covered(q.target, q.now)
      /\ req' = [req EXCEPT ![w] = r] /\ UNCHANGED members
  BY DEF AssignActive, Inv, HoldsFreshRows, TypeOK
<1>2. q.active \in Activity
  BY <1>1 DEF Request
<1>3. /\ now \in [role: Roles, active: BOOLEAN]
      /\ now.role = q.now.role
      /\ q.active = "keep" => now.active = q.now.active
      /\ q.active = "activate" => now.active = TRUE
  BY <1>1, <1>2 DEF Activity
<1>4. Covered(q.target, now)
  <2>1. CASE q.active \in {"keep", "activate"}
    BY <1>1, <1>3, <2>1 DEF Covered
  <2>2. CASE q.active = "deactivate"
    <3>1. GuardPasses(w, TRUE)
      BY <2>2 DEF AssignActive
    <3> QED
      BY <1>1, <3>1, GuardCovers DEF Covered, Inv
  <2> QED
    BY <1>2, <2>1, <2>2 DEF Activity
<1>5. /\ r \in Request /\ r.phase = "ready" /\ r.target = q.target
      /\ r.loaded = q.loaded /\ r.now = now
  BY <1>1, <1>3 DEF Request, Phase, Member
<1> HIDE DEF r, now, q
<1> QED
  BY <1>1, <1>3, <1>4, <1>5, RequestStep
(* Steps that write the target's row and end the request.                  *)
LEMMA CommitStep ==
    ASSUME NoOverlap, Inv, NEW w \in Workers, Finish(w),
           NEW u \in Users, NEW row \in [role: Roles, active: BOOLEAN],
           members' = [members EXCEPT ![u] = row], Covered(u, row)
    PROVE  Inv'
<1>1. /\ req' \in [Workers -> Request]
      /\ \A v \in Workers : req'[v] = NoRequest
  BY NoRequestType DEF NoOverlap, Finish, Inv, TypeOK
<1>2. /\ members' \in [Users -> Member]
      /\ members'[u] = row
      /\ \A v \in Users : v # u => members'[v] = members[v]
  BY DEF Inv, TypeOK, Member
<1>3. TypeOK'
  BY <1>1, <1>2 DEF TypeOK
<1>4. \E o \in Users : members'[o].role = Owner /\ members'[o].active
  BY <1>2 DEF Covered
<1>5. HasActiveOwner'
  BY <1>2, <1>4 DEF HasActiveOwner, ActiveOwners
<1>6. HoldsFreshRows'
  BY <1>1, NoRequestType DEF HoldsFreshRows
<1> QED
  BY <1>3, <1>5, <1>6 DEF Inv

(* A flush of a fresh load writes the object as it is.                     *)
LEMMA FreshFlush ==
    ASSUME NEW row \in Member, NEW now \in [role: Roles, active: BOOLEAN]
    PROVE  FlushedRow(row, row, now) = now
<1>1. FlushedRow(row, row, now) = [role |-> now.role, active |-> now.active]
  BY DEF FlushedRow, Flushed
<1>2. now = [role |-> now.role, active |-> now.active]
  OBVIOUS
<1> QED
  BY <1>1, <1>2

LEMMA CommitAddStep ==
    ASSUME NoOverlap, Inv, NEW w \in Workers, CommitAdd(w)
    PROVE  Inv'
<1> DEFINE q == req[w]
<1>1. /\ q \in Request /\ q.phase = "adding" /\ q.target \in Users
      /\ q.loaded = members[q.target] /\ ~q.loaded.active
      /\ q.now \in [role: Roles, active: {TRUE}]
      /\ members[q.target] \in Member
      /\ Finish(w)
  BY DEF CommitAdd, Inv, HoldsFreshRows, TypeOK, Request
<1>2. q.now \in [role: Roles, active: BOOLEAN]
  BY <1>1
<1>3. members' = [members EXCEPT ![q.target] = q.now]
  <2>1. FlushedRow(members[q.target], q.loaded, q.now) = q.now
    BY <1>1, <1>2, FreshFlush
  <2> HIDE DEF q
  <2>2. members' = [members EXCEPT ![q.target] =
                       IF q.loaded = Absent THEN q.now
                       ELSE FlushedRow(members[q.target], q.loaded, q.now)]
    BY DEF CommitAdd, q
  <2> QED
    BY <2>1, <2>2
<1>4. Covered(q.target, q.now)
  <2>1. PICK o \in Users : members[o].role = Owner /\ members[o].active
    BY DEF Inv, HasActiveOwner, ActiveOwners, TypeOK
  <2> QED
    BY <1>1, <2>1 DEF Covered
<1> QED
  BY <1>1, <1>2, <1>3, <1>4, CommitStep

LEMMA CommitMemberStep ==
    ASSUME NoOverlap, Inv, NEW w \in Workers, CommitMember(w)
    PROVE  Inv'
<1> DEFINE q == req[w]
<1>1. /\ q \in Request /\ q.phase = "ready" /\ q.target \in Users
      /\ q.loaded = members[q.target]
      /\ q.now \in [role: Roles, active: BOOLEAN]
      /\ Covered(q.target, q.now)
      /\ members[q.target] \in Member
      /\ Finish(w)
  BY DEF CommitMember, Inv, HoldsFreshRows, TypeOK, Request
<1>2. FlushedRow(members[q.target], q.loaded, q.now) = q.now
  BY <1>1, FreshFlush
<1>3. members' = [members EXCEPT ![q.target] = q.now]
  BY <1>1, <1>2 DEF CommitMember
<1> QED
  BY <1>1, <1>3, CommitStep

LEMMA RollbackStep ==
    ASSUME NoOverlap, Inv, NEW w \in Workers, Rollback(w)
    PROVE  Inv'
<1>1. req' = [req EXCEPT ![w] = NoRequest] /\ UNCHANGED members
  BY DEF Rollback, Finish
<1> QED
  BY <1>1, NoRequestType, RequestStep

(* Requests that do not overlap never leave an organization without an     *)
(* active owner, and keep its membership rows well typed.                  *)
THEOREM SerialOwnerAlwaysRemains ==
    ASSUME NoOverlap
    PROVE  Spec => [](TypeOK /\ HasActiveOwner)
<1>1. Inv /\ [Next]_vars => Inv'
  <2> SUFFICES ASSUME Inv, [Next]_vars PROVE Inv'
    OBVIOUS
  <2>1. CASE UNCHANGED vars
    BY <2>1 DEF Inv, TypeOK, HasActiveOwner, HoldsFreshRows, Covered, vars
  <2>2. CASE Next
    BY <2>2, NoOverlap, EnterStep, LoadAddStep, CommitAddStep, LoadMemberStep,
       AssignRoleStep, AssignActiveStep, CommitMemberStep, RollbackStep
       DEF Next
  <2> QED
    BY <2>1, <2>2
<1>2. Inv => TypeOK /\ HasActiveOwner
  BY DEF Inv
<1> QED
  BY <1>1, <1>2, InitInv, PTL DEF Spec
-----------------------------------------------------------------------------
(* Requests that overlap may leave the organization without an owner, but  *)
(* the rows they write are well typed: an UPDATE that combines columns of  *)
(* two requests combines real rows, for a row that was once there is never *)
(* absent again.                                                           *)
RealRow == [role: Roles, active: BOOLEAN]

(* What a request holds of a row that existed when it was read still       *)
(* exists, and whatever it will write is a row.                            *)
RequestHoldsRows(r) ==
    /\ r.phase = "entered" /\ r.self # Absent => members[r.caller] \in RealRow
    /\ r.phase = "adding" =>
          /\ r.now \in RealRow
          /\ r.loaded # Absent =>
                r.loaded \in RealRow /\ members[r.target] \in RealRow
    /\ r.phase \in {"loaded", "role_done", "ready"} =>
          /\ r.loaded \in RealRow /\ r.now \in RealRow
          /\ members[r.target] \in RealRow

RowInv == TypeOK /\ \A w \in Workers : RequestHoldsRows(req[w])

LEMMA AbsentIsNoRow ==
    /\ Absent \notin RealRow
    /\ \A row \in Member : row # Absent <=> row \in RealRow
<1>1. NoRole \notin Roles
  BY RolesAssumption DEF NoRole, OrganizationRole
<1>2. Absent \notin RealRow
  BY <1>1 DEF Absent, RealRow
<1> QED
  BY <1>2 DEF Member, RealRow

(* A step of the request w to r that writes no row.                        *)
LEMMA RequestStepTyped ==
    ASSUME RowInv, NEW w \in Workers, NEW r \in Request,
           req' = [req EXCEPT ![w] = r], UNCHANGED members, RequestHoldsRows(r)
    PROVE  RowInv'
<1>1. /\ req' \in [Workers -> Request]
      /\ req'[w] = r
      /\ \A v \in Workers : v # w => req'[v] = req[v]
  BY DEF RowInv, TypeOK
<1>2. TypeOK'
  BY <1>1 DEF RowInv, TypeOK
<1>3. \A q : RequestHoldsRows(q)' <=> RequestHoldsRows(q)
  BY DEF RequestHoldsRows
<1>4. ASSUME NEW v \in Workers PROVE RequestHoldsRows(req'[v])
  BY <1>1 DEF RowInv
<1>5. \A v \in Workers : RequestHoldsRows(req[v])'
  BY <1>4 DEF RequestHoldsRows
<1> QED
  BY <1>2, <1>5 DEF RowInv

(* A commit of a real row, which takes none away from the others.          *)
LEMMA CommitStepTyped ==
    ASSUME RowInv, NEW w \in Workers, Finish(w),
           NEW u \in Users, NEW row \in RealRow,
           members' = [members EXCEPT ![u] = row]
    PROVE  RowInv'
<1>1. /\ req' \in [Workers -> Request]
      /\ req'[w] = NoRequest
      /\ \A v \in Workers : v # w => req'[v] = req[v]
  BY NoRequestType DEF Finish, RowInv, TypeOK
<1>2. /\ members' \in [Users -> Member]
      /\ \A v \in Users : members[v] \in RealRow => members'[v] \in RealRow
  BY DEF RowInv, TypeOK, Member, RealRow
<1>3. TypeOK'
  BY <1>1, <1>2 DEF TypeOK
<1>4. ASSUME NEW v \in Workers PROVE RequestHoldsRows(req[v])'
  <2>1. CASE v = w
    BY <1>1, <2>1, NoRequestType DEF RequestHoldsRows
  <2>2. CASE v # w
    <3>1. req'[v] = req[v] /\ req[v] \in Request /\ RequestHoldsRows(req[v])
      BY <1>1, <2>2 DEF RowInv, TypeOK
    <3>2. req[v].caller \in Users /\ req[v].target \in Users
      BY <3>1 DEF Request
    <3> QED
      BY <1>2, <3>1, <3>2 DEF RequestHoldsRows
  <2> QED
    BY <2>1, <2>2
<1> QED
  BY <1>3, <1>4 DEF RowInv

(* The UPDATE takes each column from the row or from the object.           *)
LEMMA FlushIsRow ==
    ASSUME NEW row \in RealRow, NEW loaded \in RealRow, NEW now \in RealRow
    PROVE  FlushedRow(row, loaded, now) \in RealRow
BY DEF FlushedRow, Flushed, RealRow

(* A row the request sees as present is still there.                       *)
LEMMA SeenStays ==
    ASSUME RowInv, NEW w \in Workers, NEW u \in Users, req[w].phase = "entered"
    PROVE  /\ Seen(w, u) \in Member
           /\ Seen(w, u) # Absent =>
                 Seen(w, u) \in RealRow /\ members[u] \in RealRow
<1>1. req[w] \in Request /\ RequestHoldsRows(req[w]) /\ members[u] \in Member
  BY DEF RowInv, TypeOK
<1>2. req[w].self \in Member
  BY <1>1 DEF Request
<1>3. CASE u = req[w].caller
  BY <1>1, <1>2, <1>3, AbsentIsNoRow DEF Seen, RequestHoldsRows
<1>4. CASE u # req[w].caller
  BY <1>1, <1>4, AbsentIsNoRow DEF Seen
<1> QED
  BY <1>3, <1>4

LEMMA EnterTyped ==
    ASSUME RowInv, NEW w \in Workers, NEW u \in Users, Enter(w, u)
    PROVE  RowInv'
<1> DEFINE r == [NoRequest EXCEPT !.phase = "entered", !.caller = u,
                                  !.self = members[u]]
<1>1. members[u] \in Member
  BY DEF RowInv, TypeOK
<1>2. /\ r \in Request /\ r.phase = "entered" /\ r.caller = u
      /\ r.self = members[u]
  BY <1>1, NoRequestType DEF Request, Phase
<1>3. req' = [req EXCEPT ![w] = r] /\ UNCHANGED members
  BY DEF Enter
<1> HIDE DEF r
<1>4. RequestHoldsRows(r)
  BY <1>1, <1>2, AbsentIsNoRow DEF RequestHoldsRows
<1> QED
  BY <1>2, <1>3, <1>4, RequestStepTyped

LEMMA LoadTyped ==
    ASSUME RowInv, NEW w \in Workers, NEW u \in Users,
           \/ \E role \in Roles : LoadAdd(w, u, role)
           \/ \E role \in Roles \cup {NoRole}, active \in Activity :
                 LoadMember(w, u, role, active)
    PROVE  RowInv'
<1>1. req[w].phase = "entered" /\ req[w] \in Request
  BY DEF LoadAdd, LoadMember, RowInv, TypeOK
<1>2. /\ Seen(w, u) \in Member
      /\ Seen(w, u) # Absent =>
            Seen(w, u) \in RealRow /\ members[u] \in RealRow
  BY <1>1, SeenStays
<1>3. ASSUME NEW role \in Roles, LoadAdd(w, u, role)
      PROVE  RowInv'
  <2> DEFINE r == [req[w] EXCEPT !.phase = "adding", !.target = u,
                                 !.loaded = Seen(w, u),
                                 !.now = [role |-> role, active |-> TRUE]]
  <2>1. /\ [role |-> role, active |-> TRUE] \in RealRow
        /\ [role |-> role, active |-> TRUE] \in Member
    BY DEF RealRow, Member
  <2>2. /\ r \in Request /\ r.phase = "adding" /\ r.target = u
        /\ r.loaded = Seen(w, u) /\ r.now \in RealRow
    BY <1>1, <1>2, <2>1 DEF Request, Phase
  <2>3. req' = [req EXCEPT ![w] = r] /\ UNCHANGED members
    BY <1>3 DEF LoadAdd
  <2> HIDE DEF r
  <2>4. RequestHoldsRows(r)
    BY <1>2, <2>2 DEF RequestHoldsRows
  <2> QED
    BY <2>2, <2>3, <2>4, RequestStepTyped
<1>4. ASSUME NEW role \in Roles \cup {NoRole}, NEW active \in Activity,
             LoadMember(w, u, role, active)
      PROVE  RowInv'
  <2> DEFINE r == [req[w] EXCEPT !.phase = "loaded", !.target = u,
                                 !.loaded = Seen(w, u), !.now = Seen(w, u),
                                 !.role = role, !.active = active]
  <2>1. Seen(w, u) \in RealRow /\ members[u] \in RealRow
    BY <1>2, <1>4 DEF LoadMember
  <2>2. /\ r \in Request /\ r.phase = "loaded" /\ r.target = u
        /\ r.loaded = Seen(w, u) /\ r.now = Seen(w, u)
    BY <1>1, <1>2 DEF Request, Phase
  <2>3. req' = [req EXCEPT ![w] = r] /\ UNCHANGED members
    BY <1>4 DEF LoadMember
  <2> HIDE DEF r
  <2>4. RequestHoldsRows(r)
    BY <2>1, <2>2 DEF RequestHoldsRows
  <2> QED
    BY <2>2, <2>3, <2>4, RequestStepTyped
<1> QED
  BY <1>3, <1>4

LEMMA AssignTyped ==
    ASSUME RowInv, NEW w \in Workers, AssignRole(w) \/ AssignActive(w)
    PROVE  RowInv'
<1> DEFINE q == req[w]
<1>1. /\ q \in Request /\ q.phase \in {"loaded", "role_done"}
      /\ q.loaded \in RealRow /\ q.now \in RealRow
      /\ members[q.target] \in RealRow
  BY DEF AssignRole, AssignActive, RowInv, TypeOK, RequestHoldsRows
<1>2. ASSUME NEW now \in RealRow, NEW phase \in {"role_done", "ready"},
             req' = [req EXCEPT ![w] = [q EXCEPT !.phase = phase, !.now = now]],
             UNCHANGED members
      PROVE  RowInv'
  <2> DEFINE r == [q EXCEPT !.phase = phase, !.now = now]
  <2>1. /\ r \in Request /\ r.phase = phase /\ r.target = q.target
        /\ r.loaded = q.loaded /\ r.now = now
    BY <1>1 DEF Request, Phase, Member, RealRow
  <2>2. req' = [req EXCEPT ![w] = r]
    BY <1>2
  <2> HIDE DEF r, q
  <2>3. RequestHoldsRows(r)
    BY <1>1, <2>1 DEF RequestHoldsRows
  <2> QED
    BY <1>2, <2>1, <2>2, <2>3, RequestStepTyped
<1>3. CASE AssignRole(w)
  <2> DEFINE now == [q.now EXCEPT !.role = IF q.role = NoRole THEN q.now.role
                                           ELSE q.role]
  <2>1. q.role \in Roles \cup {NoRole}
    BY <1>1 DEF Request
  <2>2. now \in RealRow
    BY <1>1, <2>1 DEF RealRow
  <2>3. /\ req' = [req EXCEPT ![w] = [q EXCEPT !.phase = "role_done", !.now = now]]
        /\ UNCHANGED members
    BY <1>3 DEF AssignRole
  <2> HIDE DEF now, q
  <2> QED
    BY <1>2, <2>2, <2>3
<1>4. CASE AssignActive(w)
  <2> DEFINE now == [q.now EXCEPT !.active = IF q.active = "keep"
                                             THEN q.now.active
                                             ELSE q.active = "activate"]
  <2>1. now \in RealRow
    BY <1>1 DEF RealRow
  <2>2. /\ req' = [req EXCEPT ![w] = [q EXCEPT !.phase = "ready", !.now = now]]
        /\ UNCHANGED members
    BY <1>4 DEF AssignActive
  <2> HIDE DEF now, q
  <2> QED
    BY <1>2, <2>1, <2>2
<1> QED
  BY <1>3, <1>4

LEMMA CommitTyped ==
    ASSUME RowInv, NEW w \in Workers, CommitAdd(w) \/ CommitMember(w)
    PROVE  RowInv'
<1> DEFINE q == req[w]
<1>1. /\ q \in Request /\ q.target \in Users /\ RequestHoldsRows(q)
      /\ Finish(w)
  BY DEF CommitAdd, CommitMember, RowInv, TypeOK, Request
<1>2. \E row \in RealRow : members' = [members EXCEPT ![q.target] = row]
  <2>1. CASE CommitAdd(w) /\ q.loaded = Absent
    <3>1. q.now \in RealRow
      BY <1>1, <2>1 DEF CommitAdd, RequestHoldsRows
    <3>2. members' = [members EXCEPT ![q.target] = q.now]
      BY <2>1 DEF CommitAdd
    <3> QED
      BY <3>1, <3>2
  <2>2. CASE CommitAdd(w) /\ q.loaded # Absent
    <3>1. /\ q.now \in RealRow /\ q.loaded \in RealRow
          /\ members[q.target] \in RealRow
      BY <1>1, <2>2 DEF CommitAdd, RequestHoldsRows
    <3>2. members' = [members EXCEPT ![q.target] =
                         FlushedRow(members[q.target], q.loaded, q.now)]
      BY <2>2 DEF CommitAdd
    <3> QED
      BY <3>1, <3>2, FlushIsRow
  <2>3. CASE CommitMember(w)
    <3>1. /\ q.now \in RealRow /\ q.loaded \in RealRow
          /\ members[q.target] \in RealRow
      BY <1>1, <2>3 DEF CommitMember, RequestHoldsRows
    <3>2. members' = [members EXCEPT ![q.target] =
                         FlushedRow(members[q.target], q.loaded, q.now)]
      BY <2>3 DEF CommitMember
    <3> QED
      BY <3>1, <3>2, FlushIsRow
  <2> QED
    BY <2>1, <2>2, <2>3
<1> HIDE DEF q
<1> QED
  BY <1>1, <1>2, CommitStepTyped

(* Membership rows and what requests hold of them are well typed, however  *)
(* the requests overlap.                                                   *)
THEOREM TypeCorrect == Spec => []TypeOK
<1>1. Init => RowInv
  <2> SUFFICES ASSUME Init PROVE RowInv
    OBVIOUS
  <2>1. TypeOK
    BY InitInv DEF Inv
  <2> QED
    BY <2>1, NoRequestType DEF Init, RowInv, RequestHoldsRows
<1>2. RowInv /\ [Next]_vars => RowInv'
  <2> SUFFICES ASSUME RowInv, [Next]_vars PROVE RowInv'
    OBVIOUS
  <2>1. CASE UNCHANGED vars
    BY <2>1 DEF RowInv, TypeOK, RequestHoldsRows, vars
  <2>2. ASSUME NEW w \in Workers, Rollback(w)
        PROVE  RowInv'
    <3>1. req' = [req EXCEPT ![w] = NoRequest] /\ UNCHANGED members
      BY <2>2 DEF Rollback, Finish
    <3>2. RequestHoldsRows(NoRequest)
      BY NoRequestType DEF RequestHoldsRows
    <3> QED
      BY <3>1, <3>2, NoRequestType, RequestStepTyped
  <2> QED
    BY <2>1, <2>2, EnterTyped, LoadTyped, AssignTyped, CommitTyped DEF Next
<1>3. RowInv => TypeOK
  BY DEF RowInv
<1> QED
  BY <1>1, <1>2, <1>3, PTL DEF Spec
=============================================================================
