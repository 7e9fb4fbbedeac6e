----------------------------- MODULE Membership -----------------------------
(***************************************************************************)
(* The members of one organization, and the requests that add, change and  *)
(* deactivate them (OrganizationService behind require_org_admin).         *)
(*                                                                         *)
(* A request first loads its caller with all of the caller's memberships   *)
(* (get_current_user).  The session keeps those objects and a later SELECT *)
(* of the same row does not refresh them, so whatever the request learns   *)
(* of its caller's membership it learned then.  Every other row is read    *)
(* when its SELECT runs, and the count of owners is a query of its own.    *)
(* Nothing is locked before the flush that ends the handler.               *)
(***************************************************************************)
EXTENDS Naturals, FiniteSets

CONSTANTS
    Users,           \* the registered users
    PlatformAdmins,  \* those with platform_role platform_admin
    Roles,           \* the organization roles that are in use
    Founder,         \* the user whose registration created the organization
    Workers          \* the concurrent requests

OrganizationRole ==
    {"organization_owner", "organization_admin", "engineer", "viewer"}

Owner == "organization_owner"
AdminRoles == {"organization_admin", "organization_owner"}

ASSUME UsersAssumption == IsFiniteSet(Users) /\ Founder \in Users
ASSUME RolesAssumption == Roles \subseteq OrganizationRole /\ Owner \in Roles
ASSUME PlatformAdminsAssumption == PlatformAdmins \subseteq Users

VARIABLES
    members,  \* the committed rows of organization_members, by user
    req       \* what each request in flight has read and assigned

vars == <<members, req>>

NoRole == "none"
Absent == [role |-> NoRole, active |-> FALSE]
Member == [role: Roles, active: BOOLEAN] \cup {Absent}

(* The rows that the count in _guard_last_owner counts.                    *)
ActiveOwners(rows) ==
    {u \in DOMAIN rows : rows[u].role = Owner /\ rows[u].active}

-----------------------------------------------------------------------------
(* A request.  self is the caller's own row as loaded on entry, loaded the *)
(* target's row as loaded, now the target's object with the assignments    *)
(* made so far; role and active are the arguments, NoRole and "keep" when  *)
(* the body leaves them out.                                               *)

Phase == {"idle", "entered", "adding", "loaded", "role_done", "ready"}
Activity == {"activate", "deactivate", "keep"}

Request == [phase: Phase,
            caller: Users,
            self: Member,
            target: Users,
            loaded: Member,
            now: Member,
            role: Roles \cup {NoRole},
            active: Activity]

NoRequest == [phase |-> "idle", caller |-> Founder, self |-> Absent,
              target |-> Founder, loaded |-> Absent, now |-> Absent,
              role |-> NoRole, active |-> "keep"]

Finish(w) == req' = [req EXCEPT ![w] = NoRequest]

(* What a SELECT of the membership of user gives the request.              *)
Seen(w, user) == IF user = req[w].caller THEN req[w].self ELSE members[user]

Flushed(current, loaded, assigned) ==
    IF assigned = loaded THEN current ELSE assigned

(* The UPDATE of a membership row at the end of the handler.               *)
FlushedRow(row, loaded, now) ==
    [role |-> Flushed(row.role, loaded.role, now.role),
     active |-> Flushed(row.active, loaded.active, now.active)]

-----------------------------------------------------------------------------
(* create_default_organization_for_user has made the founder the owner.    *)
Init ==
    /\ members = [u \in Users |-> IF u = Founder
                                  THEN [role |-> Owner, active |-> TRUE]
                                  ELSE Absent]
    /\ req = [w \in Workers |-> NoRequest]

(* get_current_user, resolve_org_context and require_org_admin.            *)
Enter(w, caller) ==
    /\ req[w].phase = "idle"
    /\ \/ caller \in PlatformAdmins
       \/ members[caller].active /\ members[caller].role \in AdminRoles
    /\ req' = [req EXCEPT ![w] = [NoRequest EXCEPT
                  !.phase = "entered", !.caller = caller,
                  !.self = members[caller]]]
    /\ UNCHANGED members

(* add_member, up to the flush: a membership that is active is a conflict. *)
LoadAdd(w, user, role) ==
    /\ req[w].phase = "entered"
    /\ ~Seen(w, user).active
    /\ req' = [req EXCEPT ![w] = [@ EXCEPT
                  !.phase = "adding", !.target = user,
                  !.loaded = Seen(w, user),
                  !.now = [role |-> role, active |-> TRUE]]]
    /\ UNCHANGED members

(* A new row is an INSERT, which the unique constraint on (organization,   *)
(* user) refuses when another request has inserted one meanwhile.          *)
CommitAdd(w) ==
    LET user == req[w].target
        loaded == req[w].loaded
    IN  /\ req[w].phase = "adding"
        /\ loaded = Absent => members[user] = Absent
        /\ members' = [members EXCEPT ![user] =
                          IF loaded = Absent THEN req[w].now
                          ELSE FlushedRow(@, loaded, req[w].now)]
        /\ Finish(w)

(* update_member and deactivate_member load the membership ...             *)
LoadMember(w, user, role, active) ==
    /\ req[w].phase = "entered"
    /\ Seen(w, user) # Absent
    /\ req' = [req EXCEPT ![w] = [@ EXCEPT
                  !.phase = "loaded", !.target = user,
                  !.loaded = Seen(w, user), !.now = Seen(w, user),
                  !.role = role, !.active = active]]
    /\ UNCHANGED members

(* Faulty variant: one owner too few is asked for.                         *)
GuardPasses_OffByOne(w, removes) ==
    \/ req[w].now.role # Owner
    \/ ~req[w].now.active
    \/ ~removes
    \/ Cardinality(ActiveOwners(members)) > 0

(* _guard_last_owner returns: the object it is given is not an active      *)
(* owner or remains one, or there is another active owner to be counted.   *)
GuardPasses(w, removes) ==
    \/ req[w].now.role # Owner
    \/ ~req[w].now.active
    \/ ~removes
    \/ Cardinality(ActiveOwners(members)) > 1

(* Faulty variant: an omitted role is assigned as well.                    *)
AssignRole_Unconditional(w) ==
    LET r == req[w]
    IN  /\ r.phase = "loaded"
        /\ r.role # NoRole => GuardPasses(w, r.role # Owner)
        /\ req' = [req EXCEPT ![w] = [r EXCEPT
                      !.phase = "role_done",
                      !.now = [r.now EXCEPT !.role = r.role]]]
        /\ UNCHANGED members

(* ... guard and assign the role ...                                       *)
AssignRole(w) ==
    LET r == req[w]
        assigned == IF r.role = NoRole THEN r.now.role ELSE r.role
    IN  /\ r.phase = "loaded"
        /\ r.role # NoRole => GuardPasses(w, r.role # Owner)
        /\ req' = [req EXCEPT ![w] = [r EXCEPT
                      !.phase = "role_done",
                      !.now = [r.now EXCEPT !.role = assigned]]]
        /\ UNCHANGED members

(* ... and guard and assign is_active, counting owners a second time.      *)
AssignActive(w) ==
    LET r == req[w]
        assigned == IF r.active = "keep" THEN r.now.active ELSE r.active = "activate"
    IN  /\ r.phase = "role_done"
        /\ r.active = "deactivate" => GuardPasses(w, TRUE)
        /\ req' = [req EXCEPT ![w] = [r EXCEPT
                      !.phase = "ready",
                      !.now = [r.now EXCEPT !.active = assigned]]]
        /\ UNCHANGED members

CommitMember(w) ==
    LET r == req[w]
    IN  /\ r.phase = "ready"
        /\ members' = [members EXCEPT ![r.target] = FlushedRow(@, r.loaded, r.now)]
        /\ Finish(w)

(* An exception of a guard or a constraint, a lost connection, a restart.  *)
Rollback(w) ==
    /\ req[w].phase # "idle"
    /\ Finish(w)
    /\ UNCHANGED members

Next ==
    \E w \in Workers :
        \/ \E u \in Users : Enter(w, u)
        \/ \E u \in Users, r \in Roles : LoadAdd(w, u, r)
        \/ CommitAdd(w)
        \/ \E u \in Users, r \in Roles \cup {NoRole}, a \in Activity :
              LoadMember(w, u, r, a)
        \/ AssignRole(w)
        \/ AssignActive(w)
        \/ CommitMember(w)
        \/ Rollback(w)

Spec == Init /\ [][Next]_vars

-----------------------------------------------------------------------------
(* Type invariant of the membership rows and of what requests hold.        *)
TypeOK ==
    /\ members \in [Users -> Member]
    /\ req \in [Workers -> Request]

(* _guard_last_owner, "Cannot remove or demote the last active             *)
(* organization owner": an organization always has an active owner.        *)
HasActiveOwner == ActiveOwners(members) # {}
=============================================================================
