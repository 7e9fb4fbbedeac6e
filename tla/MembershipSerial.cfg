\* Membership requests that do not overlap.
SPECIFICATION Spec
CONSTANTS
    Users = {founder, u1, u2}
    PlatformAdmins = {u2}
    Roles = {"organization_owner", "organization_admin", "viewer"}
    Founder = founder
    Workers = {w1}
INVARIANTS
    TypeOK
    HasActiveOwner
