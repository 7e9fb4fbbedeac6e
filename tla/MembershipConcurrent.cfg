\* Two overlapping membership requests lose the last owner.
SPECIFICATION Spec
CONSTANTS
    Users = {founder, u1, u2}
    PlatformAdmins = {}
    Roles = {"organization_owner", "organization_admin", "viewer"}
    Founder = founder
    Workers = {w1, w2}
SYMMETRY Symmetry
INVARIANT HasActiveOwner
