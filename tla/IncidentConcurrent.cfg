\* Two overlapping requests on one incident, two possible assignees.
SPECIFICATION Spec
CONSTANTS
    Workers = {w1, w2}
    Users = {u1, u2}
    NoUser = NoUser
    Fields = {f1}
    MaxEvents = 5
SYMMETRY Symmetry
INVARIANTS
    TypeOK
    AssigneeHasOpenAssignment
    StatusOnTimeline
    TimelineIsJustified
    ClosedAndReopenedInOrder
    ReleasesAreRecorded
