\* Requests that do not overlap: an incident is reassigned and released.
SPECIFICATION Spec
CONSTANTS
    Workers = {w1}
    Users = {u1, u2}
    NoUser = NoUser
    Fields = {f1}
    MaxEvents = 4
INVARIANT AssignmentHistoryIsClosed
