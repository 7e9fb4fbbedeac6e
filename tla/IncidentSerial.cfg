\* Requests that do not overlap: one at a time.
SPECIFICATION Spec
CONSTANTS
    Workers = {w1}
    Users = {u1, u2}
    NoUser = NoUser
    Fields = {f1, f2}
    MaxEvents = 6
INVARIANTS
    SettledHasTimestamps
    StatusIsLastOnTimeline
PROPERTIES
    StatusStepsPermitted
    EditsRequireReopen
    ImplementsAtomic
