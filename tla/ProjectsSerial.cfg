\* Requests that do not overlap.
SPECIFICATION Spec
CONSTANTS
    Workers = {w1}
    Keys = {k1, k2}
    NoKey = NoKey
    Details = {d1, d2}
    MaxRuns = 3
    MaxIncidents = 1
    MAX_PAGE_SIZE = 2
SYMMETRY Symmetry
INVARIANTS
    TypeOK
    PagesMissNothing
    ArchivedAtMatchesStatus
PROPERTY
    ArchivedProjectsAreFrozen
