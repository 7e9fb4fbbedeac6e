SPECIFICATION FairSpec
CONSTANTS
    Null = Null
    Workers = {w1, w2}
    Emails = {owner, other}
    OwnerEmail = owner
    BootstrapSlug = "default"
    Names <- MCNames
    Slugs <- MCSlugs
    Candidates <- MCCandidates
    Codes = {build}
    MaxFaults = 1
INVARIANTS
    TypeOK
    AccountsOwnOrganizations
    OnlyOverlapClashes
PROPERTIES
    ImplementsAtomic
    RequestsEnd
