SPECIFICATION SpecAll
CONSTANTS
    Sessions = {s1, s2}
    Mandatory = {"closed-input"}
    Native <- MCNative
    Deferred = {"network-denial"}
    MaxChanges = 1
    wild = wild
    junk = junk
    nopre = nopre
    Primitives <- MCPrimitives
    RangeVersions <- MCRangeVersions
    Beside <- MCBeside
    Identities <- MCIdentities
    Contract = "v1"
    Requests <- MCRequests
    MaxTime = 1
    MaxAnswers = 2
    Candidates = {rc0, rc1, rc2}
    Stable = {final}
    Past = rc0
    Contents = {x0, x1}
    Original = x0
    Reviewers = {ann, bob}
    MaxCommits = 3
    MaxEdits = 2
    None = None
INVARIANTS
    ReleasesStandAsReviewed
    
    RangesReadAsWritten
    FlowsAreOneRun
SYMMETRY Interchangeable
CHECK_DEADLOCK FALSE
