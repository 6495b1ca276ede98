SPECIFICATION Spec
CONSTANTS
    Candidates = {rc0, rc1, rc2}
    Stable = {final}
    Past = rc0
    Contents = {x0, x1}
    Original = x0
    Reviewers = {ann}
    MaxCommits = 3
    MaxEdits = 2
    None = None
INVARIANTS
    SchemasStay
CHECK_DEADLOCK FALSE
