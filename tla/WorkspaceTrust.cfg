SPECIFICATION Spec
CONSTANTS
    home = home
    repo = repo
    sub = sub
    Paths <- MCPaths
    Home = home
    Above <- MCAbove
    Roots = {home, repo}
    Environments = {codex, claude}
    Lineages = {l1, l2}
    Transactions = {t1, t2}
    None = None
SYMMETRY Symmetry
INVARIANTS
    TypeOK
    RecordsValid
    ReferencesBacked
    AuthorizedAsObserved
PROPERTIES
    ProvenanceKept
    ConsentSpec
