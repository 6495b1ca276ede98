SPECIFICATION WeighedSpec
CONSTANTS
    c1 = c1
    c2 = c2
    Tree = tree
    Machine = machine
    None = None
    Names = {1, 2, 3}
    Versions = {1, 2}
    Commits = {c1, c2, tree}
    X = x
    Junk = junk
    NoPre = nopre
    Root = 1
    Weights = {1, 2, 3, 4, 5}
    DeclarationsOf <- MCDeclarationsOf
    Inputs <- MCInputs
INVARIANTS
    TypeOK
    LockServesRequirers
    LockIsRequired
    NoneOverruledUnseen
PROPERTIES
    SelectionsOnlyFall
    ResolutionEnds
CHECK_DEADLOCK FALSE
