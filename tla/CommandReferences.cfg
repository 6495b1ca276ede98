CONSTANTS
    Resources = {r1, r2}
    Generations = {g1, g2}
    Requests = {q1, q2, q3}
    Installers = {c1, c2}
    MaxReferences = 2
    MaxRequests = 3
    MaxSerial = 2
    MaxRevision = 4
    None = None
SPECIFICATION Spec
SYMMETRY Symmetry
INVARIANTS
    TypeOK
    HooksAreServed
PROPERTIES
    ActsOnItsReading
    ReleaseIsFinal
