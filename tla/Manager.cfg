SPECIFICATION SpecManager
CONSTANTS
    None = None
    Asked <- MCAsked
    Profiles = {p}
    Generations = {g1, g2}
    Locks = {k1, k2}
    Writers = {w1}
    Launches = {l1, l2}
    Identities = {i}
    Homes = {h}
    Home = h
    MaxRevision = 2
    MaxSelection = 3
    LockOf <- MCLockOf
    Grants = {a1, a2}
    PolicyEntries = {e1, e2}
    Keys = {key}
    Hooks = {hook}
    EntryPolicies <- MCEntryPolicies
    KeysOf <- MCKeysOf
    MaxTime = 1
    Nodes = {n1, n2}
    PerHome = perhome
    BoundContexts = {c1, c2}
    Evidenced = {"absent", "credential"}
    MaxGeneration = 2
    Servers = {server}
    NativeProjects = {project}
    Roots = {r1, r2}
    Bindings = {b1, b2}
    HookFiles = {hook}
    FileBytes = {x1, x2}
    Shells = {s1, s2}
    Commands = {"c", "y"}
    Sessions = {s1}
    Codes = {"k", "other"}
    Hops = {"c", "x", "y"}
    Plans <- MCPlans
    FirstHop <- MCFirstHop
    Tampered <- MCTampered
    MaxBoots = 1
    Skills = {"a", "b"}
    Commits = {1, 2}
    Requiring <- MCRequiring
    Content <- MCContent
    FirstAdmitted <- MCFirstAdmitted
    Declared = {"b"}
    RetainedCommands <- MCRetainedCommands
    Unmanaged = {"taken"}
    Reserved = {}
    Dirs = {"in", "top", "sub"}
    InstallDir = "in"
    Ancestors <- MCAncestors
    MaxList = 2
    MaxEdits = 2
    MaxMoves = 2
    Surfaces = {u1, u2, u3}
    Own = {x1, x2}
    MaxLocks = 2
INVARIANTS
    LaunchesKeepTheirOwn
    PoliciesKeepTheirWord
    HomeStaysOwn
    RunsAsVouched
PROPERTIES
    ClearedAsAdmitted
    PublishesDerived
CHECK_DEADLOCK FALSE
