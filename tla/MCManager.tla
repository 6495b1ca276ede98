------------------------------- MODULE MCManager -------------------------------
(* The parts of the manager that read and write no state of each other, on      *)
(* small sets: a behaviour draws one of them and the others rest.  NativeLaunch *)
(* is on one profile and two generations of different locks.                    *)
EXTENDS NativeLaunch, Sequences, TLC

CONSTANTS
    Grants, PolicyEntries, Keys, Hooks, EntryPolicies, KeysOf, MaxTime,     \* of PolicyGrants
    Nodes, PerHome, BoundContexts, Evidenced, MaxGeneration,                \* of HomeCredentials
    Servers, NativeProjects, Roots, Bindings,                               \* of HomeSeeds
    HookFiles, FileBytes, Shells,                                           \* of ShellHook
    Commands, Sessions, Codes, Hops, Plans, FirstHop, Tampered, MaxBoots,   \* of CommandRoots
    Skills, Commits, Requiring, Content, FirstAdmitted, Declared,           \* of SkillPlans
    RetainedCommands, Unmanaged, Reserved,
    Dirs, InstallDir, Ancestors, MaxList,                                   \* of ProviderSearch
    MaxEdits, MaxMoves,                                                     \* of the postures
    Surfaces, Own, MaxLocks                                                 \* of GlobalPublication

VARIABLES
    part,
    now, entryPolicy, records, journal,
    config, marker, evidence, generation, credentialPolicy, binding, plan,
    mode, entry, parent, recorded, backup, foreign, displaced,
    native, homeConfig, record, revision, selector, origin, link, homeBinding,
    rollout, content, approvals, supplied, warned, ran, approved,
    rootPlan, files, strangers, onDisk, live, rootJournal, sessionPins, processes, boot, reference,
    contexts, admitted, retagged, direct, lock, phaseOf, pending, shown,
    present, listed, path, forbidden, unreadable, release, ranFrom,
    class, atPath, held, seeded, report,
    name, posture, op, edits,
    force, lease, prepared, verdict, moves,
    profileLock, published, surface, doing, saved, kept

--------------------------------------------------------------------------------
G == INSTANCE PolicyGrants WITH
        Entries <- PolicyEntries, Policies <- EntryPolicies, policy <- entryPolicy

C == INSTANCE HomeCredentials WITH
        Contexts <- BoundContexts, Found <- Evidenced, policy <- credentialPolicy

W == INSTANCE EntryWrites

H == INSTANCE HomeSeeds WITH
        Projects <- NativeProjects, config <- homeConfig, binding <- homeBinding

S == INSTANCE ShellHook WITH Files <- HookFiles, Bytes <- FileBytes, record <- approvals

R == INSTANCE CommandRoots WITH
        First <- FirstHop, plan <- rootPlan, foreign <- strangers, disk <- onDisk,
        journal <- rootJournal, pins <- sessionPins

P == INSTANCE SkillPlans WITH
        Contexts <- Requiring, First <- FirstAdmitted,
        roots <- contexts, phase <- phaseOf, records <- shown

U == INSTANCE ProviderSearch WITH revision <- release, ran <- ranFrom

F == INSTANCE ReadFailures WITH entry <- atPath, home <- seeded

Y == INSTANCE Postures WITH config <- posture

E == INSTANCE EffectivePosture WITH record <- prepared

L == INSTANCE GlobalPublication WITH store <- published

ASSUME PartsAssumption ==
    /\ G!GrantAssumption /\ C!SourcesAssumption /\ H!SeedAssumption /\ S!HookAssumption
    /\ F!ReadAssumption
    /\ R!PlansAssumption /\ P!SkillAssumption /\ U!DirsAssumption
    /\ L!PublicationAssumption /\ Y!EditsAssumption /\ E!MovesAssumption

--------------------------------------------------------------------------------
Parts == {"launch", "grants", "credentials", "writes", "seeds", "hook", "roots", "plans", "umbrella",
          "reads", "postures", "admission", "publication"}
InitPart ==
    CASE part = "launch" -> TRUE
      [] OTHER -> selected = [x \in Profiles |-> [revision |-> 1, generation |-> CHOOSE g \in Generations : TRUE]]

InitManager ==
    /\ part \in Parts /\ Init /\ InitPart
    /\ IF part = "grants" THEN G!Init
       ELSE now = None /\ entryPolicy = None /\ records = None /\ journal = None
    /\ IF part = "credentials" THEN C!Init
       ELSE /\ config = None /\ marker = None /\ evidence = None /\ generation = None
            /\ credentialPolicy = None /\ binding = None /\ plan = None
    /\ IF part = "writes" THEN W!Init
       ELSE /\ mode = None /\ entry = None /\ parent = None /\ recorded = None
            /\ backup = None /\ foreign = None /\ displaced = None
    /\ IF part = "seeds" THEN H!Init
       ELSE /\ native = None /\ homeConfig = None /\ record = None /\ revision = None
            /\ selector = None /\ origin = None /\ link = None /\ homeBinding = None
    /\ IF part = "hook" THEN S!Init
       ELSE /\ rollout = None /\ content = None /\ approvals = None /\ supplied = None
            /\ warned = None /\ ran = None /\ approved = None
    /\ IF part = "roots" THEN R!Init
       ELSE /\ rootPlan = None /\ files = None /\ strangers = None /\ onDisk = None /\ live = None
            /\ rootJournal = None /\ sessionPins = None /\ processes = None /\ boot = None /\ reference = None
    /\ IF part = "plans" THEN P!Init
       ELSE /\ contexts = None /\ admitted = None /\ retagged = None /\ direct = None
            /\ lock = None /\ phaseOf = None /\ pending = None /\ shown = None
    /\ IF part = "umbrella" THEN U!Init
       ELSE /\ present = None /\ listed = None /\ path = None /\ forbidden = None
            /\ unreadable = None /\ release = None /\ ranFrom = None
    /\ IF part = "reads" THEN F!Init
       ELSE class = None /\ atPath = None /\ held = None /\ seeded = None /\ report = None
    /\ IF part = "postures" THEN Y!Init
       ELSE name = None /\ posture = None /\ op = None /\ edits = None
    /\ IF part = "admission" THEN E!Init
       ELSE force = None /\ lease = None /\ prepared = None /\ verdict = None /\ moves = None
    /\ IF part = "publication" THEN L!Init
       ELSE /\ profileLock = None /\ published = None /\ surface = None
            /\ doing = None /\ saved = None /\ kept = None

grantsVars == <<now, entryPolicy, records, journal>>
credentialVars == <<config, marker, evidence, generation, credentialPolicy, binding, plan>>
writesVars == <<mode, entry, parent, recorded, backup, foreign, displaced>>
seedsVars == <<native, homeConfig, record, revision, selector, origin, link, homeBinding>>
hookVars == <<rollout, content, approvals, supplied, warned, ran, approved>>
rootVars == <<rootPlan, files, strangers, onDisk, live, rootJournal, sessionPins, processes, boot, reference>>
planVars == <<contexts, admitted, retagged, direct, lock, phaseOf, pending, shown>>
umbrellaVars == <<present, listed, path, forbidden, unreadable, release, ranFrom>>
readVars == <<class, atPath, held, seeded, report>>
postureVars == <<name, posture, op, edits>>
admissionVars == <<force, lease, prepared, verdict, moves>>
publicationVars == <<profileLock, published, surface, doing, saved, kept>>
managerVars == <<part, vars, grantsVars, credentialVars, writesVars, seedsVars, hookVars, rootVars,
                 planVars, umbrellaVars, readVars, postureVars, admissionVars, publicationVars>>

NextManager ==
    /\ UNCHANGED part
    /\ IF part = "launch" THEN Next ELSE UNCHANGED vars
    /\ IF part = "grants" THEN G!Next ELSE UNCHANGED grantsVars
    /\ IF part = "credentials" THEN C!Next ELSE UNCHANGED credentialVars
    /\ IF part = "writes" THEN W!Next ELSE UNCHANGED writesVars
    /\ IF part = "seeds" THEN H!Next ELSE UNCHANGED seedsVars
    /\ IF part = "hook" THEN S!Next ELSE UNCHANGED hookVars
    /\ IF part = "roots" THEN R!Next ELSE UNCHANGED rootVars
    /\ IF part = "plans" THEN P!Next ELSE UNCHANGED planVars
    /\ IF part = "umbrella" THEN U!Next ELSE UNCHANGED umbrellaVars
    /\ IF part = "reads" THEN F!Next ELSE UNCHANGED readVars
    /\ IF part = "postures" THEN Y!Next ELSE UNCHANGED postureVars
    /\ IF part = "admission" THEN E!Next ELSE UNCHANGED admissionVars
    /\ IF part = "publication" THEN L!Next ELSE UNCHANGED publicationVars

SpecManager == InitManager /\ [][NextManager]_managerVars

--------------------------------------------------------------------------------
\* No order of approvals, lapses and revocations makes a record the ledger cannot
\* read; when the last grant that shares a key is revoked the key is gone or waits for
\* cleanup, and not before; and a plan the final boundary lets through launches with
\* what the node bound, though credential, policy, source and plan moved since it was
\* made.  What is refused under a security posture the status said before, what the
\* system locks nobody moves, the release that flips the default changes nothing nobody
\* was warned of, and a case of the gate shows what its name says.  A launch is admitted
\* only while nothing its record was made from has moved, and never weaker than asked.
PoliciesKeepTheirWord ==
    /\ part = "grants" => G!TypeOK /\ G!RecordsStayReadable /\ G!NoKeyIsForgotten /\ G!ActiveKeysStay
    /\ part = "credentials" => C!TypeOK /\ C!ExecutedAsBound
    /\ part = "postures" =>
           /\ Y!TypeOK /\ Y!NamedAsShown /\ Y!StatusForetells /\ Y!NoSilentFlip
           /\ Y!LockedIsLocked /\ Y!WeaknessIsNamed
    /\ part = "admission" => E!TypeOK /\ E!StillAsPrepared /\ E!AdmittedAsAsked

\* No write ends where a foreign link leads, no home that inherited servers says it
\* has none, no link leads to a root the home does not come from, and no shell has
\* sourced what was never approved without having been told; and what could not be
\* read for a while is said to be there, and is there, when it can be read again.  No
\* global operation leaves the skills of two locks in place, or takes away what the
\* owner put where it writes.
HomeStaysOwn ==
    /\ part = "writes" => W!TypeOK /\ W!ForeignIsKept
    /\ part = "seeds" => H!TypeOK /\ H!StrippedIsStripped /\ H!LinkLeadsHome
    /\ part = "hook" => S!TypeOK /\ S!RanApproved
    /\ part = "reads" => F!TypeOK /\ F!NothingIsLost /\ F!SaidAsItIs
    /\ part = "publication" => L!TypeOK /\ L!LockIsServed /\ L!SurfacesAreOneSet /\ L!OwnersIsKept

\* A command a hook was let through for runs the executable the receipt pins, and no
\* crash, recovery or collection leaves a mixture of generations or takes one away
\* that something runs from or a reference keeps; and a subcommand that is found
\* without the PATH is one of the trust roots', which who heeds the warnings of the
\* revision before is not surprised by.
RunsAsVouched ==
    /\ part = "roots" => R!TypeOK /\ R!PinnedCommandRuns /\ R!RecoveredWhole /\ R!RetainedRootsStay
    /\ part = "umbrella" => U!TypeOK /\ U!RunsTrusted /\ U!UpgradeForetold /\ U!MissingIsAbsent
    /\ part = "plans" => P!TypeOK

\* What is published is the skill plan that resolving at that moment would write.
PublishesDerived == [][shown' # shown => shown' = P!Derived]_shown

--------------------------------------------------------------------------------
Ask(by, pair, pinned, hosted, gateway, identity) ==
    [profile |-> by, home |-> IF pair THEN Home ELSE None, pair |-> pair, pins |-> pinned,
     hosted |-> hosted, gateway |-> gateway, identity |-> identity]
\* With and without a pin, beside one route that has no pair and one refused.
MCAsked ==
    UNION {{Ask(p, TRUE, TRUE, FALSE, FALSE, i), Ask(p, TRUE, FALSE, FALSE, FALSE, None),
            Ask(p, FALSE, FALSE, TRUE, TRUE, None), Ask(p, TRUE, TRUE, TRUE, FALSE, i)} :
           p \in Profiles, i \in Identities}
\* Generations of different locks.
MCLockOf == CHOOSE f \in [Generations -> Locks] : \A x, y \in Generations : x # y => f[x] # f[y]

\* Entries with and without a hook; grants of all keys.
MCEntryPolicies == {[hooks |-> x, since |-> 0, until |-> MaxTime] : x \in SUBSET Hooks}
MCKeysOf == [g \in Grants |-> Keys]

To(x) == [to |-> x, code |-> None]
Code(k) == [to |-> None, code |-> k]
Hop(x, bytes, kind, target) == [hop |-> x, bytes |-> bytes, kind |-> kind, target |-> target]
\* A command through a forwarder.  The other plans are put together wrongly: its
\* bytes forward elsewhere, or the chain ends in a forwarder.
Straight == <<Hop("c", To("x"), "forwarder", "x"), Hop("x", Code("k"), "executable", None)>>
Astray == <<Hop("c", To("y"), "forwarder", "x"), Hop("x", Code("k"), "executable", None)>>
Round == <<Hop("c", To("c"), "forwarder", "c")>> \o Straight
Other == <<Hop("y", Code("other"), "executable", None)>>
Planned(c) == [inventory |-> ("c" :> c) @@ ("y" :> Other), receipt |-> ("c" :> "k") @@ ("y" :> "other")]
File(bytes, object, protected, links) ==
    [bytes |-> bytes, object |-> object, protected |-> protected, links |-> links]
MCPlans == {Planned(c) : c \in {Straight, Astray, Round}}
MCTampered == {File(To("y"), "own", TRUE, 1), File(Code("k"), "other", TRUE, 1), File(Code("k"), "own", FALSE, 2)}
MCFirstHop == [c \in Commands |-> c]

Requirement(k, c, by, ref, commands) ==
    [provider |-> k, commit |-> c, mode |-> by, ref |-> ref, commands |-> commands]
\* a needs b at first, then no more; the second snapshot of b exports what something
\* else has put there.
MCRequiring == {{Requirement("a", 1, "full", "tag", None)}, {Requirement("a", 2, "full", "tag", None)},
                {Requirement("b", 2, "runtime", "revision", None)}}
MCContent ==
    [k \in Skills |-> [c \in 1 .. 2 |->
        [requires |-> IF k = "a" /\ c = 1 THEN {Requirement("b", 1, "runtime", "tag", {"run"})} ELSE {},
         exports |-> IF k = "a" THEN {"go"} ELSE IF c = 1 THEN {"run"} ELSE {"taken"}]]]
MCFirstAdmitted == {[k \in Skills |-> 1]}
MCRetainedCommands == "old" :> "c"

\* The install directory, another one and a directory below that.
MCAncestors == [d \in Dirs |-> IF d = "sub" THEN {"sub", "top"} ELSE {d}]
================================================================================
