# A verification project for curator-spec

curator-spec is a protocol repository. Its prose (`protocol/`, `profiles/`, `cips/`,
`decisions/`), schemas and conformance vectors define the Curator protocol; the
programs under `tools/` decide the vectors, run the tests and guard the repository.
The programs are what is modelled here, and every definition is translated from
their code. The prose is quoted only where it makes a claim about that code.

Contents: [inventory](#inventory) · [modules](#the-modules) · [runs](#what-the-runs-show)
· [findings](#disagreements-the-runs-show) · [proofs](#what-is-proved) ·
[not modelled](#what-is-not-modelled-and-why) · [plan](#plan)

## Running it

    tlc -config FixtureSafety.cfg MCFixtureSupervision.tla
    tlapm FixtureSupervisionProofs.tla

`PROJECT.json` lists every run with its module and configuration, the source lines
each definition stands for, mutants for every checked property, the hazards, the
findings and the theorems.

## Inventory

Most of `tools/` consists of oracles: functions that compute what an implementation
of the protocol must answer, and gates that compare vectors with them. An oracle
decides one step. What a model adds is the machine around it: the same decision
taken again and again, each time from what the last one left, while files, policies,
sources and processes change in between. The oracle's decision is translated from the
code; what happens between two decisions is marked external in the map.

| part | code in `tools/` | state | hard |
|---|---|---|---|
| Fixture supervision | `generate-vectors/fixture_environment_test.go`, `fixture_environment.py`, `fixture_process.py` | owner, provider, child and its kin; one exclusive root; lease, grant, records, phase socket | anything may stall or die; readiness, exit, result and timers in any order |
| Persistent command references | `HookModel` in `profile_command_roots.py` | roots by generation, references, requests, selections, rollback references, revisions | installers act on old revisions; replies are lost |
| Command-root transactions | the rest of `profile_command_roots.py` | journal, published generation, files, sessions, pins | a crash in every phase, repair, tampering, collection beside running processes |
| Workspace trust ledger | `workspace_trust.py` | append-only consent records, bindings, committed transactions | retries after withdrawal; a path changes its repository and back |
| Policy grants | `workspace_policy_grant.py` | policy entries, grants, a journal of keys | keys shared by grants; revocation, lapse, failed cleanup in any order |
| Native root admission | `native_root_admission.py` | policy revisions, selections, generations, session pins | a launch reads two revisions without a lock, at different times |
| Credentials and provisioning | `local_setup_token.py`, `codex_seed_c.py`, `provisioning_origin.py` | configured source, marker, binding, plan; seed record, origin, link | credential, policy, source and selector move between plan and launch |
| Skill plans | `profile_skill_plan.py` | contexts, snapshots, lock, journal phase, published records | the lock is edited, interrupted or overtaken before it is published |
| Effective posture | `effective_posture.py` | what is in force, the home's lease, one record per launch | everything may move between preparation and admission |
| Verified builds | `assurance.py` | capability receipts, permits, executions, checkpoints | genuine records of different attempts |
| Closure resolution | `resolve_closure` and `range_*`, `semver_*` in `validate.py` | constraints, selections, ceilings, pending names; weights | no search and no bound; a re-selection retracts its own causes |
| Registry rollback | `expected_*_verdict` in `validate.py` | high-water, checkpoint, cursor chains; the service's log | restores, mirrors, overlapping operations |
| Signers, store, seeds | `e1_*`, `s4_*`, `s5_*`, `e3_*` in `validate.py` | configuration, lock, store, overlay, home | status and operation read the same world at different times |
| Manager decisions | umbrella, read-failure, posture, hook-trust, entry-write and lock-publication oracles in `validate.py` | directories and the PATH, files, configuration, approvals, surfaces | the user and other programs act between two operations |
| Builds and release | policies and drivers in `validate.py`, `release_gate.py`, `verify_release_*.py` | sessions, evidence, cache; tree, commits, reviews, tags | what was verified is replaced before it is used |

How they meet: `validate.py` calls the other oracles on their corpora, and the fixture
supervision runs the tests of the generators that write those corpora. None of these
calls carries state. In the system the protocol describes, a locked closure becomes a
command root or a skill plan, an activation in a trusted workspace selects it, and a
launch is admitted over both. The code keeps each of these protocols apart from the
others, and the models do the same: what the neighbour contributes is an input.
Where one rule reads the result of another in the code, the modules are composed:
`EnvironmentProfile` puts the rules of signers and of the store over one profile,
`ClosureWeights` continues `ClosureResolution`, whose ranges are given by
`VersionRanges`, and `HomeCredentials`, `NativeLaunch` and `CommandRoots` each join
several oracles of one file over one machine.

Each part is correct when:

* **Fixture supervision**: the root outlives its group, a status that is not a refusal
  is the truth about a finished run, the owner waits without bound for nothing but a
  verified body, and the end of the owner reaches the child.
* **Command references and roots**: what a hook selects or a rollback would restore is
  on disk; a command runs what its receipt pins; a crash leaves no mixture.
* **Trust, grants, credentials, admission**: authority comes from consent that has not
  counted before and reaches no further; a launch runs with what it was admitted with.
* **Plans, closures**: what is published is what resolving at that moment would give;
  a lock holds exactly what its members require; the loop ends.
* **Registry, signers, store**: no two histories of one version are accepted; nothing
  new arrives unseen; a row of the status foretells what an operation will do.
* **Writes, seeds, hooks, surfaces**: what somebody else put there is kept, and what
  cannot be read is not taken for absent.
* **Builds, release**: what is kept or published under a name is what was verified and
  reviewed under it.

## The modules

| module | what it is |
|---|---|
| `FixtureSupervision`, `FixtureOwnership` | owner, goroutines, provider, child and kin; abstract: one group in one root |
| `CommandReferences` | `HookModel` with installers that hold readings |
| `CommandRoots` | generations, journal, crash recovery, repair, launches, pins, collection |
| `WorkspaceTrust`, `WorkspaceConsent` | the ledger and every operation on it; abstract: fresh consent is the only source of authority |
| `PolicyGrants` | `decision` and `revoke` over grants that share keys |
| `NativeLaunch` | policy writers, selections, pruning, launches that start launches |
| `HomeCredentials` | the binding and the plan of a managed home |
| `HomeSeeds` | the seed of a Codex home and the root its link leads to |
| `SkillPlans` | derivation, checks and publication of a skill plan |
| `EntryWrites` | one managed entry and its backup under repeated writes |
| `ShellHook` | the trust gate of the environment files a shell sources |
| `ProviderSearch` | how `curator <name>` is found, in both revisions |
| `ReadFailures` | what is said and done about a file that cannot be read |
| `Postures` | the security posture: locks, defaults, diagnostics, rows, outcomes |
| `EffectivePosture` | preparation of a launch record and its admission |
| `GlobalPublication` | the lock, the store and the surfaces of a global operation |
| `VerifiedFlows` | a provider's records and the validator of one flow |
| `ClosureResolution`, `ClosureWeights` | the selection loop, its final check, the weights after it |
| `VersionRanges`, `RangeCases` | versions, partials, comparators; ranges as an editor of vectors writes them |
| `RegistryRollback`, `RegistryVectors` | the three verdicts with a service and a client; the gate on their vectors |
| `SourceSigners`, `StoreBoundary`, `EnvironmentProfile` | signers and confirmations; store, overlay, home, seeds, passthrough; one profile under both |
| `WorkerBuilds` | confined builds with their evidence and cache |
| `ReleasePipeline` | working tree, commits, reviews, release records, tags |
| `MC*` | constants and symmetry for the runs |
| `*Proofs` | the theorems of the component |

`MCManager`, `MCRegistryRollback` and `MCRelease` check several components that share
no state in one run: the variable `part` is drawn at the start, the component it names
runs, and the variables of the others rest at `None`. A property of such a run is the
conjunction, over the parts, of the component's own named properties; the comment over
each says what they are. This keeps each run a question about one area of the system.

### FixtureSupervision

Each Go or Python control point is a value of `owner`, `observer`, `reader`,
`provider` or `child`; an action is one step between two of them, with the calls in
between. `told` is the provider's last record, `verdict` the status in it, `pipes`
whether the owner holds its ends, `conn` the phase connection, `ready`, `exited`,
`result`, `clean` and `allowed` are the locals of the owner's select loop. The
deferred calls of `runIsolatedTests` run in reverse order: `OwnerStopsGroup`,
`OwnerReleases`, the grace period, `OwnerKillsProvider`, `OwnerReaps`, `OwnerSweeps`.

Abstractions:
* Time. An armed timer may expire at any moment. This allows more than real
  durations do, so a property that holds here holds for every choice of them.
* `"doomed"` is a process to which SIGKILL was sent and which has not ended.
* Process identifiers are not modelled, nor that one may be reused.
* Goroutines are followed to the end of the owner's select loop; what they send
  later is read by nobody.
* On Windows the creation of the process and its assignment to the job are one step;
  the death of the provider closes the job and kills the group.
* A body that starts a session of its own is outside the group, as for the code.
* `Faults` names which parts of the environment may fail; each maps to an action.

### CommandReferences and CommandRoots

In `CommandReferences` one method call is one action, since the manager's lock covers
it. A refusal leaves the state as it was and is no step. An installer (`List`, then
`Activate`, `RestoreRollback` or `Release` with what it read) is what callers of
`HookModel` do with a revision; `Reply` drops its reading or, when the reply is lost,
keeps it. `releasedAt` is the revision a release named, which makes the repeated release
idempotent. `Detach` is external: `HookModel` has no such method, and its tests remove
the entry from the active map themselves. The record checks are one verdict here.

`CommandRoots` models those checks and the rest of the file: a generation is built from a
plan, published through a journal that a crash may leave in any phase, repaired, launched
from, pinned and collected. A file has bytes, an owner, a protection and a link count, and
may be changed from outside at any time; bytes forward to another file or are code, which
lets `PinnedCommandRuns` follow what a command really runs.

### WorkspaceTrust

A record is the ledger's, with its history of states as a sequence whose last element
is the present one. The machine (does the path exist, what repository is there, can
it be read) is an input of the operation. Refused calls, listings and repetitions of a
committed transaction are `Other`. `add` and `launch` differ in the event they record;
`resolve` and `update` do the same to the ledger; a repair that completes its cleanup
is `Repair`. Abstracted: the spelling of paths and remotes, link checks, times and the
JSON schema. Paths are related by `Above`.

### Policies, credentials and launches

`PolicyGrants`: a grant records its entry, the policy it was given under, its hooks and
the states of its life. `Launch` is an admitted `decision` followed by the write of its
keys, `Revoke` the code's two passes. Approvals, lapses, edits and touched keys are the
environment's. The digest of a policy entry is the entry.

`NativeLaunch`: a launch walks through `phase`, from what was asked over the route, the
inherited environment and the admission to the final recheck; each step is one function
of the oracle and reads policy and selection as they are then. Writers publish the
policy by compare-and-set, selections move, generations are pruned, and a running launch
may start another one.

`HomeCredentials` and `HomeSeeds` follow one home: the operator's configuration, the
adoption of a source, the node's binding and rotations, a plan and its execution; and
the seed, the marker and the link, against native files the user changes at any time.

`EffectivePosture` translates `relation_verdict` in its order of refusals. `Prepare`
writes a record of what is in force, `Move*` changes one thing, `Admit` compares.

`Postures` resolves a configuration of machine and system under one of two releases, and
derives diagnostics, rows and the outcome of an operation. Each knob is weak or strong,
since the code tells no more apart. A behaviour starts from a named scenario and rewrites
it step by step, so that the gate's checks on names are exercised beside the oracle.

### Plans and closures

`SkillPlans`: a lock is derived from the contexts and the admitted snapshots, may be
edited or overtaken, and is checked by every operation before it publishes. Digests always
fit the lock, since whoever edits it binds it again.

`ClosureResolution`: `input` is an installation: what the machine declares, which names
are skills, the tags, the version each commit's manifest states and what each commit
requires. Names and versions are their ranks, and a range is the set of versions it
admits, so `Admitted` is membership. The five ways a turn may go are `Leave`,
`RefuseSource`, `TakeTree`, `TakeExact`, `TakeHighest`; all but the refusal end in `Keep`,
`Reselect` or a diagnostic. `ceiling` outlives the selection, as in the code. Sources,
selected directories and kinds that disagree, and the refusal of two overlays of one
name are abstracted; overlays are the only path form. A package called `machine` is
excluded by an assumption: the code labels requirers by text, and such a package would
share a label with the machine. `ClosureWeights` adds what the code does after the check.

`VersionRanges`: text is a sequence of tokens, a version its numbers and prerelease
identifiers. `RangeCases` compares `Satisfies` with `Reads`, a direct reading of what the
operators mean that mentions no comparator.

### What comes in from outside

`RegistryRollback`: a boundary is the log it was signed at: its version is the length,
and two bodies of one version differ exactly when the logs do. `Stale` and `Advances`
are the page verdict, `Bootstrap` and `Supersedes` the verdict on the client's
checkpoint, `Starts` the verdict on the operator's. What the verdicts are called from is
external: the service appends, takes checkpoints and is restored from any signed
boundary; mirrors deliver any signed boundary in any order; operations start and end at
any time. A document whose signature fails is refused first and changes nothing, so it
is not delivered. The advisory comparison between mirrors of one group is left out.

`RegistryVectors`: an editor changes one input of a vector and rewrites its outcome to
agree. What the gate admits must still be what its name says.

`SourceSigners` and `StoreBoundary` are operators; `EnvironmentProfile` has the state:
configuration, shipped release, lock, what was named to the user, and the harm that came
to store, overlay directory and home. Its operations answer what the oracles answer.

### Files of somebody else

`EntryWrites` repeats the disposition of one write, with links, directories that are
links and files planted between. `ShellHook` activates shells while files are edited,
approved and shipped with records of their own. `ReadFailures` keeps one file of one
class, what its last writer put there, and what was said of it; `NothingIsLost` looks at
the bytes once the file can be read again. `ProviderSearch` has directories with their
ancestors, permissions and programs, the PATH and the list of trust roots.

`GlobalPublication` is the one model whose code only pins histories: the vectors give the
order of events and the states after each, and the actions are read off them. The owner
of the machine puts files at the surfaces, removes them and takes backups away between
any two events.

### Builds and releases

`VerifiedFlows`: the provider gives capability receipts, permits and executions;
checkpoints and receipts are functions of the execution. The validator is handed any
combination of them and decides as `validate_flow` does. Every record is genuine; what
can be wrong is that they are of different attempts.

`WorkerBuilds`: two sessions build side by side while source, toolchain, worker and host
change; what replaces them has a number that was not used before.

`ReleasePipeline`: a tree is what the checks read. Commits, squashes, reviews and tags
are actions; a publication is one that passes all checks that run for its tag.

### The abstract specifications

`FixtureOwnership` hides every record, socket, timer and exit code and keeps
`root`, `group` (none, running, stopped) and `outcome` (open, earned, refused,
abandoned). The mapping is `GroupPhase` and `Outcome`; `OwnershipKept` is the
refinement. It forbids removing a root of a running group, starting a group
without a root and earning an outcome early.

`WorkspaceConsent` keeps which authority there is, which consent events have counted,
and what the last request found. The mapping takes the active records, the committed
transactions and the answer. It forbids any step but a fresh consent to add authority.

## What the runs show

| run | instance | states | shows |
|---|---|---:|---|
| `fixture_safety` | both platforms, all nine faults, body statuses of `MCBodyStatus` | 232,333 | `RootOutlivesGroup`, `VerdictIsEarned`, refinement of `FixtureOwnership` |
| `fixture_liveness` | the same, `OwnerSpec` | 232,333 | `WaitsOnlyForTheBody`; `LeaseReachesChild` and `ProviderReclaims`, which assume `ProviderServed` themselves |
| `command_references` | 2 resources, 2 generations, 3 requests, 2 installers, 2 references, revisions to 4 | 435,246 | hooks are served, races are told apart, a release is final |
| `workspace_trust` | home, repository, directory; 2 environments, 2 lineages, 2 transactions | 130,968 | the ledger's invariants and refinement of `WorkspaceConsent` |
| `closure_resolution` | 12,310 installations of 3 names and 2 versions, with weights for those that require the root back | 64,140 | what a lock holds, whose weights it overrules; the loop ends where it must |
| `registry_rollback` | 2 records, logs to 2, 2 operations; versions 0 and 1 of every vector; a profile of a context, an mcp member and an overlay | 649,922 | no two views of a version; covered restores serve; names keep their meaning; nothing new unseen; the status foretells |
| `manager` | see below | 982,818 | 13 parts of the manager |
| `release` | see below | 2,141,947 | releases, builds, verified flows, ranges |

The remaining four runs each show one disagreement with the repository's prose, below.

The properties of `manager`:

* `LaunchesKeepTheirOwn`, `ClearedAsAdmitted` (`NativeLaunch`): the generation of a
  live launch stays on disk, no launch carries the session or identity of another, and
  what is cleared is what policy and selection say at that moment.
* `PoliciesKeepTheirWord`: records stay readable, no key is forgotten or taken too early
  (`PolicyGrants`); an executed plan is what the node bound (`HomeCredentials`); status
  rows foretell refusals, locked knobs stay, the flip of the default surprises nobody,
  named scenarios show what they are named for (`Postures`); an admitted launch is what
  was prepared and no weaker than asked (`EffectivePosture`).
* `HomeStaysOwn`: foreign links and their targets are kept (`EntryWrites`); a home that
  is said to have no servers has none and a link leads to the root of its home
  (`HomeSeeds`); shells source what was approved (`ShellHook`); unreadable is not absent
  (`ReadFailures`); surfaces are of one published lock and the owner's files are kept or
  backed up (`GlobalPublication`).
* `RunsAsVouched`: commands run what receipts pin, crashes leave no mixture, retained
  roots stay (`CommandRoots`); a provider is one of the trust roots' and revision B
  refuses only what revision A warned of (`ProviderSearch`).
* `PublishesDerived` (`SkillPlans`): what is published is what resolving would give now.

Those of `release`: `ReleasesStandAsReviewed` (`ReleasePipeline`), `BuildsAreTheirKeys`
(`WorkerBuilds`), `FlowsAreOneRun` (`VerifiedFlows`), `RangesReadAsWritten` (`RangeCases`).

### Bounds, and why they are enough

* **Fixture.** The protocol is one run of one owner, provider and child, so nothing
  has to be bounded but the kin: one subprocess stands for all, since the group kill
  treats them alike and none may be left. Body statuses include zero, a failure and
  the refusal's own value 2, the one a caller could confuse.
* **Command references.** `MaxReferences` = 2 lets a third be refused while one is
  active and one is kept for rollback. `MaxSerial` = 2 limits references ever made,
  `MaxRevision` = 4 lets one reference be activated, displaced, restored and released.
  Two installers are enough for a race; each holds one reading, which is what a
  revision is compared with. `MaxRequests` = 3 gives a repeated, a shared and a fresh
  request. The cap of remembered requests equals the number of requests there are, so
  its refusal is not exercised.
* **Workspace trust.** The three paths are nested, and both the home and the repository
  may be a repository root: this is the shape in which one binding source lies under
  another root. Two lineages let an identity change and come back. Two transactions
  give an overlap of two events and the retry of either.
* **Closure.** Two packages that can require each other by every form are the smallest
  closure in which a re-selection changes its own cause. Beside them stand overlays, a
  skill, a commit with two tags, manifests that disagree with their tag, a form that
  cannot be read, and packages that require the root back.
* **Registry.** Logs of length two give a fork at either version and a restore past one
  checkpoint; two operations give an overlap. The theorems hold for any length.
* **Profile.** Offers cover every kind and form of a candidate, a signer in another
  spelling and a signature that fails; four configurations put the lists of system and
  machine against each other.
* **Launches.** One profile and two generations with different locks; two launches so
  that one starts the other; one writer, so policies never race on the write itself,
  which compare-and-set decides in one step. `MaxRevision` = 2 and `MaxSelection` = 3 let
  a selection change and come back after the policy moved. The theorems have no bound.
* **Grants.** Two grants of one key under two entries are the smallest case in which a
  key is shared; time has two values, enough to lapse.
* **Command roots.** Two generations, one session, one restart of the machine, and three
  plans: a straight forwarder and two that are put together wrongly.
* **Postures** and **effective posture**: two changes after the start, which is a change
  and one that seems to undo it. **Publication**: three surfaces, two things of the
  owner's, three locks: a conflict at one surface while another was already replaced.
* **Provider search.** The install directory, another and one below it; a PATH of two.
* **Verified flows.** Two identities, requests and answers of each kind: every record
  exists once of this and once of another attempt.
* **Release.** Three candidates and a stable version, three commits, two edits, two
  reviewers: an edit after each review, and a candidate released while the constant
  names an older one. **Builds**: two sessions and one change of each thing; versions
  of sources and toolchains are never used again, so an input that changes and changes
  back is not exercised.
* **Ranges.** Components 0 to 2, prereleases of four versions: every boundary of caret,
  tilde and partials, above, below and at it.

Deadlock is checked where the system never stops (command references, trust,
registry). A finished test run, resolution, build or release does stop: those configurations turn
the check off.

### Fairness

* `OwnerSpec`: the owner and its goroutines are scheduled and their timers run, and a
  process that SIGKILL was sent to ends. Nothing is assumed of the provider or child,
  which may stop taking steps without dying. That is what the timers are for.
* `ProviderServed`, the hypothesis of `LeaseReachesChild` and `ProviderReclaims`, adds
  that the provider makes progress, the child's setup timer and its lease goroutine run,
  and a failed phase connection is noticed. Nothing makes the body end. These are
  goroutines and timers of one runtime; weak fairness on each disjunction says only that
  a step which stays possible is taken in the end.
* `WeighedSpec` of the closure: one call runs alone, to its end.

The faults are never fair: no property relies on one happening.

## Disagreements the runs show

Each is a run that must find its one property violated.

* `fixture_unverified_stop` / `SupervisorStopsFirst`. A comment says the supervisor
  removes the root after stopping descendants. When the wait after the group kill
  times out, the `finally` clause removes the root while the child is still ending.
  SIGKILL has been sent by then, so `RootOutlivesGroup` still holds.
* `workspace_launch` / `LaunchRechecks`. The prose rechecks identity before every use,
  launches included; the oracle's launch adds its own record and leaves records of the
  older identity active.
* `closure_exact_forms` / `LoopTerminates`. The prose argues that selections only
  decrease and the loop therefore ends. The ceiling is compared for ranges only, and two
  packages with crossed exact requirements keep the loop re-selecting for ever.
* `released_schemas` / `SchemasStay`. A docstring says every schema of the latest release
  stays as it is. The gate compares with the tag a hand-edited constant names, and
  nothing compares that constant with the tags that exist.

## What is proved

TLAPS proves every safety property a passing run checks, invariants and action
properties alike, and both refinements, for every value of the constants. The
assumptions are the named ones of the modules: `FixtureAssumption`, `Bounds`,
`SomeGeneration`, `NoneIsNothing`, `Directories`, `Ranked`, `Apart`,
`InputsAreInstallations`, `NoneIsNoLog`, `MaxLogIsNat`, `LaunchAssumption`,
`AskedAreRequests`, `ReleaseAssumption`, and, for components that a run instantiates,
the conjuncts of `PartsAssumption` in `MCManager`, `MCRegistryRollback` and `MCRelease`.
They give constants their types, keep `None` apart from values and bounds natural, and
say that a chain has a first hop, a directory contains itself and a range parses. None
states anything about behaviour, and TLC evaluates each.

Definitions that pick the first match are IF chains and scenarios are sets of records,
so that the modules TLC checks are the ones proved about.

**FixtureSupervisionProofs.** `TypeCorrect`, `RootSafety`, `CompletionSafety`,
`VerdictSafety`, `Implements`. None of the three safety properties is inductive: a root
may be removed at places far from where its group was stopped, so `IInv` carries what
each place knows. It is `TypeOK` with `Safe`: before the spawn there is no group
(`BeforeSpawn`); from the provider's group kill on the group is quiet
(`ProviderStopped`); a verified run on Unix is unwound only after the owner's own kill
(`VerifiedStopped`), on Windows after the provider's end (`JobStopped`); the owner's
permission to clean up implies both a quiet group and a provider that is gone
(`CleanupSafe`); and nothing is dispatched into a removed root (`RemovedSafe`,
`Retired`). `Earned` then follows a status from the child's exit through the provider's
report and the reader to the owner. The refinement takes one case per action.

**CommandReferencesProofs.** `TypeCorrect`, `HooksServe` (both `SelectionServes` and
`RollbackServes`), `RaceSafety`, `ReadingSafety`, `ReleaseSafety`, `KeysDistinct`. A
reference is numbered once (`Born`) and never both live and released (`Apart`);
selections and displaced references are live (`Serving`) and their roots on disk
(`Held`). Revisions only grow, so a reading whose revision is still current has seen
every change of role (`AllSound`); without the revision bumped on the displaced
reference as well this step fails.

**WorkspaceTrustProofs.** `TypeCorrect`, `RecordsSafety`, `OnceSafety`,
`ReferenceSafety`, `IdentitySafety`, `HistorySafety`, `Implements`. To the runs'
invariants it adds that the transaction of every record is committed (`Committed`) and
has one event (`OneEvent`). The latter is what lets the removal of a binding map to
`Unbind`, which takes everything of a transaction and not only its binding references.

**ClosureResolutionProofs.** `TypeCorrect`, `CurrentSafety`, `ServiceSafety`,
`ClosureSafety`, `FallingSafety`, `WeightSafety`, `WeighingRefinesLoop`. The final check
of the code looks at ranges only, so that a lock serves exact forms must be carried
through the loop: `AllSettled` says that a name which is not pending has the selection
its present constraints give it. With `ConstraintsAreCurrent`, which says the
constraints are those of the machine and the present selections, the pending names are
exactly where this may fail, and at the check there are none. `AtCeiling` (a selection
made from ranges equals its ceiling) gives `FallingSafety`. `WeightSafety`: declarations
that contradict each other pass only where the root says what counts, and then the
name is in the warnings. `WeighingRefinesLoop` carries the loop's theorems over.

**RegistryRollbackProofs.** `TypeCorrect`, `ViewSafety`, `RestoreSafety`,
`CoveredSafety`, `AdvanceSafety`, for logs of any length and any number of operations.
`OneBodyPerVersion` is inductive only beside `HighestAccepted`: the stored high-water is
among the accepted boundaries and no accepted boundary exceeds its version.
`VectorSafety`, for any set of versions: one lemma per family of names shows that its
pin leaves the verdict no choice. `SourceSafety` and `ProfileSafety`, for any
configurations, offers, harms and homes: to the two properties the invariant adds that
a home's record of its seed is of the seed it has or none (`SeedIsRecorded`).

**NativeLaunchProofs.** `LaunchesKeep` and `ClearedStandsAsAdmitted`, for any number of
profiles, generations, writers and launches. The recheck compares two revisions and no
content. It is enough because a revision is given once: `Noted` says that what a launch
noted is of a revision no later than the present one, and that as long as the selection's
revision is the one it noted, so is the generation. A pinned generation stays because
pruning looks at the pins and not at what an operator attests (`Pinned`).

**ManagerProofs.** `HomeSafety`, `PolicySafety`, `RunsSafety`, `PublishedIsDerived`: the
other twelve parts of `manager`, each with an invariant of its own, put side by side at
the end (`PartSteps`).
* *Grants.* A record begins active, lapses at most once and ends with a revocation, at
  times that do not decrease (`Lived`); every such history is one the ledger can read.
  `NoKeyIsForgotten` and `ActiveKeysStay` are inductive beside "the grants of a key have
  records". The two passes of a revocation meet in `RevokeStep`: a key that is taken has
  no active grant after the first pass, and one that is left has one or is of no grant
  affected.
* *Credentials.* What the final boundary lets through is of the node's binding in every
  component the fragment carries, whatever the state; the invariant is only the type.
* *Admission.* A verdict to admit means that preparing the launch now would give the same
  record (`Stands`), until something moves and takes the verdict with it.
* *Postures.* Each of the seventeen cases, as the gate pins it, shows what its name says
  (`ScenariosShow`), and an admitted case is one of them. Diagnostics are a union of
  conditional findings (`DiagnosticsAre`), from which `CheckForetells`, `FlipIsForetold`
  and `WeakIsNamed` follow for every configuration that edits can produce.
* *Entry writes, seeds, shell hooks, files that cannot be read.* A write that is let
  through reaches no foreign place (`AdmittedFollowsNoLink`); a record is of the
  provision that made the configuration (`RecordIsOfConfig`); what is on record was
  approved (`RecordsAreApproved`); what is gone cannot fail (`MissingIsBare`).
* *Global operations.* During one the surfaces are of two locks; what makes the rollback
  of a conflict come out right is `InStep`: skills in place are of the former lock or the
  wanted one, and whatever the operation replaced and remembers was of the former.
  `WantsPublished` says how far the wanted lock has come in each phase, so that a
  takeover, which starts from the published lock, finds its store entries.
* *Provider search.* Both searches stop at the first of a sequence (`FirstWanted`), so
  what one revision finds determines where the other stops.
* *Command roots.* A chain that the check of the hook accepts forwards from each hop to
  the next and to no other, so whatever is reached without a successor is its last, with
  the code the receipt pins (`CheckedRuns`). `Journaled` says for each phase which parts
  are old, which are new, and that both are on disk: this is what a crash leaves and what
  recovery finds. `Sessioned` ties a running process to a pin on its generation.
* *Skill plans.* A plan whose checks pass is `Derived` itself: its nodes are the skills
  that are reached, its edges and constraints those of the admitted commits, and nothing
  is left to choose. Reachability is the least closed set, so no induction over paths is
  needed.

**ReleaseProofs.** `ReleaseSafety`, `BuildSafety`, `FlowSafety`, `RangeSafety`.
* *Pipeline.* A version is published once and a candidate with its record (`Standing`),
  so the commit a later release compares a record with is that of the record's own tag
  (`KeptRecords`). A tree has one report of each type (`ReportsFit`), so a reviewed tree
  was read by two people at what it is now (`ReviewedStands`).
* *Builds.* `Knows` says what a session knows at each of its thirteen states; source and
  toolchain only grow, so what is unchanged at the reverification was unchanged all along.
* *Flows.* `OneRun` follows from the checks (`AcceptedIsOneRun`), since a permit contains
  its capability and an execution its permit; the invariant adds that an execution began
  under its permit and was not completed in the future.
* *Ranges.* Components of any size: `Matches` compares cores by the first component that
  differs (`Before3`) and so do the readings; `DesugaredReads` takes the operators, and the
  numbers of components a partial may have, one by one.

### Only model-checked

Liveness (`WaitsOnlyForTheBody`, `LeaseReachesChild`, `ProviderReclaims`,
`ResolutionEnds`) is checked by TLC on the instances above: liveness under fairness is
out of the prover's reach.

## What is not modelled, and why

* **The command mode of the fixture** (`_command`, `WindowsStartGate`): one supervisor,
  no records and no shared root. The reuse of a process identifier needs the kernel's
  allocation.
* **Selected directories of a closure**: the model would need the order in which
  constraints were added.
* **Checks of single documents**: wire semantics, repository identity, source markers,
  registry documents and service vectors, snapshots, leases, contacts, login readiness,
  project context, Skillfile MCP, SSH and RC7 carriers, environment vectors. Each compares
  one document with an ordered list of conditions, or with a pinned literal, and no
  decision depends on an earlier one. A model would repeat the list.
* **Grammars, canonical JSON, hashing, schemas, rows of text**: formatting and digests of
  single documents. In the models a digest is the value it is of.
* **Coverage ledgers, workflows, generators**: one pass over files or test output. The
  generators hold a second resolver in Go, which the vectors compare with the modelled one.
* **Prose, schemas and vectors**: data.

`PROJECT.json` lists each of them with its reason, and the hazards they carry. Three
hazards have no property: a process identifier that is used again, a cleanup whose
workspace the ledger does not record, and the selected directory above.

## Plan

Done: fixture supervision and command references; trust, grants, credentials and
launches; plans, closures and ranges; registry, signers, store and profile; the decisions
of the manager about files it shares with others; builds, flows and releases; and proofs
of every safety property the runs check.

Theorems next: `CommandRoots` as a refinement of an atomic publication, which would
say in one formula what `RecoveredWhole` and `RetainedRootsStay` say of its states; and
lemmas about `VersionRanges` that compare two ranges, so that intersections can be stated.

Modules that only evaluate operators share the run of the component they serve, so that
each run stays a distinct question.
