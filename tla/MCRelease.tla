------------------------------- MODULE MCRelease -------------------------------
(* What the repository and the drivers of a release run by themselves: a behaviour *)
(* draws one part and the others rest.  Below the instances, small sets for TLC.     *)
EXTENDS ReleasePipeline, TLC

CONSTANTS
    Sessions, Mandatory, Native, Deferred, MaxChanges,      \* of WorkerBuilds
    wild, junk, nopre, Primitives, RangeVersions, Beside,   \* of RangeCases
    Identities, Contract, Requests, MaxTime, MaxAnswers     \* of VerifiedFlows

VARIABLES
    part,
    source, toolchain, worker, lacking, host, session, cache,
    range, version,
    clock, installed, capabilities, permits, executions, chosen, accepted

W == INSTANCE WorkerBuilds
R == INSTANCE RangeCases WITH X <- wild, Junk <- junk, NoPre <- nopre, Candidates <- RangeVersions
F == INSTANCE VerifiedFlows

ASSUME PartsAssumption == W!BuildAssumption /\ R!RangeAssumption /\ F!FlowAssumption

--------------------------------------------------------------------------------
Parts == {"release", "build", "range", "flow"}
buildVars == <<source, toolchain, worker, lacking, host, session, cache>>
rangeVars == <<range, version>>
flowVars == <<clock, installed, capabilities, permits, executions, chosen, accepted>>

InitAll ==
    /\ part \in Parts /\ Init
    /\ IF part = "build" THEN W!Init
       ELSE /\ source = None /\ toolchain = None /\ worker = None /\ lacking = None
            /\ host = None /\ session = None /\ cache = None
    /\ IF part = "range" THEN R!Init ELSE range = None /\ version = None
    /\ IF part = "flow" THEN F!Init
       ELSE /\ clock = None /\ installed = None /\ capabilities = None /\ permits = None
            /\ executions = None /\ chosen = None /\ accepted = None

NextAll ==
    /\ UNCHANGED part
    /\ IF part = "release" THEN Next ELSE UNCHANGED vars
    /\ IF part = "build" THEN W!Next ELSE UNCHANGED buildVars
    /\ IF part = "range" THEN R!Next ELSE UNCHANGED rangeVars
    /\ IF part = "flow" THEN F!Next ELSE UNCHANGED flowVars

SpecAll == InitAll /\ [][NextAll]_<<part, vars, buildVars, rangeVars, flowVars>>

Interchangeable == Permutations(Reviewers) \union Permutations(Sessions)

--------------------------------------------------------------------------------
\* What is published for a build input was built of exactly that, by the worker that
\* was verified and on evidence an honest probe gives.
BuildsAreTheirKeys ==
    part = "build" => W!TypeOK /\ W!CachedIsItsKey /\ W!EvidenceIsHonest

\* A range admits the releases its text reads and the prereleases it asks for.
RangesReadAsWritten == part = "range" => R!TypeOK /\ R!ReadAsWritten /\ R!PrereleaseIsAskedFor

\* The records of a verified build that is accepted are of one execution, whatever was
\* retried, replaced or delivered late.
FlowsAreOneRun == part = "flow" => F!TypeOK /\ F!OneRun

--------------------------------------------------------------------------------
\* A control every platform has and one some hosts do.
MCNative == ("groups" :> "available") @@ ("pids" :> "host-conditional")

\* Every partial of the components 0 and 1, prereleases of the full ones, and the
\* wildcard, each after every operator; what follows a wildcard may be anything.
Text(parts, pre) == [parts |-> parts, pre |-> pre]
MCTexts ==
    {Text(x, nopre) : x \in UNION {[1 .. n -> 0 .. 1] : n \in 1 .. 3}}
    \union {Text(x, <<<<1, 0>>>>) : x \in [1 .. 3 -> 0 .. 1]}
    \union {Text(<<wild>>, nopre), Text(<<1, wild, junk>>, nopre)}
MCPrimitives == {[op |-> o, text |-> t] : o \in {"=", ">", ">=", "<", "<=", "^", "~"}, t \in MCTexts}
MCBeside ==
    {[op |-> o, text |-> Text(<<1>>, nopre)] : o \in {"<", "<=", "^"}}
    \union {[op |-> ">=", text |-> Text(<<0, 0, 1>>, <<<<0, 0>>>>)], [op |-> "^", text |-> Text(<<0>>, nopre)]}
MCRangeVersions ==
    [core : [1 .. 3 -> 0 .. 2], pre : {<<>>}]
    \union [core : {<<0, 0, 1>>, <<0, 1, 0>>, <<1, 0, 0>>, <<1, 1, 1>>}, pre : {<<<<0, 0>>>>, <<<<1, 0>>>>}]

\* A provider that is upgraded once, and another operation for another build.
MCIdentities == {[contract |-> "v1", binary |-> b] : b \in {1, 2}}
MCRequests == {[operation |-> 1, build |-> 1], [operation |-> 2, build |-> 2]}
================================================================================
