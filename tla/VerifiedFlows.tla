---------------------------- MODULE VerifiedFlows ----------------------------
(* The verified mode of a build (tools/assurance.py): a host execution provider   *)
(* states its capabilities, permits one operation, executes it and signs off      *)
(* three checkpoints, and a validator decides whether the records it was handed    *)
(* tell one story.  Records are honest, each written by the step it speaks of;      *)
(* what can go wrong is that they are of different attempts: a provider replaced    *)
(* between two calls, an answer repeated or late, an operation tried again.  A     *)
(* digest is the record it is of.                                                   *)
EXTENDS Naturals, Sequences, FiniteSets

CONSTANTS
    Identities,  \* what a provider presents: [contract, binary]
    Contract,    \* the one contract the mode speaks
    Requests,    \* what may be asked of it: [operation, build]
    MaxTime,     \* bound: clock
    MaxAnswers,  \* bound: records of each kind
    None

FlowAssumption ==
    /\ \A p \in Identities : DOMAIN p = {"contract", "binary"}
    /\ MaxTime \in Nat

VARIABLES
    clock,
    installed,     \* the identity the provider has now
    capabilities,  \* the capability receipts given
    permits,       \* the permits given
    executions,    \* the executions begun, with what each has written so far
    chosen,        \* the flow the build works on: [provider, operation, build]
    accepted       \* the last set of records the validator let through
vars == <<clock, installed, capabilities, permits, executions, chosen, accepted>>

--------------------------------------------------------------------------------
Phases == <<"permit-issued", "execution-started", "execution-succeeded">>

\* The checkpoints of an execution by p under permit t, each with the one before it:
\* the first is of whoever gave the permit.
Checkpoint(p, t, n, previous) ==
    [phase |-> Phases[n], provider |-> p, previous |-> previous,
     operation |-> t.operation, capability |-> t.capability, permit |-> t]
Chain(p, t) ==
    LET one == Checkpoint(t.provider, t, 1, None)
        two == Checkpoint(p, t, 2, one)
    IN <<one, two, Checkpoint(p, t, 3, two)>>

Artifact(e) == [build |-> e.permit.build, by |-> e.by.binary, at |-> e.started]

CacheInput(t) ==
    [contract |-> t.provider.contract, binary |-> t.provider.binary,
     build |-> t.build, capability |-> t.capability]

ReceiptOf(e) ==
    [provider |-> e.by, operation |-> e.permit.operation,
     capability |-> e.permit.capability, permit |-> e.permit, build |-> e.permit.build,
     artifact |-> Artifact(e), started |-> e.started, completed |-> e.completed]

TypeOK ==
    /\ clock \in 0 .. MaxTime
    /\ installed \in Identities
    /\ \A c \in capabilities : c.provider \in Identities /\ c.observed < c.expires
    /\ \A t \in permits : t.capability \in capabilities
    /\ \A e \in executions : e.permit \in permits /\ e.by \in Identities /\ e.started \in 0 .. clock

Init ==
    /\ clock = 0 /\ installed \in Identities
    /\ capabilities = {} /\ permits = {} /\ executions = {}
    /\ chosen = None /\ accepted = None

--------------------------------------------------------------------------------
\* The provider and the build, as the records they leave show them.
Tick ==
    /\ clock < MaxTime /\ clock' = clock + 1
    /\ UNCHANGED <<installed, capabilities, permits, executions, chosen, accepted>>

\* Providers are only ever upgraded.
Replace(p) ==
    /\ p.binary > installed.binary /\ installed' = p
    /\ UNCHANGED <<clock, capabilities, permits, executions, chosen, accepted>>

Choose(q) ==
    /\ chosen' = [provider |-> installed, operation |-> q.operation, build |-> q.build]
    /\ UNCHANGED <<clock, installed, capabilities, permits, executions, accepted>>

\* Good for one tick; established is what it says of all capabilities and the health.
Observe(established) ==
    /\ Cardinality(capabilities) < MaxAnswers
    /\ capabilities' = capabilities \union
           {[provider |-> installed, established |-> established,
             nonce |-> Cardinality(capabilities), observed |-> clock, expires |-> clock + 1]}
    /\ UNCHANGED <<clock, installed, permits, executions, chosen, accepted>>

Permit(c) ==
    /\ chosen # None /\ Cardinality(permits) < MaxAnswers
    /\ permits' = permits \union
           {[provider |-> installed, capability |-> c, nonce |-> c.nonce,
             operation |-> chosen.operation, build |-> chosen.build, expires |-> clock + 1]}
    /\ UNCHANGED <<clock, installed, capabilities, executions, chosen, accepted>>

Start(t) ==
    /\ Cardinality(executions) < MaxAnswers
    /\ clock < t.expires
    /\ executions' = executions \union
           {[permit |-> t, by |-> installed, started |-> clock, completed |-> None]}
    /\ UNCHANGED <<clock, installed, capabilities, permits, chosen, accepted>>

\* A provider that was replaced completes nothing.
Complete(e) ==
    /\ e.completed = None /\ e.by = installed
    /\ executions' = (executions \ {e}) \union {[e EXCEPT !.completed = clock]}
    /\ UNCHANGED <<clock, installed, capabilities, permits, chosen, accepted>>

--------------------------------------------------------------------------------
\* The validator.  flow is what the build chose, with the records it was handed.
SameContract(expected, actual) == actual.contract = expected.contract
ProviderHolds(expected, actual) == actual = expected
ProviderError(expected, actual) ==
    IF actual.contract # expected.contract THEN "verified_provider_unavailable"
    ELSE "verified_provider_identity_invalid"

Observed(c, time) == c.observed <= time
Fresh(c, time) == c.observed <= time /\ time < c.expires

PermitIsOurs(flow) ==
    /\ flow.time < flow.permit.expires
    /\ flow.permit.operation = flow.operation
    /\ flow.permit.build = flow.build

CacheIsOurs(flow) ==
    /\ flow.cache.key = flow.cache.input
    /\ flow.cache.input.contract = flow.provider.contract
    /\ flow.cache.input.binary = flow.provider.binary
    /\ flow.cache.input.build = flow.build

ReceiptOfOperation(flow) ==
    flow.receipt.operation = flow.operation /\ flow.receipt.completed # None
ReceiptIsOurs(flow) ==
    /\ flow.receipt.operation = flow.operation
    /\ flow.receipt.capability = flow.capability
    /\ flow.receipt.permit = flow.permit
    /\ flow.receipt.build = flow.build
    /\ flow.receipt.artifact = flow.artifact
    /\ flow.receipt.completed # None /\ flow.receipt.started <= flow.receipt.completed

ChainHolds(flow) ==
    \A n \in 1 .. 3 :
        LET k == flow.checkpoints[n] IN
        /\ ProviderHolds(flow.provider, k.provider)
        /\ k.phase = Phases[n]
        /\ k.previous = IF n = 1 THEN None ELSE flow.checkpoints[n - 1]
        /\ k.operation = flow.operation
        /\ k.capability = flow.capability
        /\ k.permit = flow.permit

\* The first of these that fails is the code a caller sees.
ValidateFlow(flow) ==
    IF flow.provider.contract # Contract THEN "verified_provider_unavailable"
    ELSE IF ~ProviderHolds(flow.provider, flow.capability.provider) THEN
             ProviderError(flow.provider, flow.capability.provider)
    ELSE IF ~flow.capability.established \/ ~Fresh(flow.capability, flow.time) THEN
             "verified_capabilities_unsatisfied"
    ELSE IF flow.permit.capability # flow.capability
         \/ flow.cache.input.capability # flow.capability THEN "verified_capabilities_unsatisfied"
    ELSE IF flow.capability.nonce # flow.permit.nonce THEN "verified_permit_invalid"
    ELSE IF ~ProviderHolds(flow.provider, flow.permit.provider) THEN
             ProviderError(flow.provider, flow.permit.provider)
    ELSE IF ~PermitIsOurs(flow) THEN "verified_permit_invalid"
    ELSE IF ~CacheIsOurs(flow) THEN "assurance_evidence_mismatch"
    ELSE IF ~ProviderHolds(flow.provider, flow.receipt.provider) THEN
             ProviderError(flow.provider, flow.receipt.provider)
    ELSE IF ~ReceiptIsOurs(flow) THEN "verified_execution_receipt_invalid"
    ELSE IF ~ChainHolds(flow) THEN "verified_checkpoint_invalid"
    ELSE "accepted"

\* What is handed over: any records there are, whichever attempt they are of.  A
\* refused flow leaves nothing behind.
Validate(c, t, kept, key, e, x) ==
    LET flow == [provider |-> chosen.provider, operation |-> chosen.operation,
                 build |-> chosen.build, time |-> clock, capability |-> c, permit |-> t,
                 cache |-> [key |-> CacheInput(key), input |-> CacheInput(kept)],
                 receipt |-> ReceiptOf(e), checkpoints |-> Chain(x.by, x.permit),
                 artifact |-> Artifact(x)]
    IN /\ ValidateFlow(flow) = "accepted"
       /\ accepted' = flow
       /\ UNCHANGED <<clock, installed, capabilities, permits, executions, chosen>>

\* The build is over when a flow is accepted.
Next ==
    /\ accepted = None
    /\ \/ Tick
       \/ \E p \in Identities : Replace(p)
       \/ \E q \in Requests : Choose(q)
       \/ \E established \in BOOLEAN : Observe(established)
       \/ \E c \in capabilities : Permit(c)
       \/ \E t \in permits : Start(t)
       \/ \E e \in executions : Complete(e)
       \/ chosen # None /\ \E c \in capabilities, t, kept, key \in permits, e, x \in executions :
              Validate(c, t, kept, key, e, x)

--------------------------------------------------------------------------------
\* What is accepted is one execution of the build that was asked for, by the provider
\* that was chosen and that showed its capabilities, begun under its permit and over
\* before what it showed had lapsed, and it is kept under the key of exactly that.
OneRun ==
    accepted # None =>
        \E e \in executions :
            /\ accepted.receipt = ReceiptOf(e) /\ accepted.artifact = Artifact(e)
            /\ {e.by, e.permit.provider, e.permit.capability.provider} = {accepted.provider}
            /\ e.permit.operation = accepted.operation /\ e.permit.build = accepted.build
            /\ e.permit.capability.established
            /\ e.started < e.permit.expires
            /\ e.completed # None /\ e.completed < e.permit.capability.expires
            /\ accepted.cache.key = CacheInput(e.permit)
            /\ \A n \in 1 .. 3 : accepted.checkpoints[n].permit = e.permit
=============================================================================
