------------------------------ MODULE WorkerBuilds -----------------------------
(* Compiled commands as the execution-policy and build-driver oracles of       *)
(* tools/validate.py require them: a manager drives a worker through the       *)
(* states of a session, takes a record of the host's controls, and publishes   *)
(* what was built under a key that is the build's whole input.                 *)
(*                                                                            *)
(* Sessions run side by side while sources, the toolchain, the worker's binary *)
(* and the host change.  A digest is what it is of; whatever is replaced gets  *)
(* a number not used before.  Byte framing, fixed environments, schemas and    *)
(* the wording of vectors are left out.                                        *)
EXTENDS Naturals, Sequences

CONSTANTS
    Sessions,
    Mandatory,      \* controls no build does without
    Native,         \* control -> its availability in the platform's inventory
    Deferred,       \* guarantees of the hardened profile
    MaxChanges,     \* bound on replacements of source, toolchain and worker
    None

Portable == "manager-worker-v1"
\* The reserved hardened policy and the input of old that named none.
Policies == {Portable, "hardened", "legacy"}
Availabilities == {"available", "unavailable", "host-conditional"}
Entries == [availability : {"available", "unavailable"}, status : {"applied", "unavailable"}]
EvidenceErrors ==
    {"build_execution_hardened_claim_forbidden", "build_execution_capability_evidence_invalid"}
\* None is neither an error nor a record of controls.
BuildAssumption ==
    /\ Native \in [DOMAIN Native -> Availabilities] /\ MaxChanges \in Nat
    /\ Deferred \intersect (Mandatory \union DOMAIN Native) = {}
    /\ None \notin EvidenceErrors
    /\ None \notin [policy : Policies, version : {"current"}, extra : {{}}, entries : [DOMAIN Native -> Entries]]

\* session_states; every pair the validator orders is in this order.
States == <<"toolchain-probe", "availability-probe", "identity-verification", "launch",
            "identity-proof", "control-evidence", "go-list", "graph-validation", "permit",
            "go-build", "artifact-verification", "reverification", "teardown">>
Position(state) == CHOOSE i \in DOMAIN States : States[i] = state
Versions == 0 .. MaxChanges

VARIABLES
    source, toolchain, worker,  \* versions of what is there now
    lacking,    \* mandatory controls that cannot be applied now
    host,       \* host-conditional controls that are there now
    session,    \* session -> None or how far it is and what it knows
    cache       \* build input -> the build that is published for it

vars == <<source, toolchain, worker, lacking, host, session, cache>>
world == <<source, toolchain, worker, lacking, host>>

Conditional == {n \in DOMAIN Native : Native[n] = "host-conditional"}

Init ==
    /\ source = 0 /\ toolchain = 0 /\ worker = 0
    /\ lacking = {} /\ host = {}
    /\ session = [s \in Sessions |-> None] /\ cache = <<>>
--------------------------------------------------------------------------------
Changes == source + toolchain + worker
ChangeSource == Changes < MaxChanges /\ source' = source + 1 /\ UNCHANGED <<toolchain, worker, lacking, host, session, cache>>
ChangeToolchain == Changes < MaxChanges /\ toolchain' = toolchain + 1 /\ UNCHANGED <<source, worker, lacking, host, session, cache>>
ReplaceWorker == Changes < MaxChanges /\ worker' = worker + 1 /\ UNCHANGED <<source, toolchain, lacking, host, session, cache>>
HostChanges(l, h) ==
    /\ l \subseteq Mandatory /\ h \subseteq Conditional
    /\ lacking' = l /\ host' = h
    /\ UNCHANGED <<source, toolchain, worker, session, cache>>

\* What is available: the inventory's word, or the probe of this very operation.
Probed(n, seen) ==
    IF Native[n] = "host-conditional" THEN IF n \in seen THEN "available" ELSE "unavailable"
    ELSE Native[n]

At(s, state) == session[s] # None /\ session[s].at = Position(state) - 1
Step(s, next) == session' = [session EXCEPT ![s] = [next EXCEPT !.at = @ + 1]]
Fail(s, error) == session' = [session EXCEPT ![s].at = Len(States), ![s].error = error]

\* The input of a build; what the host can do is no part of it.
Key(policy) == [policy |-> policy, source |-> source, toolchain |-> toolchain]

\* A session begins on a snapshot; with any other policy there is no lookup.
Begin(s, policy) ==
    /\ session[s] # None => session[s].at = Len(States)
    /\ IF policy = Portable /\ Key(policy) \notin DOMAIN cache
       THEN session' = [session EXCEPT ![s] =
                [at |-> 1, input |-> Key(policy), seen |-> {}, verified |-> None, launched |-> None,
                 record |-> None, built |-> None, error |-> None]]
       ELSE session' = [session EXCEPT ![s] = None]
    /\ UNCHANGED <<world, cache>>

\* The probe precedes everything the worker does, and a mandatory control that is
\* missing ends the session before it.
ProbeControls(s) ==
    /\ At(s, "availability-probe")
    /\ IF lacking # {} THEN Fail(s, "build_execution_control_unavailable")
       ELSE Step(s, [session[s] EXCEPT !.seen = host])
    /\ UNCHANGED <<world, cache>>

VerifyWorker(s) ==
    /\ At(s, "identity-verification")
    /\ Step(s, [session[s] EXCEPT !.verified = worker])
    /\ UNCHANGED <<world, cache>>

Launch(s) ==
    /\ At(s, "launch")
    /\ Step(s, [session[s] EXCEPT !.launched = worker])
    /\ UNCHANGED <<world, cache>>

\* The worker proves which binary it is.
Proof(s) ==
    /\ At(s, "identity-proof")
    /\ IF session[s].launched = session[s].verified THEN Step(s, session[s])
       ELSE Fail(s, "build_execution_worker_identity_invalid")
    /\ UNCHANGED <<world, cache>>

\* A record of controls: [policy, version, entries, extra], extra for what it lists
\* twice or outside the inventory.
Honest(seen) ==
    [policy |-> Portable, version |-> "current", extra |-> {},
     entries |-> [n \in DOMAIN Native |->
        [availability |-> Probed(n, seen),
         status |-> IF Probed(n, seen) = "available" THEN "applied" ELSE "unavailable"]]]
Garbled(r, n, e) ==
    {r, [r EXCEPT !.policy = "hardened"], [r EXCEPT !.version = "unknown"],
     [r EXCEPT !.extra = {n}], [r EXCEPT !.extra = Deferred],
     [r EXCEPT !.entries[n] = e]}

\* Mutant: a status is taken whatever the availability.
StatusAsReported(r, seen) == \A n \in DOMAIN Native : r.entries[n].availability = Probed(n, seen)
StatusFits(r, seen) ==
    \A n \in DOMAIN Native :
        /\ r.entries[n].availability = Probed(n, seen)
        /\ r.entries[n].status = IF r.entries[n].availability = "available" THEN "applied" ELSE "unavailable"

\* validate_capability_evidence_cases: which error a record meets.
EvidenceError(r, seen) ==
    IF r.policy # Portable \/ r.extra \intersect Deferred # {}
    THEN "build_execution_hardened_claim_forbidden"
    ELSE IF r.extra # {} \/ r.version # "current" \/ ~StatusFits(r, seen)
    THEN "build_execution_capability_evidence_invalid"
    ELSE None

Evidence(s, r) ==
    /\ At(s, "control-evidence")
    /\ LET error == EvidenceError(r, session[s].seen) IN
        IF error = None THEN Step(s, [session[s] EXCEPT !.record = r]) ELSE Fail(s, error)
    /\ UNCHANGED <<world, cache>>

\* List, graph and permit; a message that is replayed, out of order, too long or of
\* an unknown kind ends the session, and so does another program below the worker.
Exchange(s, message) ==
    /\ \E x \in {"go-list", "graph-validation", "permit"} : At(s, x)
    /\ CASE message = "expected" -> Step(s, session[s])
         [] message = "unexpected" -> Fail(s, "build_execution_worker_protocol_invalid")
         [] message = "program" -> Fail(s, "build_execution_worker_identity_invalid")
    /\ UNCHANGED <<world, cache>>

\* The compiler reads what is there by then.
Build(s) ==
    /\ At(s, "go-build")
    /\ Step(s, [session[s] EXCEPT !.built = [source |-> source, toolchain |-> toolchain,
                                             worker |-> session[s].launched]])
    /\ UNCHANGED <<world, cache>>

VerifyArtifact(s, second) ==
    /\ At(s, "artifact-verification")
    /\ IF second THEN Fail(s, "build_execution_worker_protocol_invalid") ELSE Step(s, session[s])
    /\ UNCHANGED <<world, cache>>

\* Mutant: only the worker is looked at again.
WorkerStillThere(x) == x.verified = worker
Unchanged(x) == x.verified = worker /\ x.input.source = source /\ x.input.toolchain = toolchain

Reverify(s) ==
    /\ At(s, "reverification")
    /\ IF Unchanged(session[s]) THEN Step(s, session[s])
       ELSE Fail(s, "build_execution_worker_identity_invalid")
    /\ UNCHANGED <<world, cache>>

\* cache_publication_cases: the first one stays, an equal one is discarded and a
\* different one is an error of its own; either way the session ends.
Publish(s) ==
    /\ At(s, "teardown")
    /\ LET x == session[s] IN
        /\ cache' = [k \in DOMAIN cache \union {x.input} |->
                       IF k \in DOMAIN cache THEN cache[k] ELSE x.built]
        /\ Step(s, x)
    /\ UNCHANGED world

Next ==
    \/ ChangeSource \/ ChangeToolchain \/ ReplaceWorker
    \/ \E l \in SUBSET Mandatory, h \in SUBSET Conditional : HostChanges(l, h)
    \/ \E s \in Sessions :
        \/ \E p \in Policies : Begin(s, p)
        \/ ProbeControls(s) \/ VerifyWorker(s) \/ Launch(s) \/ Proof(s) \/ Build(s) \/ Reverify(s) \/ Publish(s)
        \/ session[s] # None /\ \E n \in DOMAIN Native, e \in Entries :
            \E r \in Garbled(Honest(session[s].seen), n, e) : Evidence(s, r)
        \/ \E m \in {"expected", "unexpected", "program"} : Exchange(s, m)
        \/ \E b \in BOOLEAN : VerifyArtifact(s, b)

Spec == Init /\ [][Next]_vars
--------------------------------------------------------------------------------
TypeOK ==
    /\ {source, toolchain, worker} \subseteq Versions
    /\ lacking \subseteq Mandatory /\ host \subseteq Conditional
    /\ \A s \in Sessions : session[s] # None => session[s].at \in 1 .. Len(States)
    /\ \A k \in DOMAIN cache : k.policy = Portable

\* What is published for an input was built of exactly that input by the worker
\* that was verified, though source, toolchain and worker may change between any
\* two states of a session and another session publishes in between.
CachedIsItsKey ==
    \A k \in DOMAIN cache :
        cache[k].source = k.source /\ cache[k].toolchain = k.toolchain

\* A session past its evidence has the record an honest probe of that session
\* gives, and nothing compiled without it or for a worker that was replaced.
EvidenceIsHonest ==
    \A s \in Sessions : session[s] # None =>
        /\ session[s].record \in {None, Honest(session[s].seen)}
        /\ session[s].built # None =>
            session[s].record # None /\ session[s].built.worker = session[s].verified
================================================================================
