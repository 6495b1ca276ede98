---------------------------- MODULE HomeCredentials ----------------------------
(* The credential of a managed home, as the oracles of tools/                 *)
(* local_setup_token.py rule it: an operator selects a source, a home adopts   *)
(* it, the node registers a binding and rotates what it binds, a plan is made  *)
(* of what is current and is executed later.  Schema validity of a document,   *)
(* its predecessor version and the node's protected store are not modelled: a  *)
(* document here is well-formed.                                              *)
EXTENDS Naturals, FiniteSets

CONSTANTS Nodes, PerHome, Contexts, Found, MaxGeneration, None

\* What may lie where the agent would look by itself.
Evidence == {"absent", "credential", "link", "competing-settings", "unreadable"}

Stale == "credential_source_stale"
Mismatch == "credential_binding_mismatch"

SourcesAssumption ==
    /\ PerHome \notin Nodes /\ None \notin Nodes \union Contexts /\ None \notin {Stale, Mismatch}
    /\ MaxGeneration \in Nat \ {0} /\ Found \subseteq Evidence

Sources == Nodes \union {PerHome}
Projections == [source : Nodes, generation : Nat, policy : Nat]

VARIABLES
    config,     \* [source, store, isolation] of the profile on this machine
    marker,     \* the source the home was last applied with
    evidence,   \* what lies where the agent would look by itself
    generation, \* node -> generation of its credential
    policy,     \* generation of the policy
    binding,    \* what the node registered last, or None
    plan        \* [extension, projection, generation, policy], or None

credentials == <<config, marker, evidence, generation, policy, binding, plan>>

\* metadata_error of a configuration: a node source of this agent needs the native
\* store and a home of its own.
ConfigAdmitted(c) == c.source \in Nodes => c.store = "native" /\ c.isolation # "shared"

Configurations == [source : Sources, store : {"native", "home"}, isolation : {"isolated", "shared"}]

Init ==
    /\ config \in {c \in Configurations : ConfigAdmitted(c)} /\ marker = PerHome
    /\ evidence \in Found
    /\ generation = [n \in Nodes |-> 1] /\ policy = 1
    /\ binding = None /\ plan = None

--------------------------------------------------------------------------------
Configure(c) ==
    /\ ConfigAdmitted(c) /\ config' = c
    /\ UNCHANGED <<marker, evidence, generation, policy, binding, plan>>

\* policy_error, kind adoption: only an admitted apply moves a home to another source.
MayAdopt(operation) ==
    /\ config.isolation # "shared" /\ evidence = "absent"
    /\ marker # config.source => operation = "admitted-apply"

Adopt(operation) ==
    /\ MayAdopt(operation) /\ marker' = config.source
    /\ UNCHANGED <<config, evidence, generation, policy, binding, plan>>

Appear(e) ==
    /\ evidence' = e
    /\ UNCHANGED <<config, marker, generation, policy, binding, plan>>

\* The node's side: a credential is rotated, the policy moves, a binding is made of
\* what is current for the context that asked.
Rotate(n) ==
    /\ generation[n] < MaxGeneration /\ generation' = [generation EXCEPT ![n] = @ + 1]
    /\ UNCHANGED <<config, marker, evidence, policy, binding, plan>>

MovePolicy ==
    /\ policy < MaxGeneration /\ policy' = policy + 1
    /\ UNCHANGED <<config, marker, evidence, generation, binding, plan>>

Register(n, c) ==
    /\ binding' = [source |-> n, generation |-> generation[n], policy |-> policy, context |-> c]
    /\ UNCHANGED <<config, marker, evidence, generation, policy, plan>>

\* A plan carries the projection of the fragment it was made from and, beside it,
\* the source and generations it requires.
Plan ==
    /\ config.source \in Nodes /\ marker = config.source
    /\ LET now == [source |-> config.source, generation |-> generation[config.source], policy |-> policy]
       IN  plan' = [extension |-> now.source, generation |-> now.generation, policy |-> now.policy,
                    projection |-> now]
    /\ UNCHANGED <<config, marker, evidence, generation, policy, binding>>

\* The same fragment is planned again, with what is required of the node today.
Replan ==
    /\ plan # None
    /\ \E n \in Nodes :
        plan' = [plan EXCEPT !.extension = n, !.generation = generation[n], !.policy = policy]
    /\ UNCHANGED <<config, marker, evidence, generation, policy, binding>>

\* Mutant: the plan is not compared with the fragment it carries.
AnyPlan(p) == TRUE

\* metadata_error of a plan.
PlanIsWhole(p) ==
    /\ p.extension = p.projection.source
    /\ p.generation = p.projection.generation /\ p.policy = p.projection.policy

\* policy_error, kind final-boundary, for the qualified tuple on its own route.
FinalBoundary(p, b, context) ==
    IF ~PlanIsWhole(p) THEN Stale
    ELSE IF b = None THEN Mismatch
    ELSE IF b.source # p.projection.source \/ b.generation # p.generation \/ b.policy # p.policy THEN Stale
    ELSE IF b.context # context THEN Mismatch
    ELSE None

Next ==
    \/ \E c \in Configurations : Configure(c)
    \/ \E o \in {"resolve", "repair", "start", "admitted-apply"} : Adopt(o)
    \/ \E e \in Found : Appear(e)
    \/ \E n \in Nodes : Rotate(n) \/ \E c \in Contexts : Register(n, c)
    \/ MovePolicy \/ Plan \/ Replan

Spec == Init /\ [][Next]_credentials

--------------------------------------------------------------------------------
TypeOK ==
    /\ config \in Configurations /\ marker \in Sources /\ evidence \in Found
    /\ generation \in [Nodes -> 1 .. MaxGeneration] /\ policy \in 1 .. MaxGeneration
    /\ plan # None => plan.projection \in Projections
    /\ binding # None => binding.source \in Nodes /\ binding.context \in Contexts

\* A plan the final boundary lets through launches with what the node bound: the
\* projection its fragment carries, not only what the plan says of it, is that of
\* the registered binding, in the context that was bound, however often the
\* credential, the policy, the home's source or the plan moved since.
ExecutedAsBound ==
    \A c \in Contexts : plan # None /\ FinalBoundary(plan, binding, c) = None =>
        /\ plan.projection.source = binding.source /\ binding.context = c
        /\ plan.projection.generation = binding.generation
        /\ plan.projection.policy = binding.policy
================================================================================
