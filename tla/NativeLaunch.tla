------------------------------ MODULE NativeLaunch -----------------------------
(* The native admission oracle of tools/native_root_admission.py: operators    *)
(* publish the admission policy by compare-and-set, the manager selects         *)
(* generations, prunes them and keeps session pins, and a launch walks from    *)
(* what it was asked to the final recheck, reading both on the way without a   *)
(* lock.  A launch may be started from a running one, whose environment it     *)
(* inherits.                                                                   *)
(*                                                                            *)
(* A refusal ends the walk and changes nothing else.  Schemas, path lengths,   *)
(* the platform and the seven gate rows of the packet are not modelled; the    *)
(* selection of a generation and the life of a process are the environment's.  *)
EXTENDS Naturals, FiniteSets

CONSTANTS
    Profiles, Generations, Locks, Writers, Launches, Identities,
    LockOf,         \* generation -> the lock its binding names
    Homes,          \* manager homes a launch may name, the policy's own first
    Home,           \* the one the policy is for
    Asked,          \* the requests launches are started with
    MaxRevision,    \* bound on the revisions of the policy
    MaxSelection,   \* and of a selection
    None

ASSUME LaunchAssumption ==
    /\ LockOf \in [Generations -> Locks] /\ Home \in Homes /\ {MaxRevision, MaxSelection} \subseteq Nat
    /\ None \notin Profiles \union Generations \union Locks \union Launches
                   \union Identities \union Homes

Policies == [revision : Nat, locks : [Profiles -> Locks \union {None}]]
Drafts == [if : Nat, locks : [Profiles -> Locks \union {None}]]
Selections == [revision : Nat, generation : Generations]

\* What a launch is asked for.  pair: a command root is wanted; pins: with a
\* session pin; hosted, gateway: the other routes; identity: of the agent.
Requests == [profile : Profiles, home : Homes \union {None}, pair : BOOLEAN,
             pins : BOOLEAN, hosted : BOOLEAN, gateway : BOOLEAN,
             identity : Identities \union {None}]

\* Of an environment: the config it names, the session it belongs to, the agent,
\* and whether it carries what a new agent would be registered with.
Environments == [config : Homes \union {None}, session : Launches \union {None},
                 agent : Identities \union {None}, bootstrap : BOOLEAN]

Phases == {"idle", "routed", "admitted", "recorded", "cleared", "running", "ended"}

ASSUME AskedAreRequests == Asked \subseteq Requests

VARIABLES
    policy, draft,  \* the published policy; what a writer read and would publish
    selected,       \* profile -> its selection
    disk,           \* generations that are there
    phase, request, env,
    seen,           \* launch -> the revisions and generation it was admitted with
    pin             \* launch -> the pin saved for its request, or None

vars == <<policy, draft, selected, disk, phase, request, env, seen, pin>>
walk == <<phase, request, env, seen, pin>>
store == <<policy, draft, selected, disk>>

Nothing == [p \in Profiles |-> None]
Bare == [config |-> None, session |-> None, agent |-> None, bootstrap |-> FALSE]

Observation(p) == [policy |-> policy.revision, selection |-> selected[p].revision,
                   generation |-> selected[p].generation]

Init ==
    /\ policy = [revision |-> 0, locks |-> Nothing]
    /\ draft = [w \in Writers |-> None]
    /\ selected \in [Profiles -> [revision : {1}, generation : Generations]]
    /\ disk = Generations
    /\ phase = [l \in Launches |-> "idle"]
    /\ request = [l \in Launches |-> None]
    /\ env = [l \in Launches |-> [Bare EXCEPT !.bootstrap = TRUE]]
    /\ seen = [l \in Launches |-> None]
    /\ pin = [l \in Launches |-> None]

--------------------------------------------------------------------------------
\* An operator reads the revision and writes down the locks it means to admit.
Prepare(w, locks) ==
    /\ draft' = [draft EXCEPT ![w] = [if |-> policy.revision, locks |-> locks]]
    /\ UNCHANGED <<policy, selected, disk, walk>>

StillCurrent(w) == draft[w].if = policy.revision

\* policy_update: every lock it admits is the one selected at that moment.
PolicyUpdate(w) ==
    /\ draft[w] # None /\ StillCurrent(w) /\ policy.revision < MaxRevision
    /\ \A p \in Profiles :
        draft[w].locks[p] # None => draft[w].locks[p] = LockOf[selected[p].generation]
    /\ policy' = [revision |-> policy.revision + 1, locks |-> draft[w].locks]
    /\ UNCHANGED <<draft, selected, disk, walk>>

\* The manager's side: a selection has a revision of its own.
Select(p, g) ==
    /\ g \in disk /\ g # selected[p].generation /\ selected[p].revision < MaxSelection
    /\ selected' = [selected EXCEPT ![p] = [revision |-> @.revision + 1, generation |-> g]]
    /\ UNCHANGED <<policy, draft, disk, walk>>

Live(l) == phase[l] \in Phases \ {"idle", "ended"}

\* Mutant: a pin retains nothing.
RetainedBySelection(g) == \E p \in Profiles : selected[p].generation = g

Retained(g) ==
    \/ \E p \in Profiles : selected[p].generation = g
    \/ \E l \in Launches : Live(l) /\ pin[l] # None /\ pin[l].generation = g

\* prune_candidate: never automatic, on an operator's word that launches stopped,
\* which nothing measures: it may be wrong.
Prune(g, automatic, stopped) ==
    /\ g \in disk /\ ~automatic /\ stopped /\ ~Retained(g)
    /\ disk' = disk \ {g}
    /\ UNCHANGED <<policy, draft, selected, walk>>

--------------------------------------------------------------------------------
\* native_route: a hosted launch has no pair, a managed gateway neither a pair nor
\* an identity.
NativeRoute(r) ==
    /\ ~(r.hosted /\ r.pair)
    /\ ~(r.gateway /\ (r.pair \/ r.identity # None))

\* home_route: with a home there is a policy, and no other configuration inherited.
HomeRoute(r, e) ==
    IF r.home = None THEN ~r.pair
    ELSE policy.revision > 0 /\ e.config \in {None, r.home}

\* Mutant: the session of the parent is passed on where no identity is asked for.
KeepSession(e, identity) == IF identity = None THEN e.session ELSE None

Scrubbed(e, identity) == None

\* identity_environment: sessions go, always; with an identity also whatever would
\* register a new agent, and another agent inherited is a conflict.
IdentityAgrees(e, identity) == identity # None => e.agent \in {None, identity}
IdentityEnvironment(e, identity) ==
    [e EXCEPT !.session = Scrubbed(e, identity),
              !.agent = IF identity = None THEN @ ELSE identity,
              !.bootstrap = @ /\ identity = None]

\* home_delivery: planning and tools are given the configuration that was routed.
Delivered(e, r) == IF r.home = None THEN e ELSE [e EXCEPT !.config = r.home]

\* A launch is asked for, from outside or by a running launch.
Route(l, r, parent) ==
    LET e == IF parent = None THEN env[l] ELSE env[parent] IN
    /\ phase[l] = "idle"
    /\ parent # None => phase[parent] = "running"
    /\ NativeRoute(r) /\ HomeRoute(r, e) /\ IdentityAgrees(e, r.identity)
    /\ phase' = [phase EXCEPT ![l] = "routed"]
    /\ request' = [request EXCEPT ![l] = r]
    /\ env' = [env EXCEPT ![l] = IdentityEnvironment(Delivered(e, r), r.identity)]
    /\ UNCHANGED <<store, seen, pin>>

Admits(p) == policy.locks[p] = LockOf[selected[p].generation]

\* check_candidate: policy and selection as observed, and the lock of the selection
\* admitted; with pins, the pin of the very request.  The candidate is then bound
\* to what was observed.
CheckCandidate(l) ==
    LET r == request[l] IN
    /\ phase[l] = "routed" /\ r.pair
    /\ r.home = Home /\ policy.revision > 0 /\ Admits(r.profile)
    /\ selected[r.profile].generation \in disk
    /\ seen' = [seen EXCEPT ![l] = Observation(r.profile)]
    /\ pin' = IF r.pins THEN [pin EXCEPT ![l] = [request |-> r, generation |-> selected[r.profile].generation]]
              ELSE pin
    /\ phase' = [phase EXCEPT ![l] = "admitted"]
    /\ UNCHANGED <<store, request, env>>

\* replay_acquire: the saved pin for the same request, a conflict for another.
Replay(l, r) ==
    /\ phase[l] = "admitted" /\ pin[l] # None /\ pin[l].request = r
    /\ seen' = [seen EXCEPT ![l].generation = pin[l].generation]
    /\ UNCHANGED <<store, phase, request, env, pin>>

\* base_path_recheck and unpinned_launch: the record written before the spawn names
\* the revisions it was planned with; with pins the pin stands for it.  stages are
\* the paths provider_path_observations compared: all the admitted one.
Record(l, stages, managed) ==
    /\ phase[l] = "admitted" /\ stages = {"admitted"} /\ ~managed
    /\ ~request[l].pins => policy.revision = seen[l].policy
    /\ ~request[l].pins => selected[request[l].profile].revision = seen[l].selection
    /\ phase' = [phase EXCEPT ![l] = "recorded"]
    /\ UNCHANGED <<store, request, env, seen, pin>>

\* Mutant: the selection is not looked at again.
SamePolicy(l) == policy.revision = seen[l].policy

Unmoved(l) ==
    /\ policy.revision = seen[l].policy
    /\ selected[request[l].profile].revision = seen[l].selection

\* spawn_recheck compares revisions, not contents.
SpawnRecheck(l) ==
    /\ phase[l] = "recorded" /\ Unmoved(l)
    /\ phase' = [phase EXCEPT ![l] = "cleared"]
    /\ UNCHANGED <<store, request, env, seen, pin>>

\* A launch without a pair has nothing to check.
Plain(l) ==
    /\ phase[l] = "routed" /\ ~request[l].pair
    /\ phase' = [phase EXCEPT ![l] = "cleared"]
    /\ UNCHANGED <<store, request, env, seen, pin>>

\* The process runs, in a session of its own.
Spawn(l) ==
    /\ phase[l] = "cleared"
    /\ phase' = [phase EXCEPT ![l] = "running"]
    /\ env' = [env EXCEPT ![l].session = l]
    /\ UNCHANGED <<store, request, seen, pin>>

\* Any refusal, or the end of the process; its pin is released.
End(l) ==
    /\ Live(l)
    /\ phase' = [phase EXCEPT ![l] = "ended"]
    /\ request' = [request EXCEPT ![l] = None] /\ env' = [env EXCEPT ![l] = Bare]
    /\ seen' = [seen EXCEPT ![l] = None] /\ pin' = [pin EXCEPT ![l] = None]
    /\ UNCHANGED store

Next ==
    \/ \E w \in Writers :
        \/ \E locks \in [Profiles -> Locks \union {None}] : Prepare(w, locks)
        \/ PolicyUpdate(w)
    \/ \E p \in Profiles, g \in Generations : Select(p, g)
    \/ \E g \in Generations, a, s \in BOOLEAN : Prune(g, a, s)
    \/ \E l \in Launches :
        \/ \E r \in Asked, m \in Launches \union {None} : Route(l, r, m)
        \/ CheckCandidate(l) \/ SpawnRecheck(l) \/ Plain(l) \/ Spawn(l) \/ End(l)
        \/ \E r \in Asked : Replay(l, r)
        \/ \E s \in SUBSET {"admitted", "other"}, m \in BOOLEAN : Record(l, s, m)

Spec == Init /\ [][Next]_vars

--------------------------------------------------------------------------------
TypeOK ==
    /\ policy \in Policies /\ draft \in [Writers -> Drafts \union {None}]
    /\ selected \in [Profiles -> Selections] /\ disk \subseteq Generations
    /\ phase \in [Launches -> Phases] /\ env \in [Launches -> Environments]
    /\ request \in [Launches -> Requests \union {None}]
    /\ \A l \in Launches : phase[l] \in {"admitted", "recorded"} =>
        request[l].pair /\ seen[l].generation \in Generations

\* Both revisions are compared at the last step and neither content is: what is
\* cleared is still what the policy admits and the manager selects, whatever was
\* published, selected and taken back since it was checked.
ClearedAsAdmitted ==
    [][\A l \in Launches :
        phase[l] = "recorded" /\ phase'[l] = "cleared" =>
            LET pf == request[l].profile IN
            /\ seen[l].generation = selected[pf].generation
            /\ policy.locks[pf] = LockOf[seen[l].generation]]_vars

\* A pinned launch keeps its generation from the moment it was admitted to the end
\* of its process, also when an operator wrongly attests that all have stopped.
PinnedRootsStay ==
    \A l \in Launches :
        phase[l] \in {"admitted", "recorded", "cleared", "running"} /\ pin[l] # None =>
            seen[l].generation \in disk

\* However launches start launches, none is cleared inside the session of another,
\* and one that asked for an identity has that identity and nothing to register
\* another with.
IdentityIsOwn ==
    \A l \in Launches :
        /\ phase[l] \in {"routed", "admitted", "recorded", "cleared"} => env[l].session = None
        /\ Live(l) /\ request[l].identity # None =>
            env[l].agent = request[l].identity /\ ~env[l].bootstrap

\* A launch keeps what is its own, from its admission to its end.
LaunchesKeepTheirOwn == TypeOK /\ PinnedRootsStay /\ IdentityIsOwn
================================================================================
