--------------------------- MODULE NativeLaunchProofs ---------------------------
(* Theorems about NativeLaunch, for every set of profiles, generations, locks,    *)
(* writers and launches and every cap on revisions.                                 *)
(*                                                                                 *)
(* The argument.  Revisions only grow, so a launch whose noted revision is still    *)
(* the current one has seen every policy and selection since (Noted): that is why    *)
(* the last recheck may compare revisions and no contents.  A pin is of the          *)
(* generation its launch was admitted with, is there only while the launch is, and    *)
(* its generation is on disk (Pinned), which pruning respects because it looks at      *)
(* the pins and not at what the operator attests.                                       *)
EXTENDS NativeLaunch, TLAPS

Observations == [policy : Nat, selection : Nat, generation : Generations]
Pins == [request : Requests, generation : Generations]

Typed ==
    /\ policy \in Policies /\ draft \in [Writers -> Drafts \union {None}]
    /\ selected \in [Profiles -> Selections] /\ disk \subseteq Generations
    /\ phase \in [Launches -> Phases] /\ env \in [Launches -> Environments]
    /\ request \in [Launches -> Requests \union {None}]
    /\ seen \in [Launches -> Observations \union {None}]
    /\ pin \in [Launches -> Pins \union {None}]
    /\ \A l \in Launches : Live(l) => request[l] \in Requests

\* What a launch noted is no newer than what there is, and where it is as new it is
\* the same.
Noted ==
    \A l \in Launches : phase[l] \in {"admitted", "recorded"} =>
        /\ seen[l] \in Observations /\ request[l].pair
        /\ seen[l].policy <= policy.revision
        /\ seen[l].selection <= selected[request[l].profile].revision
        /\ policy.revision = seen[l].policy =>
               policy.locks[request[l].profile] = LockOf[seen[l].generation]
        /\ selected[request[l].profile].revision = seen[l].selection =>
               selected[request[l].profile].generation = seen[l].generation

Pinned ==
    \A l \in Launches : pin[l] # None =>
        /\ Live(l) /\ phase[l] # "routed" /\ pin[l] \in Pins /\ seen[l] \in Observations
        /\ pin[l].generation = seen[l].generation /\ seen[l].generation \in disk

IInv == Typed /\ Noted /\ Pinned /\ IdentityIsOwn

--------------------------------------------------------------------------------
\* Every initial state satisfies the invariant.
LEMMA InitIInv == Init => IInv
<1> SUFFICES ASSUME Init PROVE IInv
  OBVIOUS
<1>1. policy \in Policies
  BY DEF Init, Policies, Nothing
<1>2. selected \in [Profiles -> Selections]
  BY DEF Init, Selections
<1>3. env \in [Launches -> Environments]
  BY DEF Init, Bare, Environments
<1>4. Typed
  BY <1>1, <1>2, <1>3 DEF Init, Typed, Live, Phases
<1> QED BY <1>4 DEF Init, IInv, Noted, Pinned, IdentityIsOwn, Live

--------------------------------------------------------------------------------
\* One lemma per kind of step: it keeps the invariant.

\* Nothing a writer or the manager does touches a launch.
LEMMA PrepareStep ==
    ASSUME IInv, NEW w \in Writers, NEW locks \in [Profiles -> Locks \union {None}], Prepare(w, locks)
    PROVE  IInv'
<1>1. [if |-> policy.revision, locks |-> locks] \in Drafts
  BY DEF IInv, Typed, Policies, Drafts
<1>2. Typed'
  BY <1>1 DEF IInv, Typed, Prepare, walk, Live
<1> QED BY <1>2 DEF IInv, Noted, Pinned, IdentityIsOwn, Live, Prepare, walk

\* A policy gets a revision nobody has noted.
LEMMA PolicyStep ==
    ASSUME IInv, NEW w \in Writers, PolicyUpdate(w)
    PROVE  IInv'
<1>1. draft[w] \in Drafts
  BY DEF IInv, Typed, PolicyUpdate
<1>2. policy' \in Policies /\ policy'.revision = policy.revision + 1 /\ policy.revision \in Nat
  BY <1>1 DEF IInv, Typed, PolicyUpdate, Policies, Drafts
<1>3. Typed'
  BY <1>2 DEF IInv, Typed, PolicyUpdate, walk, Live
<1>4. Noted'
  <2> SUFFICES ASSUME NEW l \in Launches, phase[l] \in {"admitted", "recorded"}
               PROVE  /\ seen[l] \in Observations /\ request[l].pair
                      /\ seen[l].policy < policy'.revision
                      /\ seen[l].selection <= selected[request[l].profile].revision
                      /\ selected[request[l].profile].revision = seen[l].selection =>
                             selected[request[l].profile].generation = seen[l].generation
    BY <1>2 DEF Noted, PolicyUpdate, walk, Observations
  <2> QED BY <1>2 DEF IInv, Noted, Observations
<1> QED BY <1>3, <1>4 DEF IInv, Pinned, IdentityIsOwn, Live, PolicyUpdate, walk

\* A selection of a profile gets a revision nobody has noted for it.
LEMMA SelectStep ==
    ASSUME IInv, NEW p \in Profiles, NEW g \in Generations, Select(p, g)
    PROVE  IInv'
<1>1. /\ selected[p].revision \in Nat
      /\ selected' = [selected EXCEPT ![p] = [revision |-> selected[p].revision + 1, generation |-> g]]
  BY DEF IInv, Typed, Select, Selections
<1>2. selected' \in [Profiles -> Selections]
  BY <1>1 DEF IInv, Typed, Selections
<1>3. Typed'
  BY <1>2 DEF IInv, Typed, Select, walk, Live
<1>4. Noted'
  <2> SUFFICES ASSUME NEW l \in Launches, phase[l] \in {"admitted", "recorded"}
               PROVE  /\ seen[l].selection <= selected'[request[l].profile].revision
                      /\ selected'[request[l].profile].revision = seen[l].selection =>
                             selected'[request[l].profile].generation = seen[l].generation
    BY DEF IInv, Noted, Select, walk
  <2>1. /\ request[l].profile \in Profiles /\ seen[l].selection \in Nat
        /\ seen[l].selection <= selected[request[l].profile].revision
        /\ selected[request[l].profile].revision = seen[l].selection =>
               selected[request[l].profile].generation = seen[l].generation
    BY DEF IInv, Typed, Noted, Live, Phases, Requests, Observations
  <2>2. CASE request[l].profile = p
    BY <1>1, <2>1, <2>2 DEF IInv, Typed
  <2>3. CASE request[l].profile # p
    BY <1>1, <2>1, <2>3 DEF IInv, Typed
  <2> QED BY <2>2, <2>3
<1> QED BY <1>3, <1>4 DEF IInv, Pinned, IdentityIsOwn, Live, Select, walk

\* Pruning keeps the generation of every pin.
LEMMA PruneStep ==
    ASSUME IInv, NEW g \in Generations, NEW a, NEW s, Prune(g, a, s)
    PROVE  IInv'
<1>1. (Typed /\ Noted /\ IdentityIsOwn)'
  BY DEF IInv, Typed, Noted, IdentityIsOwn, Live, Prune, walk
<1>2. Pinned'
  BY DEF IInv, Pinned, Live, Prune, Retained, walk
<1> QED BY <1>1, <1>2 DEF IInv

--------------------------------------------------------------------------------
\* Whoever is started gets an environment without a session and its own identity.
LEMMA EnvironmentIsOwn ==
    ASSUME NEW e \in Environments, NEW r \in Requests
    PROVE  LET f == IdentityEnvironment(Delivered(e, r), r.identity) IN
           /\ f \in Environments /\ f.session = None
           /\ r.identity # None => f.agent = r.identity /\ ~f.bootstrap
<1> DEFINE d == Delivered(e, r)
<1>1. d \in Environments
  BY DEF Delivered, Environments, Requests
<1>2. r.identity \in Identities \union {None}
  BY DEF Requests
<1> DEFINE f == IdentityEnvironment(d, r.identity)
<1> HIDE DEF d
<1>3. f.session = None /\ (r.identity # None => f.agent = r.identity)
  BY ONLY <1>1, SMT DEF IdentityEnvironment, Scrubbed, Environments
<1>4. r.identity # None => ~f.bootstrap
  BY ONLY <1>1, Zenon DEF IdentityEnvironment, Scrubbed, Environments
<1>5. f \in Environments
  BY ONLY <1>1, <1>2, Zenon DEF IdentityEnvironment, Scrubbed, Environments
<1> QED BY <1>3, <1>4, <1>5 DEF d

LEMMA RouteStep ==
    ASSUME IInv, NEW l \in Launches, NEW r \in Asked, NEW m \in Launches \union {None}, Route(l, r, m)
    PROVE  IInv'
<1> DEFINE e == IF m = None THEN env[l] ELSE env[m]
           f == IdentityEnvironment(Delivered(e, r), r.identity)
<1>1. r \in Requests /\ e \in Environments
  BY AskedAreRequests DEF IInv, Typed
<1>2. /\ f \in Environments /\ f.session = None
      /\ r.identity # None => f.agent = r.identity /\ ~f.bootstrap
  BY <1>1, EnvironmentIsOwn
<1>3. /\ phase[l] = "idle" /\ phase' = [phase EXCEPT ![l] = "routed"]
      /\ request' = [request EXCEPT ![l] = r] /\ env' = [env EXCEPT ![l] = f]
      /\ UNCHANGED <<store, seen, pin>>
  BY DEF Route
<1> HIDE DEF f, e
<1>4. Typed'
  BY <1>1, <1>2, <1>3 DEF IInv, Typed, Live, Phases, store
<1>5. Noted'
  BY <1>3 DEF IInv, Typed, Noted, store
<1>6. Pinned'
  BY <1>3 DEF IInv, Typed, Pinned, Live, Phases, store
<1>7. IdentityIsOwn'
  BY <1>1, <1>2, <1>3 DEF IInv, Typed, IdentityIsOwn, Live
<1> QED BY <1>4, <1>5, <1>6, <1>7 DEF IInv

\* What is noted at admission is what there is, and a pin is of it.
LEMMA CheckStep ==
    ASSUME IInv, NEW l \in Launches, CheckCandidate(l)
    PROVE  IInv'
<1> DEFINE r == request[l]
           o == Observation(r.profile)
           q == [request |-> r, generation |-> selected[r.profile].generation]
<1>1. /\ phase[l] = "routed" /\ r \in Requests /\ r.profile \in Profiles /\ pin[l] = None
  BY DEF IInv, Typed, Pinned, Live, Phases, CheckCandidate, Requests
<1>2. /\ o \in Observations /\ o.policy = policy.revision
      /\ o.selection = selected[r.profile].revision
      /\ o.generation = selected[r.profile].generation
      /\ o.selection \in Nat /\ o.policy \in Nat
  BY <1>1 DEF IInv, Typed, Observation, Observations, Policies, Selections
<1>3. q \in Pins /\ q.generation = o.generation
  BY <1>1, <1>2 DEF Pins, Observations
<1>4. /\ r.pair /\ o.generation \in disk /\ policy.locks[r.profile] = LockOf[o.generation]
      /\ seen' = [seen EXCEPT ![l] = o] /\ phase' = [phase EXCEPT ![l] = "admitted"]
      /\ pin' = [pin EXCEPT ![l] = q] \/ pin' = pin
      /\ UNCHANGED <<policy, draft, selected, disk, request, env>>
  BY DEF CheckCandidate, Admits, Observation, store
<1> HIDE DEF o, q
<1>5. Typed'
  BY <1>1, <1>2, <1>3, <1>4 DEF IInv, Typed, Live, Phases
<1>6. Noted'
  <2> SUFFICES ASSUME NEW k \in Launches, phase'[k] \in {"admitted", "recorded"}
               PROVE  /\ seen'[k] \in Observations /\ request[k].pair
                      /\ seen'[k].policy <= policy.revision
                      /\ seen'[k].selection <= selected[request[k].profile].revision
                      /\ policy.revision = seen'[k].policy =>
                             policy.locks[request[k].profile] = LockOf[seen'[k].generation]
                      /\ selected[request[k].profile].revision = seen'[k].selection =>
                             selected[request[k].profile].generation = seen'[k].generation
    BY <1>4 DEF Noted
  <2>1. CASE k = l
    <3>1. seen'[k] = o
      BY <1>4, <2>1 DEF IInv, Typed
    <3> QED BY <3>1, <2>1, <1>2, <1>4
  <2>2. CASE k # l
    <3>1. seen'[k] = seen[k] /\ phase'[k] = phase[k]
      BY <1>4, <2>2 DEF IInv, Typed
    <3> QED BY <3>1 DEF IInv, Noted
  <2> QED BY <2>1, <2>2
<1>7. Pinned'
  <2> SUFFICES ASSUME NEW k \in Launches, pin'[k] # None
               PROVE  /\ Live(k)' /\ phase'[k] # "routed" /\ pin'[k] \in Pins /\ seen'[k] \in Observations
                      /\ pin'[k].generation = seen'[k].generation /\ seen'[k].generation \in disk
    BY <1>4 DEF Pinned
  <2>1. CASE k = l
    <3>1. seen'[k] = o /\ pin'[k] = q /\ phase'[k] = "admitted"
      BY <1>1, <1>4, <2>1 DEF IInv, Typed
    <3> QED BY <3>1, <1>2, <1>3, <1>4 DEF Live, Phases
  <2>2. CASE k # l
    <3>1. seen'[k] = seen[k] /\ phase'[k] = phase[k] /\ pin'[k] = pin[k]
      BY <1>4, <2>2 DEF IInv, Typed
    <3> QED BY <3>1 DEF IInv, Pinned, Live
  <2> QED BY <2>1, <2>2
<1>8. IdentityIsOwn'
  BY <1>1, <1>4 DEF IInv, Typed, IdentityIsOwn, Live, Phases
<1> QED BY <1>5, <1>6, <1>7, <1>8 DEF IInv

\* A replay gives back the generation that was admitted.
LEMMA ReplayStep ==
    ASSUME IInv, NEW l \in Launches, NEW r \in Asked, Replay(l, r)
    PROVE  IInv'
<1>1. /\ seen[l] \in Observations /\ pin[l].generation = seen[l].generation
  BY DEF IInv, Pinned, Replay
<1>2. seen' = seen
  BY <1>1 DEF IInv, Typed, Replay, Observations
<1>3. UNCHANGED <<policy, draft, selected, disk, phase, request, env, seen, pin>>
  BY <1>2 DEF Replay, store
<1> QED BY <1>3 DEF IInv, Typed, Noted, Pinned, IdentityIsOwn, Live

\* The steps of a launch that leave everything but its phase.
LEMMA PhaseStep ==
    ASSUME IInv, NEW l \in Launches,
           \/ SpawnRecheck(l) \/ Plain(l)
           \/ \E s \in SUBSET {"admitted", "other"}, m \in BOOLEAN : Record(l, s, m)
    PROVE  IInv'
<1>1. /\ UNCHANGED <<policy, draft, selected, disk, request, env, seen, pin>>
      /\ \/ phase[l] = "recorded" /\ phase' = [phase EXCEPT ![l] = "cleared"]
         \/ phase[l] = "routed" /\ phase' = [phase EXCEPT ![l] = "cleared"]
         \/ phase[l] = "admitted" /\ phase' = [phase EXCEPT ![l] = "recorded"]
  BY DEF SpawnRecheck, Plain, Record, store
<1>2. Typed'
  BY <1>1 DEF IInv, Typed, Live, Phases
<1>3. Noted'
  BY <1>1 DEF IInv, Typed, Noted
<1>4. Pinned'
  BY <1>1 DEF IInv, Typed, Pinned, Live, Phases
<1>5. IdentityIsOwn'
  BY <1>1 DEF IInv, Typed, IdentityIsOwn, Live, Phases
<1> QED BY <1>2, <1>3, <1>4, <1>5 DEF IInv

LEMMA SpawnStep ==
    ASSUME IInv, NEW l \in Launches, Spawn(l)
    PROVE  IInv'
<1>1. /\ phase[l] = "cleared" /\ phase' = [phase EXCEPT ![l] = "running"]
      /\ env[l] \in Environments /\ env' = [env EXCEPT ![l] = [env[l] EXCEPT !.session = l]]
      /\ UNCHANGED <<policy, draft, selected, disk, request, seen, pin>>
  BY DEF IInv, Typed, Spawn, store
<1> DEFINE f == [env[l] EXCEPT !.session = l]
<1>2. f \in Environments /\ f.agent = env[l].agent /\ f.bootstrap = env[l].bootstrap
  BY <1>1 DEF Environments
<1> HIDE DEF f
<1>3. Typed'
  BY <1>1, <1>2 DEF IInv, Typed, Live, Phases, f
<1>4. Noted' /\ Pinned'
  BY <1>1 DEF IInv, Typed, Noted, Pinned, Live, Phases
<1>5. IdentityIsOwn'
  BY <1>1, <1>2 DEF IInv, Typed, IdentityIsOwn, Live, Phases, f
<1> QED BY <1>3, <1>4, <1>5 DEF IInv

\* A launch that is over has nothing.
LEMMA EndStep ==
    ASSUME IInv, NEW l \in Launches, End(l)
    PROVE  IInv'
<1>1. Bare \in Environments
  BY DEF Bare, Environments
<1>2. /\ phase' = [phase EXCEPT ![l] = "ended"] /\ request' = [request EXCEPT ![l] = None]
      /\ env' = [env EXCEPT ![l] = Bare] /\ seen' = [seen EXCEPT ![l] = None]
      /\ pin' = [pin EXCEPT ![l] = None] /\ UNCHANGED <<policy, draft, selected, disk>>
  BY DEF End, store
<1>3. Typed'
  BY <1>1, <1>2 DEF IInv, Typed, Live, Phases
<1>4. Noted'
  BY <1>2 DEF IInv, Typed, Noted
<1>5. Pinned'
  BY <1>2 DEF IInv, Typed, Pinned, Live
<1>6. IdentityIsOwn'
  BY <1>2 DEF IInv, Typed, IdentityIsOwn, Live
<1> QED BY <1>3, <1>4, <1>5, <1>6 DEF IInv

LEMMA NextIInv == IInv /\ [Next]_vars => IInv'
<1> SUFFICES ASSUME IInv, [Next]_vars PROVE IInv'
  OBVIOUS
<1>1. CASE \E w \in Writers : \/ \E locks \in [Profiles -> Locks \union {None}] : Prepare(w, locks)
                              \/ PolicyUpdate(w)
  BY <1>1, PrepareStep, PolicyStep
<1>2. CASE \E p \in Profiles, g \in Generations : Select(p, g)
  BY <1>2, SelectStep
<1>3. CASE \E g \in Generations, a, s \in BOOLEAN : Prune(g, a, s)
  BY <1>3, PruneStep
<1>4. CASE \E l \in Launches :
              \/ \E r \in Asked, m \in Launches \union {None} : Route(l, r, m)
              \/ CheckCandidate(l) \/ Spawn(l) \/ End(l)
              \/ \E r \in Asked : Replay(l, r)
  BY <1>4, RouteStep, CheckStep, SpawnStep, EndStep, ReplayStep
<1>5. CASE \E l \in Launches :
              \/ SpawnRecheck(l) \/ Plain(l)
              \/ \E s \in SUBSET {"admitted", "other"}, m \in BOOLEAN : Record(l, s, m)
  BY <1>5, PhaseStep
<1>6. CASE UNCHANGED vars
  BY <1>6 DEF IInv, Typed, Noted, Pinned, IdentityIsOwn, Live, vars
<1> QED BY <1>1, <1>2, <1>3, <1>4, <1>5, <1>6 DEF Next

\* The invariant holds in every reachable state.
THEOREM Invariance == Spec => []IInv
<1> QED BY InitIInv, NextIInv, PTL DEF Spec

--------------------------------------------------------------------------------
\* The module's types hold.
LEMMA Types == IInv => TypeOK
BY DEF IInv, Typed, Noted, TypeOK, Observations

\* The generation of a pinned launch is on disk from its admission to its end.
LEMMA PinnedStay == IInv => PinnedRootsStay
BY DEF IInv, Pinned, PinnedRootsStay

\* A launch keeps its pinned generation, stays out of other sessions and has the
\* identity it asked for, from admission to end, for any number of launches.
THEOREM LaunchesKeep == Spec => []LaunchesKeepTheirOwn
<1>1. IInv => LaunchesKeepTheirOwn
  BY Types, PinnedStay DEF IInv, LaunchesKeepTheirOwn
<1> QED BY Invariance, <1>1, PTL

\* A launch that was recorded is cleared by the last recheck only.
LEMMA ClearedByRecheck ==
    ASSUME IInv, Next, NEW l \in Launches, phase[l] = "recorded", phase'[l] = "cleared"
    PROVE  SpawnRecheck(l)
<1>1. phase \in [Launches -> Phases]  BY DEF IInv, Typed
<1>2. ~UNCHANGED phase  OBVIOUS
<1>3. \A w \in Writers : ~PolicyUpdate(w) /\ \A x \in [Profiles -> Locks \union {None}] : ~Prepare(w, x)
  BY <1>2 DEF PolicyUpdate, Prepare, walk
<1>4. \A p \in Profiles, g \in Generations : ~Select(p, g)  BY <1>2 DEF Select, walk
<1>5. \A g \in Generations, a, s \in BOOLEAN : ~Prune(g, a, s)  BY <1>2 DEF Prune, walk
<1>6. ASSUME NEW k \in Launches, NEW t, phase' = [phase EXCEPT ![k] = t]
      PROVE  k = l /\ t = "cleared"
  BY ONLY <1>1, <1>6, phase[l] = "recorded", phase'[l] = "cleared"
<1>7. ASSUME NEW k \in Launches
      PROVE  /\ ~CheckCandidate(k) /\ ~Plain(k) /\ ~Spawn(k) /\ ~End(k)
             /\ \A r \in Asked : ~Replay(k, r)
             /\ \A r \in Asked, m \in Launches \union {None} : ~Route(k, r, m)
             /\ \A x \in SUBSET {"admitted", "other"}, m \in BOOLEAN : ~Record(k, x, m)
  <2>1. ~CheckCandidate(k)  BY <1>6 DEF CheckCandidate
  <2>2. ~Plain(k)  BY <1>6 DEF Plain
  <2>3. ~Spawn(k) /\ ~End(k)  BY <1>6 DEF Spawn, End
  <2>4. \A r \in Asked : ~Replay(k, r)  BY <1>2, <1>6 DEF Replay
  <2>5. \A r \in Asked, m \in Launches \union {None} : ~Route(k, r, m)  BY <1>6 DEF Route
  <2>6. \A x \in SUBSET {"admitted", "other"}, m \in BOOLEAN : ~Record(k, x, m)
    BY <1>6 DEF Record
  <2> QED  BY <2>1, <2>2, <2>3, <2>4, <2>5, <2>6
<1>8. \E k \in Launches : SpawnRecheck(k)  BY <1>3, <1>4, <1>5, <1>7 DEF Next
<1> QED  BY <1>6, <1>8 DEF SpawnRecheck

\* A launch the last recheck clears is of a generation that the manager still
\* selects and the policy still admits, though only revisions are compared.
THEOREM ClearedStandsAsAdmitted == Spec => ClearedAsAdmitted
<1>1. IInv /\ [Next]_vars =>
        [\A l \in Launches :
            phase[l] = "recorded" /\ phase'[l] = "cleared" =>
                LET pf == request[l].profile IN
                /\ seen[l].generation = selected[pf].generation
                /\ policy.locks[pf] = LockOf[seen[l].generation]]_vars
  <2> SUFFICES ASSUME IInv, Next, NEW l \in Launches, phase[l] = "recorded", phase'[l] = "cleared"
               PROVE  /\ seen[l].generation = selected[request[l].profile].generation
                      /\ policy.locks[request[l].profile] = LockOf[seen[l].generation]
    OBVIOUS
  <2>1. SpawnRecheck(l)
    BY ClearedByRecheck
  <2> QED BY <2>1 DEF IInv, Noted, SpawnRecheck, Unmoved
<1> QED BY Invariance, <1>1, PTL DEF Spec, ClearedAsAdmitted
================================================================================
