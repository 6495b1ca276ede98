--------------------------- MODULE CommandReferences ---------------------------
(* The persistent references that hooks hold on generations of a profile's    *)
(* command root: HookModel of tools/profile_command_roots.py.                 *)
(*                                                                            *)
(* A settings resource selects one reference; the reference names the         *)
(* generation of the root that was current when it was retained.  Installing  *)
(* a generation moves nothing a hook uses.  An installer reads a reference    *)
(* and its revision, then activates or releases it with that revision, so     *)
(* that two installers who race are told apart; a displaced reference stays   *)
(* restorable until it is released; gc deletes every root that is neither     *)
(* current nor named by a reference.                                          *)
(*                                                                            *)
(* One operation is one critical section of the manager lock.  A refusal      *)
(* leaves the store as it was and is therefore no step.                       *)
EXTENDS Naturals, FiniteSets

CONSTANTS
    Resources,      \* settings resources
    Generations,    \* generations of the command root of one profile
    Requests,       \* request identifiers
    Installers,     \* callers that read a revision and act on it later
    MaxReferences,  \* the cap on live references (256)
    MaxRequests,    \* the cap on remembered requests (4096)
    MaxSerial,      \* bound: references ever created
    MaxRevision,    \* bound: revision of one reference
    None            \* no key, no answer, no reading

ASSUME Bounds == /\ MaxSerial \in Nat
                 /\ MaxRevision \in Nat
                 /\ MaxReferences \in Nat
                 /\ MaxRequests \in Nat
ASSUME SomeGeneration == Generations # {}

Ids == 1 .. MaxSerial
Keys == [resource : Resources, generation : Generations]
Answers == [key : Keys, reference : Ids]
Roles == {"absent", "prepared", "active", "rollback", "released"}
Readings == [reference : Ids, revision : Nat, role : Roles]
ASSUME NoneIsNothing == None \notin Keys \union Answers \union Readings

VARIABLES
    roots,      \* generation -> "absent", "intact" or "tampered"
    current,    \* the installed generation
    refs,       \* live reference -> its key
    requests,   \* request -> the key it asked for and the reference it got
    terminal,   \* released references
    active,     \* resource -> the reference it selects; 0 for none
    rollback,   \* displaced references kept for restoring
    serial,     \* the last reference number given out
    revisions,  \* reference -> revision; 0 before it exists
    releasedAt, \* released reference -> the revision its release named; 0 before
    reading     \* installer -> the last record it read, with its role then

store == <<roots, current, refs, requests, terminal, active, rollback,
           serial, revisions, releasedAt>>
vars == <<store, reading>>

Live == {i \in Ids : refs[i] # None}
Selected == {active[r] : r \in Resources} \ {0}

\* What a reference is for; the revision is there to tell these apart.
Role(i) == IF i \in terminal THEN "released"
           ELSE IF i \in Selected THEN "active"
           ELSE IF i \in rollback THEN "rollback"
           ELSE IF i \in Live THEN "prepared" ELSE "absent"

--------------------------------------------------------------------------------
Init ==
    /\ current \in Generations
    /\ roots = [g \in Generations |-> IF g = current THEN "intact" ELSE "absent"]
    /\ refs = [i \in Ids |-> None]
    /\ requests = [q \in Requests |-> None]
    /\ terminal = {} /\ rollback = {}
    /\ active = [r \in Resources |-> 0]
    /\ serial = 0
    /\ revisions = [i \in Ids |-> 0]
    /\ releasedAt = [i \in Ids |-> 0]
    /\ reading = [c \in Installers |-> None]

\* Only a root that verifies becomes current.
Install(g) ==
    /\ current' = g
    /\ roots' = [roots EXCEPT ![g] = "intact"]
    /\ UNCHANGED <<refs, requests, terminal, active, rollback, serial,
                   revisions, releasedAt, reading>>

\* Something else on the machine alters a materialized root.
Tamper(g) ==
    /\ roots[g] = "intact"
    /\ roots' = [roots EXCEPT ![g] = "tampered"]
    /\ UNCHANGED <<current, refs, requests, terminal, active, rollback, serial,
                   revisions, releasedAt, reading>>

\* Mutant: the next reference is numbered after those that are live.
FreshLive == Cardinality(Live) + 1

Fresh == serial + 1

Remembered == {q \in Requests : requests[q] # None}
Holders(key) == {i \in Ids : refs[i] = key}

\* A request already answered gets the answer it had, whatever became of the
\* reference since: no step.  A new one shares the live reference on the same
\* key, or creates one.
RetainExisting(resource, q) ==
    LET key == [resource |-> resource, generation |-> current] IN
    /\ requests[q] = None
    /\ Cardinality(Remembered) < MaxRequests
    /\ \E i \in Holders(key) :
          requests' = [requests EXCEPT ![q] = [key |-> key, reference |-> i]]
    /\ UNCHANGED <<roots, current, refs, terminal, active, rollback, serial,
                   revisions, releasedAt, reading>>

RetainNew(resource, q) ==
    LET key == [resource |-> resource, generation |-> current]
        i   == Fresh IN
    /\ requests[q] = None
    /\ Cardinality(Remembered) < MaxRequests
    /\ Holders(key) = {}
    /\ Cardinality(Live) < MaxReferences
    /\ serial < MaxSerial
    /\ serial' = serial + 1
    /\ refs' = [refs EXCEPT ![i] = key]
    /\ revisions' = [revisions EXCEPT ![i] = 1]
    /\ requests' = [requests EXCEPT ![q] = [key |-> key, reference |-> i]]
    /\ UNCHANGED <<roots, current, terminal, active, rollback, releasedAt, reading>>

\* An installer lists the references and keeps one record of the answer.
List(c, i) ==
    /\ i \in Live \union terminal
    /\ reading' = [reading EXCEPT ![c] =
          [reference |-> i, revision |-> revisions[i], role |-> Role(i)]]
    /\ UNCHANGED store

\* The installer learns the outcome and drops its reading, or the reply is
\* lost and it still believes what it read.
Reply(c) == \/ reading' = [reading EXCEPT ![c] = None]
            \/ UNCHANGED reading

\* Mutant: the revision is not compared.
NamesAnything(c, i) == /\ reading[c] # None
                       /\ reading[c].reference = i

Names(c, i) == /\ reading[c] # None
               /\ reading[c].reference = i
               /\ reading[c].revision = revisions[i]

\* The references whose revision an activation of i advances.
Changed(i, previous) == {i} \union ({previous} \ {0})

\* Mutant: an empty selection is displaced like any other.
DisplacedNothing(i, previous) == (rollback \union {previous}) \ {i}

\* The references kept for restoring once i displaces previous.
Displaced(i, previous) == (rollback \union ({previous} \ {0})) \ {i}


Activate(c, i) ==
    /\ i \in Live
    /\ Names(c, i)
    /\ LET resource == refs[i].resource
           previous == active[resource] IN
       /\ \A j \in Changed(i, previous) : revisions[j] < MaxRevision
       /\ rollback' = Displaced(i, previous)
       /\ active' = [active EXCEPT ![resource] = i]
       /\ revisions' = [j \in Ids |-> IF j \in Changed(i, previous)
                                      THEN revisions[j] + 1 ELSE revisions[j]]
    /\ Reply(c)
    /\ UNCHANGED <<roots, current, refs, requests, terminal, serial, releasedAt>>

RestoreRollback(c, i) == i \in rollback /\ Activate(c, i)

\* A resource drops its selection.  HookModel has no such operation; its tests
\* take the entry out of the active map before they release its reference.
Detach(r) ==
    /\ active[r] # 0
    /\ active' = [active EXCEPT ![r] = 0]
    /\ UNCHANGED <<roots, current, refs, requests, terminal, rollback, serial,
                   revisions, releasedAt, reading>>

\* Mutant: a selected reference can be released.
ReleasableAnyway(i) == i \in Live

Releasable(i) == i \in Live /\ i \notin Selected

Release(c, i) ==
    /\ Releasable(i)
    /\ Names(c, i)
    /\ revisions[i] < MaxRevision
    /\ rollback' = rollback \ {i}
    /\ releasedAt' = [releasedAt EXCEPT ![i] = revisions[i]]
    /\ terminal' = terminal \union {i}
    /\ refs' = [refs EXCEPT ![i] = None]
    /\ revisions' = [revisions EXCEPT ![i] = @ + 1]
    /\ Reply(c)
    /\ UNCHANGED <<roots, current, requests, active, serial>>

\* The release is repeated with the revision it named the first time: it is
\* accepted and changes nothing but what the installer knows.
RepeatRelease(c, i) ==
    /\ i \in terminal \ Selected
    /\ reading[c] # None
    /\ reading[c].reference = i
    /\ reading[c].revision = releasedAt[i]
    /\ reading' = [reading EXCEPT ![c] = None]
    /\ UNCHANGED store

\* Mutant: gc keeps what is current or selected, not what could be restored.
KeptSelected == {current} \union {refs[i].generation : i \in Live \ rollback}

\* The generations gc keeps.
Kept == {current} \union {refs[i].generation : i \in Live}

Gc ==
    /\ roots' = [g \in Generations |-> IF g \in Kept THEN roots[g] ELSE "absent"]
    /\ UNCHANGED <<current, refs, requests, terminal, active, rollback, serial,
                   revisions, releasedAt, reading>>

Next ==
    \/ \E g \in Generations : Install(g) \/ Tamper(g)
    \/ \E r \in Resources, q \in Requests : RetainExisting(r, q) \/ RetainNew(r, q)
    \/ \E c \in Installers, i \in Ids :
          \/ List(c, i)
          \/ Activate(c, i)
          \/ RestoreRollback(c, i)
          \/ Release(c, i)
          \/ RepeatRelease(c, i)
    \/ \E r \in Resources : Detach(r)
    \/ Gc

Spec == Init /\ [][Next]_vars

\* The pins, kinds, owners, modes and digests of a root are what was admitted.
Verifies(g) == roots[g] = "intact"

\* What a hook that fires gets: the generation it runs, or the refusal.
Invoke(r) ==
    IF active[r] = 0 \/ active[r] \notin Live THEN "reference-missing"
    ELSE LET g == refs[active[r]].generation IN
         CASE roots[g] = "absent" -> "root-missing"
           [] roots[g] # "absent" /\ ~Verifies(g) -> "hook-root"
           [] Verifies(g) -> "runs"

--------------------------------------------------------------------------------
TypeOK ==
    /\ roots \in [Generations -> {"absent", "intact", "tampered"}]
    /\ current \in Generations
    /\ refs \in [Ids -> Keys \union {None}]
    /\ requests \in [Requests -> Answers \union {None}]
    /\ terminal \subseteq Ids
    /\ active \in [Resources -> 0 .. MaxSerial]
    /\ rollback \subseteq Ids
    /\ serial \in 0 .. MaxSerial
    /\ revisions \in [Ids -> Nat]
    /\ releasedAt \in [Ids -> Nat]
    /\ reading \in [Installers -> Readings \union {None}]

\* A selection made by a hook's settings keeps working through every upgrade,
\* release and collection: the hook that fires is refused only because someone
\* altered the files, never because curator dropped the reference or the root.
SelectionServes ==
    \A r \in Resources :
        active[r] # 0 => /\ Invoke(r) \in {"runs", "hook-root"}
                         /\ refs[active[r]].resource = r

\* Whatever an installation displaced can be put back: its reference is live,
\* selected by nobody, and its root is still on disk.
RollbackServes ==
    \A i \in rollback : /\ i \in Live \ Selected
                        /\ roots[refs[i].generation] # "absent"

\* A hook is served on both sides of an installation: by what it selects and by
\* what it would be rolled back to.
HooksAreServed == SelectionServes /\ RollbackServes

\* Two live references never hold the same resource on the same generation, so
\* releasing the one that list shows does release the generation.
OneReferencePerKey ==
    \A i, j \in Live : refs[i] = refs[j] => i = j

\* An equal revision means that nothing happened to the reference since it was
\* read, except that its resource may have dropped it (which bumps nothing).
ReadingIsCurrent ==
    \A c \in Installers :
        reading[c] # None =>
            LET i == reading[c].reference IN
            reading[c].revision = revisions[i] =>
                \/ Role(i) = reading[c].role
                \/ reading[c].role = "active" /\ Role(i) = "prepared"

\* An installer changes the selection or releases a reference only if that
\* reference is still what it was when the installer read it: of two who race,
\* the loser is refused.
ActsOnItsReading ==
    [][\A c \in Installers :
          (reading[c] # None /\ reading'[c] = None /\ revisions' # revisions) =>
              \/ Role(reading[c].reference) = reading[c].role
              \/ /\ reading[c].role = "active"
                 /\ Role(reading[c].reference) = "prepared"]_vars

\* A released reference stays released: no retained request, activation or
\* restored rollback ever makes it serve again.
ReleaseIsFinal ==
    [][\A i \in terminal : i \in terminal' /\ i \notin Live' /\ i \notin Selected']_vars
================================================================================
