----------------------------- MODULE WorkspaceTrust -----------------------------
(* The workspace trust ledger of tools/workspace_trust.py: private records of *)
(* the consent an operator gave to one environment at one exact path, the     *)
(* repository identity seen then, and the bindings some records come from.    *)
(*                                                                            *)
(* What the oracle is told of the machine is an input.  An operand that is    *)
(* linked, missing or of the wrong kind, a repository that cannot be verified *)
(* and a read or commit that fails are refused in every state, and a refusal  *)
(* leaves the ledger as it was: Other.  An action is a call that was admitted.*)
EXTENDS Sequences, Naturals

CONSTANTS
    Environments,   \* supported adapters
    Paths,          \* exact paths; any other operand is refused
    Home,           \* the operator's home directory, one of them
    Above,          \* path -> the path itself and the directories above it
    Roots,          \* paths that may be the root of a repository
    Lineages,       \* a repository's primary remote and root commit
    Transactions,   \* identifiers of grants and bindings, one namespace
    None            \* no repository, no answer

Identities == [root : Roots, lineage : Lineages]
Repositories == Identities \union {None}
Events == {"explicit-grant", "implicit-launch", "implicit-bind"}

\* The states a record has been in, the last one its present state.
Histories == {<<"active">>, <<"active", "revoked">>, <<"active", "lapsed">>,
              <<"active", "lapsed", "revoked">>}

Records == [transaction : Transactions, environment : Environments, path : Paths,
            event : Events, repository : Repositories, states : Histories]
Answers == [environment : Environments, path : Paths, repository : Repositories]

ASSUME NoneIsNothing == None \notin Identities \union Answers
ASSUME Directories == /\ Above \in [Paths -> SUBSET Paths]
                      /\ \A p \in Paths : p \in Above[p]
                      /\ Roots \subseteq Paths

VARIABLES
    records,        \* the ledger
    bindings,       \* installed bindings
    transactions,   \* committed transactions
    pendingCleanup, \* dependent state could not be read when it was revoked
    answer          \* what the last operation found authorized, or None

vars == <<records, bindings, transactions, pendingCleanup, answer>>

Status(r) == r.states[Len(r.states)]
Active == {r \in records : Status(r) = "active"}
Within(child, root) == root \in Above[child]
\* Mutant: the environment is not compared.
ScopeMatchesPath(r, e, p) == r.path = p

ScopeMatches(r, e, p) == r.environment = e /\ r.path = p

--------------------------------------------------------------------------------
Init ==
    /\ records = {} /\ bindings = {} /\ transactions = {}
    /\ pendingCleanup = FALSE
    /\ answer = None

\* Mutant: the home directory may be granted as a whole.
AdmittedBlanket(path) == path \in Paths

\* The home directory is never granted as a whole.
Admitted(path) == path # Home

\* Mutant: the new state takes the place of the old one.
TransitionOverwrites(r, status) ==
    IF Status(r) = "active" \/ (Status(r) = "lapsed" /\ status = "revoked")
    THEN [r EXCEPT !.states = <<status>>]
    ELSE r

\* Mutant: a record is revoked as often as it is asked for.
TransitionAgain(r, status) ==
    IF Status(r) = "active" \/ status = "revoked"
    THEN [r EXCEPT !.states = Append(@, status)]
    ELSE r

\* A record moves from active to lapsed or revoked, and from lapsed to revoked.
Transition(r, status) ==
    IF Status(r) = "active" \/ (Status(r) = "lapsed" /\ status = "revoked")
    THEN [r EXCEPT !.states = Append(@, status)]
    ELSE r

\* A committed transaction is never carried out again.
Fresh(t) == t \notin transactions

Commit(t, envs, event, path, repository) ==
    /\ Fresh(t)
    /\ envs # {}
    /\ transactions' = transactions \union {t}
    /\ records' = records \union
          {[transaction |-> t, environment |-> e, path |-> path, event |-> event,
            repository |-> repository, states |-> <<"active">>] : e \in envs}
    /\ answer' = None
    /\ UNCHANGED pendingCleanup

\* add, and a launch whose selection succeeded: consent for the exact directory,
\* with the repository around it if there is one.
Grant(event, t, envs, path, repository) ==
    /\ Admitted(path)
    /\ repository # None => Within(path, repository.root)
    /\ Commit(t, envs, event, path, repository)
    /\ UNCHANGED bindings

Add(t, envs, path, repository) == Grant("explicit-grant", t, envs, path, repository)

Launch(t, envs, path, repository) == Grant("implicit-launch", t, envs, path, repository)

\* A binding from a file or directory of a repository grants the repository's
\* root, which has to be admissible itself.
Bind(t, envs, source, repository) ==
    /\ Admitted(source)
    /\ repository # None
    /\ Admitted(repository.root)
    /\ Within(source, repository.root)
    /\ Commit(t, envs, "implicit-bind", repository.root, repository)
    /\ bindings' = bindings \union {t}

\* Mutant: removing a binding leaves its references.
BoundNone(r, t) == FALSE

Bound(r, t) == r.event = "implicit-bind" /\ r.transaction = t

BindingRemove(t) ==
    /\ bindings' = bindings \ {t}
    /\ records' = {IF Bound(r, t) THEN Transition(r, "revoked") ELSE r : r \in records}
    /\ answer' = None
    /\ UNCHANGED <<transactions, pendingCleanup>>

\* The directory may be gone; bindings stay installed.
Remove(e, path, cleanup) ==
    /\ Admitted(path)
    /\ records' = {IF ScopeMatches(r, e, path) THEN Transition(r, "revoked") ELSE r :
                      r \in records}
    /\ pendingCleanup' = (pendingCleanup \/ cleanup = "unreadable")
    /\ answer' = None
    /\ UNCHANGED <<bindings, transactions>>

\* Mutant: only the lineage is compared.
SameLineage(recorded, observed) ==
    recorded = observed \/ (recorded # None /\ observed # None
                            /\ recorded.lineage = observed.lineage)

SameIdentity(recorded, observed) == recorded = observed

\* Every active record of this environment and path whose repository is not the
\* one that is there now lapses; a record that remains authorizes.
Recheck(e, path, repository) ==
    /\ Admitted(path)
    /\ LET scope == {r \in Active : ScopeMatches(r, e, path)}
           kept  == {r \in scope : SameIdentity(r.repository, repository)} IN
       /\ records' = {IF r \in scope \ kept THEN Transition(r, "lapsed") ELSE r :
                         r \in records}
       /\ answer' = IF kept = {} THEN None
                    ELSE [environment |-> e, path |-> path, repository |-> repository]
    /\ UNCHANGED <<bindings, transactions>>

\* resolve, update, and a repair whose cleanup does not succeed.
Resolve(e, path, repository) ==
    /\ Recheck(e, path, repository)
    /\ UNCHANGED pendingCleanup

\* A repair that also completes the cleanup.
Repair(e, path, repository) ==
    /\ Recheck(e, path, repository)
    /\ pendingCleanup' = FALSE

\* A listing, the repetition of a committed transaction, or a refusal.
Other ==
    /\ answer' = None
    /\ UNCHANGED <<records, bindings, transactions, pendingCleanup>>

Next ==
    \/ \E t \in Transactions, envs \in SUBSET Environments, p \in Paths,
          repository \in Repositories :
          \/ Add(t, envs, p, repository)
          \/ Launch(t, envs, p, repository)
          \/ Bind(t, envs, p, repository)
    \/ \E t \in Transactions : BindingRemove(t)
    \/ \E e \in Environments, p \in Paths :
          \/ \E cleanup \in {"ok", "unreadable"} : Remove(e, p, cleanup)
          \/ \E repository \in Repositories :
                \/ Resolve(e, p, repository)
                \/ Repair(e, p, repository)
    \/ Other

Spec == Init /\ [][Next]_vars

--------------------------------------------------------------------------------
\* The type of the ledger.
TypeOK ==
    /\ records \subseteq Records
    /\ bindings \subseteq Transactions
    /\ transactions \subseteq Transactions
    /\ pendingCleanup \in BOOLEAN
    /\ answer \in Answers \union {None}

\* After every step each record is one that a reader of the ledger accepts
\* (record_error, asserted by run_vector): an exact path inside its repository, a
\* binding's grant at the root; and none grants the home directory.
RecordsValid ==
    \A r \in records :
        /\ r.path # Home
        /\ r.repository # None => Within(r.path, r.repository.root)
        /\ r.event = "implicit-bind" => /\ r.repository # None
                                        /\ r.path = r.repository.root

\* A consent event is recorded once for each environment, however often its
\* transaction is retried, also after the consent was withdrawn.
ConsentRecordedOnce ==
    \A r, s \in records :
        (r.transaction = s.transaction /\ r.environment = s.environment) => r = s

\* A reference that still gives authority belongs to a binding that is installed
\* and committed, through removals, retries and lapses.
ReferencesBacked ==
    \A r \in Active : r.event = "implicit-bind" => r.transaction \in bindings

\* What is authorized rests on the repository that is there now: no record of an
\* identity that differs stays active for that environment and path.
AuthorizedAsObserved ==
    answer # None =>
        LET scope == {r \in Active : ScopeMatches(r, answer.environment, answer.path)} IN
        /\ scope # {}
        /\ \A r \in scope : r.repository = answer.repository

\* No step loses a record or rewrites its provenance; states are only added.
Provenance(r) == <<r.transaction, r.environment, r.path, r.event, r.repository>>

ProvenanceKept ==
    [][\A r \in records : \E s \in records' :
          /\ Provenance(s) = Provenance(r)
          /\ Len(r.states) <= Len(s.states)
          /\ SubSeq(s.states, 1, Len(r.states)) = r.states]_vars

\* The ledger keeps the promise of WorkspaceConsent: authority needs a consent
\* event that has not counted before and reaches that event's scope only, and
\* a retry, a repair or the passing of time never brings it back.
Authority == {<<r.environment, r.path, r.transaction>> : r \in Active}
Found == IF answer = None THEN None ELSE <<answer.environment, answer.path>>

Consent == INSTANCE WorkspaceConsent WITH
    granted <- Authority, spent <- transactions, answer <- Found

ConsentSpec == Consent!Spec

\* A launch rechecks the identity as every authorization use does: the records
\* that remain active beside its own name the same repository
\* (protocol/environments.md 7.10.2).
LaunchRechecks ==
    [][\A n \in records' \ records :
          (n.event = "implicit-launch" /\ Status(n) = "active") =>
              \A r \in Active' : ScopeMatches(r, n.environment, n.path)
                                    => r.repository = n.repository]_vars
================================================================================
