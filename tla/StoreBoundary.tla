----------------------------- MODULE StoreBoundary -----------------------------
(* The protected-boundary rules of tools/validate.py: what a resolve, a dry    *)
(* run, a repair and the status answer for a managed store of which one object *)
(* fails some checks, for a home in some state, and for a path source          *)
(* directory; what seeding a Codex home copies and what the status says of the *)
(* seed; and which environment names a launch passes on.                       *)
EXTENDS Naturals, FiniteSets, Sequences

CONSTANT None

BoundaryChecks == <<"ownership", "permissions", "containment", "regular_types", "link_safety">>
Checks == BoundaryChecks \o <<"pin_hash">>
ChecksOf(sequence) == {sequence[i] : i \in DOMAIN sequence}
Enclosing == {"environments-root", "store-root"}
Objects == Enclosing \union {"lock-file", "marker-file", "store-entry"}
HomeStates == {"current", "stale-old-marker", "unprovisioned", "unreadable-marker"}
EntryKinds == {"git", "path", "local"}

\* The first failing check in the order of the list.
First(failing) ==
    LET at(c) == CHOOSE i \in DOMAIN Checks : Checks[i] = c
    IN  CHOOSE c \in failing : \A d \in failing : at(c) <= at(d)

\* Only a store entry carries a pin hash, and only a swap of its bytes breaks it.
FailureShape(object, failing) ==
    /\ object \in Objects /\ failing \subseteq ChecksOf(Checks)
    /\ "pin_hash" \in failing => object = "store-entry"

Trusted(failing) == failing = {}

Answer(diagnostic, fragment, check) ==
    [diagnostic |-> diagnostic, fragment |-> fragment, current |-> fragment, check |-> check]

\* Mutant: a current marker answers for the store it names.
MarkerFirst(failing, home) ==
    IF home = "current" THEN Answer(None, TRUE, None) ELSE Answer("environment_home_stale", FALSE, None)

\* The enclosing boundary, the entries and their pins come before home currency.
Resolve(failing, home) ==
    CASE ~Trusted(failing) ->
            Answer("environment_store_untrusted", FALSE,
                   IF Cardinality(failing) = 1 THEN First(failing) ELSE None)
      [] Trusted(failing) /\ home = "stale-old-marker" ->
            Answer("environment_home_stale", FALSE, "home_currency")
      [] Trusted(failing) /\ home = "unprovisioned" -> Answer("environment_home_stale", FALSE, None)
      [] Trusted(failing) /\ home = "unreadable-marker" ->
            Answer("environment_marker_unreadable", FALSE, None)
      [] Trusted(failing) /\ home = "current" -> Answer(None, TRUE, None)

\* A dry run mutates nothing.
DryRun(object, failing) ==
    IF Trusted(failing) \/ object \in Enclosing THEN None ELSE "would-rebuild-untrusted-store"

\* Mutant: an entry is rebuilt whatever it came from.
RebuildAny(object, kind, failing) ==
    [rebuilt |-> ~Trusted(failing), diagnostic |-> None, fragment |-> TRUE]

\* What a repair does: only a git entry is rebuilt, from the revalidated
\* snapshot, and nothing untrusted is applied again.
Repair(object, kind, failing) ==
    CASE ~Trusted(failing) /\ object \in Enclosing ->
            [rebuilt |-> FALSE, diagnostic |-> "environment_store_untrusted", fragment |-> FALSE]
      [] ~Trusted(failing) /\ object \notin Enclosing ->
            [rebuilt |-> kind = "git", fragment |-> kind = "git",
             diagnostic |-> IF kind = "git" THEN None ELSE "environment_repair_failed"]
      [] Trusted(failing) -> [rebuilt |-> FALSE, diagnostic |-> None, fragment |-> TRUE]

\* A repair of a trusted store is asked for by a stale or a missing home.
RepairShape(failing, home) == Trusted(failing) => home \in {"stale-old-marker", "unprovisioned"}

StoreStatus(failing) ==
    [diagnostic |-> IF Trusted(failing) THEN None ELSE "environment_store_untrusted",
     current |-> Trusted(failing)]

--------------------------------------------------------------------------------
\* A path source has no canonical source and a state pin; a declaration resolves
\* from git alone.
DeclarationShape(kind, source, pin) ==
    IF kind = "git" THEN source # None /\ pin = "commit" ELSE source = None /\ pin = "state_sha256"

AdmitsDeclaration(kind) == kind = "git"

\* Its directory passes the boundary checks at every resolve, with no pin to
\* compare and nothing to rebuild it from; system modules of a package named
\* only through another are refused where the machine says so.
PathShape(failing) == failing \subseteq ChecksOf(BoundaryChecks)

\* Mutant: a directory without system modules is not looked at.
PathCarriersOnly(failing, carries, direct, policy) ==
    IF carries /\ failing # {} THEN Answer("environment_store_untrusted", FALSE, First(failing))
    ELSE Answer(None, TRUE, None)

PathResolve(failing, carries, direct, policy) ==
    CASE failing # {} -> Answer("environment_store_untrusted", FALSE, First(failing))
      [] failing = {} /\ carries /\ ~direct /\ policy = "error" ->
            Answer("context_system_module_transitive", FALSE, None)
      [] failing = {} /\ ~(carries /\ ~direct /\ policy = "error") -> Answer(None, TRUE, None)

PathDryRun(failing) ==
    [diagnostic |-> IF failing = {} THEN None ELSE "environment_store_untrusted",
     check |-> IF failing = {} THEN None ELSE First(failing)]

--------------------------------------------------------------------------------
\* Seeding a Codex home from the native document, [others, servers] with servers
\* None when it has no such table: release A copies it whole and warns, release B
\* leaves mcp_servers out.
Servers(native) == IF native.servers = None THEN {} ELSE native.servers

Seeded(revision, native) ==
    IF revision = "A" THEN native ELSE [native EXCEPT !.servers = None]

SeedWarning(revision, native) ==
    CASE Servers(native) = {} -> None
      [] Servers(native) # {} /\ revision = "A" -> "mcp_native_servers_ungoverned"
      [] Servers(native) # {} /\ revision = "B" -> "mcp_native_servers_not_inherited"

SeedRecord(revision, native) == [revision |-> revision, names |-> Servers(native)]

\* Mutant: the release shipped now speaks for the home, not the one it was seeded by.
PostureOfShipped(shipped, environment, record) ==
    [diagnostics |-> {}, names |-> IF record = None THEN {} ELSE record.names, repair |-> FALSE,
     as |-> IF shipped = "A" THEN "ungoverned" ELSE "not-inherited"]

\* The status of a seed, from the release shipped now and the home's own record.
SeedPosture(shipped, environment, record) ==
    CASE environment # "codex_cli" -> [diagnostics |-> {}, names |-> {}, as |-> "none", repair |-> FALSE]
      [] environment = "codex_cli" /\ record = None ->
            [diagnostics |-> {"mcp_seed_unstripped"}, names |-> {}, as |-> "unknown", repair |-> TRUE]
      [] environment = "codex_cli" /\ record # None ->
            LET any == record.names # {}
                unstripped == any /\ record.revision = "A" /\ shipped = "B"
            IN  [diagnostics |->
                    (IF ~any THEN {}
                     ELSE IF record.revision = "A" THEN {"mcp_native_servers_ungoverned"}
                          ELSE {"mcp_native_servers_not_inherited"})
                    \union (IF unstripped THEN {"mcp_seed_unstripped"} ELSE {}),
                 names |-> record.names,
                 as |-> IF ~any THEN "none"
                        ELSE IF record.revision = "A" THEN "ungoverned" ELSE "not-inherited",
                 repair |-> unstripped]

--------------------------------------------------------------------------------
\* The names a launch may pass on, of those its declarations ask for; the knob is
\* [kind, names] with kind "absent", "null" (written so) or "list".
Passable(knob, profile, requested) ==
    CASE knob.kind = "absent" -> IF profile = "s4-warn" THEN requested ELSE {}
      [] knob.kind = "null" -> requested
      [] knob.kind = "list" -> knob.names \intersect requested

PassDiagnostic(knob, profile, requested) ==
    LET passed == Passable(knob, profile, requested)
    IN  IF profile = "s4-warn"
        THEN IF knob.kind = "absent" /\ passed # {} THEN "mcp_env_passthrough_unlisted" ELSE None
        ELSE IF requested \ passed # {} THEN "mcp_env_passthrough_dropped" ELSE None

\* An empty package allowlist admits every declaration and says so.
AllowlistDiagnostic(allowed, package) ==
    IF allowed = {} THEN "mcp_package_allowlist_empty"
    ELSE IF package \notin allowed THEN "mcp_package_not_allowed" ELSE None

\* The row of a declaration, in its closed columns, and what reads it back.
Row(d) == IF d.transport = "http" THEN [d EXCEPT !.command = "-", !.args = <<>>] ELSE d
ReadsBack(d) ==
    /\ d.transport \in {"stdio", "http"} /\ d.command # None
    /\ d.transport = "http" => d.command = "-" /\ d.args = <<>>
================================================================================
