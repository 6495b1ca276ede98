------------------------------- MODULE Postures -------------------------------
(* The security posture of a manager (tools/validate.py, the hardened-defaults       *)
(* vectors): what a machine's configuration, the system's and the release come to,    *)
(* what an operation under it reports or refuses, and the gate that admits a case      *)
(* under its name.  A behaviour starts from a case the gate knows and has one thing    *)
(* after another in it rewritten, as an operator would or an author of vectors.         *)
(* Every knob is weak (advisory, empty, null, drop, false) or strong.                   *)
EXTENDS Naturals

CONSTANTS MaxEdits, \* bound: rewritten things
          None

EditsAssumption == MaxEdits \in Nat /\ None \notin {"permissive", "hardened"}

VARIABLES
    name,   \* of the case
    config, \* [revision, schema, posture, machine, system, hardens, locked, passthrough, others]
    op,     \* [kind, mcp, unreachable]
    edits
vars == <<name, config, op, edits>>

--------------------------------------------------------------------------------
ManagerKnobs == {"audit_mode", "audit_registry_policy", "allowed_sources"}
Knobs == ManagerKnobs \union {"mcp_package_allowlist", "passable_env_names",
                              "transitive_system_modules", "require_source_signers"}
LockKey == [k \in Knobs |-> IF k \in {"audit_mode", "audit_registry_policy"} THEN "audit" ELSE k]
LockNames == {LockKey[k] : k \in Knobs} \union {"security_posture"}
Postured == {"audit_mode", "audit_registry_policy", "transitive_system_modules", "require_source_signers"}
Known(c) == IF c.schema = 1 THEN ManagerKnobs ELSE Knobs

Kinds == {"install", "profile-install", "status", "status-check"}

\* What the gate refuses under any name.
WellFormed(c, o) ==
    /\ c.schema = 1 => c.posture = None /\ ~o.mcp /\ DOMAIN c.machine \subseteq ManagerKnobs
    /\ "security_posture" \in c.locked => c.hardens
    /\ \A k \in Known(c) : LockKey[k] \in c.locked => k \in DOMAIN c.system

--------------------------------------------------------------------------------
\* Lock, then machine, then the default.
Profile(c) ==
    IF c.schema = 1 THEN [value |-> "permissive", source |-> "profile"]
    ELSE IF "security_posture" \in c.locked THEN [value |-> "hardened", source |-> "lock"]
    ELSE IF c.posture # None THEN [value |-> c.posture, source |-> "explicit"]
    ELSE [value |-> IF c.revision = "A" THEN "permissive" ELSE "hardened", source |-> "profile"]
Hardened(c) == Profile(c).value = "hardened"

Default(c, k) ==
    IF \/ k \in Postured /\ Hardened(c)
       \/ k = "passable_env_names" /\ c.passthrough = "s4-enforce"
    THEN "strong" ELSE "weak"

MachineFirst(c, k) ==
    IF k \in DOMAIN c.machine THEN [value |-> c.machine[k], source |-> "explicit"]
    ELSE IF LockKey[k] \in c.locked THEN [value |-> c.system[k], source |-> "lock"]
    ELSE [value |-> Default(c, k), source |-> "profile"]
Resolve(c, k) ==
    IF LockKey[k] \in c.locked THEN [value |-> c.system[k], source |-> "lock"]
    ELSE IF k \in DOMAIN c.machine THEN [value |-> c.machine[k], source |-> "explicit"]
    ELSE [value |-> Default(c, k), source |-> "profile"]
Weak(c, k) == k \in Known(c) /\ Resolve(c, k).value = "weak"
NullAny(c) == Weak(c, "passable_env_names")
NullExplicit(c) ==
    Weak(c, "passable_env_names") /\ Resolve(c, "passable_env_names").source # "profile"

Found(code, severity) == [code |-> code, severity |-> severity]
When(b, d) == IF b THEN {d} ELSE {}
Diagnostics(c, o) ==
    LET installs == o.kind \in {"install", "profile-install"} IN
    When(~Hardened(c), Found("security_posture_permissive", "warning"))
    \union When(Hardened(c) /\ Weak(c, "allowed_sources") /\ installs,
                Found("source_allowlist_empty", "error"))
    \union When(o.kind = "profile-install" /\ Weak(c, "mcp_package_allowlist"),
                Found("mcp_package_allowlist_empty", IF Hardened(c) /\ o.mcp THEN "error" ELSE "warning"))
    \union When(Hardened(c) /\ NullExplicit(c) /\ o.kind = "profile-install",
                Found("passable_env_names_unbounded_refused", "error"))
    \union When(o.unreachable /\ installs,
                Found("registry_unreachable_during_install", IF Hardened(c) THEN "error" ELSE "warning"))

ContradictsByLists(c, o) ==
    Hardened(c) /\ (Weak(c, "allowed_sources") \/ (Weak(c, "mcp_package_allowlist") /\ o.mcp))
Contradicts(c, o) ==
    Hardened(c) /\ \/ Weak(c, "allowed_sources")
                   \/ NullExplicit(c)
                   \/ (Weak(c, "mcp_package_allowlist") /\ o.mcp)
Outcome(c, o) ==
    IF o.kind = "status" THEN "current"
    ELSE IF o.kind = "status-check" THEN IF Contradicts(c, o) THEN "non-current" ELSE "current"
    ELSE IF \E d \in Diagnostics(c, o) : d.severity = "error" THEN "refused" ELSE "proceeds"

\* The rows both status commands show; what the release ships is in no one's hands.
Shipped(c) == IF c.schema = 1 THEN {"others"} ELSE {"env-passthrough", "others"}
Rows(c) ==
    [gate \in {"security_posture"} \union (Known(c) \ {"passable_env_names"}) \union Shipped(c) |->
        IF gate = "security_posture" THEN Profile(c)
        ELSE IF gate \in Knobs THEN Resolve(c, gate)
        ELSE [value |-> IF gate = "others" THEN c.others ELSE c.passthrough, source |-> "shipped"]]

--------------------------------------------------------------------------------
\* The cases the gate knows: everything they do not set is pinned absent.
Machine(strong, weak) == [k \in strong \union weak |-> IF k \in strong THEN "strong" ELSE "weak"]
Plain(revision, posture, strong, weak) ==
    [revision |-> revision, schema |-> 2, posture |-> posture, machine |-> Machine(strong, weak),
     system |-> Machine({}, {}), hardens |-> FALSE, locked |-> {}, passthrough |-> "s4-enforce", others |-> "A"]
Op(kind, mcp, unreachable) == [kind |-> kind, mcp |-> mcp, unreachable |-> unreachable]
Case(n, c, o, promise, outcome) ==
    [name |-> n, config |-> c, op |-> o, promise |-> promise, outcome |-> outcome]
Both == {"allowed_sources", "mcp_package_allowlist"}
Audits == {"audit_mode", "audit_registry_policy"}

MergeCases ==
    {Case("revision-A-default-permissive-status", Plain("A", None, {}, {}),
          Op("status", FALSE, FALSE), {"security_posture_permissive"}, "current"),
     Case("revision-B-default-hardened-flip-install", Plain("B", None, Both, {}),
          Op("install", FALSE, FALSE), {}, "proceeds"),
     Case("explicit-hardened-effective-defaults", Plain("A", "hardened", {}, {}),
          Op("status", FALSE, FALSE), {}, "current"),
     Case("explicit-knob-beats-profile-default", Plain("A", "hardened", Both, {"audit_mode"}),
          Op("install", FALSE, FALSE), {}, "proceeds"),
     Case("locked-value-beats-explicit",
          [Plain("A", None, {}, Audits) EXCEPT !.locked = {"audit"}, !.system = Machine(Audits, {})],
          Op("status", FALSE, FALSE), {"security_posture_permissive"}, "current"),
     Case("locked-posture-beats-explicit-permissive",
          [Plain("A", "permissive", {}, {}) EXCEPT !.locked = {"security_posture"}, !.hardens = TRUE],
          Op("status", FALSE, FALSE), {}, "current")}
RefusalCases ==
    {Case("refusal-source-allowlist-empty-explicit", Plain("A", "hardened", {}, {"allowed_sources"}),
          Op("install", FALSE, FALSE), {"source_allowlist_empty"}, "refused"),
     Case("refusal-mcp-allowlist-empty-with-declarations", Plain("B", None, {"allowed_sources"}, {}),
          Op("profile-install", TRUE, FALSE), {"mcp_package_allowlist_empty"}, "refused"),
     Case("hardened-empty-mcp-allowlist-without-declarations-warns",
          Plain("B", "hardened", {"allowed_sources"}, {}),
          Op("profile-install", FALSE, FALSE), {"mcp_package_allowlist_empty"}, "proceeds"),
     Case("refusal-passable-env-null", Plain("A", "hardened", Both, {"passable_env_names"}),
          Op("profile-install", TRUE, FALSE), {"passable_env_names_unbounded_refused"}, "refused"),
     Case("revision-A-permissive-warning-once-install", Plain("A", None, {}, {}),
          Op("install", FALSE, FALSE), {"security_posture_permissive"}, "proceeds")}
ReleaseCases ==
    {Case("unreachable-registry-permissive-warns", Plain("A", None, {"allowed_sources"}, {}),
          Op("install", FALSE, TRUE),
          {"security_posture_permissive", "registry_unreachable_during_install"}, "proceeds"),
     Case("unreachable-registry-hardened-refuses", Plain("A", "hardened", {"allowed_sources"}, {}),
          Op("install", FALSE, TRUE), {"registry_unreachable_during_install"}, "refused"),
     Case("schema1-machine-is-permissive",
          [Plain("B", None, {}, {"audit_mode"}) EXCEPT !.schema = 1],
          Op("install", FALSE, FALSE), {"security_posture_permissive"}, "proceeds"),
     Case("hardened-contradiction-status-check-non-current", Plain("B", None, {}, {}),
          Op("status-check", TRUE, FALSE), {}, "non-current"),
     Case("hardened-absent-passthrough-follows-s4-warn",
          [Plain("A", "hardened", Both, {}) EXCEPT !.passthrough = "s4-warn"],
          Op("profile-install", TRUE, FALSE), {}, "proceeds"),
     Case("posture-rows-flipped-revisions",
          [Plain("B", "hardened", Both \union {"audit_mode", "transitive_system_modules", "require_source_signers"}, {})
              EXCEPT !.others = "B"],
          Op("status", TRUE, FALSE), {}, "current")}
Scenarios == MergeCases \union RefusalCases \union ReleaseCases

AnyOperation(n, c, o) == {s \in Scenarios : s.name = n /\ s.config = c}
\* What the gate takes a case of that name to be, if it admits it.
AdmittedAs(n, c, o) == {s \in Scenarios : s.name = n /\ s.config = c /\ s.op = o}

\* What a name says its case shows.
KeepsItsName(s, c, o) ==
    /\ {d.code : d \in Diagnostics(c, o)} = s.promise /\ Outcome(c, o) = s.outcome
    /\ s.name = "explicit-knob-beats-profile-default" => Resolve(c, "audit_mode").source = "explicit"
    /\ s.name = "locked-value-beats-explicit" =>
           Rows(c)["audit_mode"] = [value |-> "strong", source |-> "lock"]
    /\ s.name = "locked-posture-beats-explicit-permissive" => Hardened(c)

--------------------------------------------------------------------------------
TypeOK ==
    /\ \E s \in Scenarios : name = s.name
    /\ WellFormed(config, op) /\ edits \in 0 .. MaxEdits

Init == /\ edits = 0
        /\ \E s \in Scenarios : name = s.name /\ config = s.config /\ op = s.op

Edited(c, o) ==
    /\ edits < MaxEdits /\ edits' = edits + 1
    /\ WellFormed(c, o) /\ config' = c /\ op' = o /\ UNCHANGED name

Without(f, k) == [x \in DOMAIN f \ {k} |-> f[x]]
SetOf(f, ks, v) == [x \in ks \union DOMAIN f |-> IF x \in ks THEN v ELSE f[x]]
SetKnob(k, v) == Edited([config EXCEPT !.machine = SetOf(@, {k}, v)], op)
DropKnob(k) == k \in DOMAIN config.machine /\ Edited([config EXCEPT !.machine = Without(@, k)], op)
SetPosture(p) == Edited([config EXCEPT !.posture = p], op)
Lock(l, v) ==
    Edited([config EXCEPT !.locked = @ \union {l},
                          !.system = SetOf(@, {k \in Knobs : LockKey[k] = l}, v),
                          !.hardens = @ \/ l = "security_posture"], op)
Unlock == config.locked # {} /\ Edited([config EXCEPT !.locked = {}], op)
Ship(r, p) == Edited([config EXCEPT !.revision = r, !.passthrough = p], op)
Ask(o) == Edited(config, o)

Next ==
    \/ \E k \in Knobs : DropKnob(k) \/ \E v \in {"weak", "strong"} : SetKnob(k, v)
    \/ \E p \in {"permissive", "hardened", None} : SetPosture(p)
    \/ \E l \in LockNames, v \in {"weak", "strong"} : Lock(l, v)
    \/ Unlock
    \/ \E r \in {"A", "B"}, p \in {"s4-warn", "s4-enforce"} : Ship(r, p)
    \/ \E kind \in Kinds, mcp, unreachable \in BOOLEAN : Ask(Op(kind, mcp, unreachable))

--------------------------------------------------------------------------------
\* A case that is admitted under a name shows what the name says.
NamedAsShown == \A s \in AdmittedAs(name, config, op) : KeepsItsName(s, config, op)

\* The status check is not current exactly when installing the profile would be
\* refused for what the configuration says.
StatusForetells ==
    LET o == Op("status-check", op.mcp, FALSE) IN
    Outcome(config, o) = "non-current" <=>
        Outcome(config, [o EXCEPT !.kind = "profile-install"]) = "refused"

\* The release that flips the default changes nothing on a machine that was not warned.
NoSilentFlip ==
    config.revision = "A"
    /\ Found("security_posture_permissive", "warning") \notin Diagnostics(config, op) =>
        LET flipped == [config EXCEPT !.revision = "B"] IN
        Outcome(flipped, op) = Outcome(config, op) /\ Rows(flipped) = Rows(config)

\* What the system locks no edit of the machine's file moves; and where a hardened
\* machine is weaker than its posture, a row names who made it so or a profile that
\* depends on it is refused.
LockedIsLocked ==
    \A k \in Known(config), v \in {"weak", "strong"} : LockKey[k] \in config.locked =>
        Resolve([config EXCEPT !.machine = SetOf(@, {k}, v)], k).value = config.system[k]
WeaknessIsNamed ==
    Hardened(config) =>
        \A k \in Knobs : Weak(config, k) =>
            \/ \E gate \in DOMAIN Rows(config) :
                   gate = k /\ Rows(config)[gate].source \in {"explicit", "lock"}
            \/ k = "passable_env_names" /\ Rows(config)["env-passthrough"].value = "s4-warn"
            \/ Outcome(config, Op("profile-install", TRUE, FALSE)) = "refused"
================================================================================
