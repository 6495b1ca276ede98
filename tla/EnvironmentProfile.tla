--------------------------- MODULE EnvironmentProfile ---------------------------
(* A profile under the rules of SourceSigners and StoreBoundary: the machine   *)
(* is configured, the rollout ships its second release, sources offer          *)
(* candidates, an operator updates, the store, the overlay directory and the   *)
(* marker come to harm, and the manager resolves, repairs and reports.  Each   *)
(* operation answers what the validator's oracle answers for its inputs, and   *)
(* the next one starts from what that answer leaves.                           *)
EXTENDS SourceSigners

CONSTANTS
    SystemMap,      \* source -> allowlist, from the system's configuration
    Configurations, \* [locked, machine, require, knob, profile, allowed]
    Offers,         \* [key, kind, source, candidates] an update may be made of
    Harms,          \* [object, kind, failing] that may befall the store: kind of the entry
    Exposures,      \* checks the overlay directory may come to fail
    Native,         \* the native Codex documents a home may be seeded from
    Overlay,        \* key of the path overlay
    Requested       \* environment names the declarations ask for

B == INSTANCE StoreBoundary WITH None <- Absent

SignerTypes == {"ssh", "gpg"}
Snapshots == \A o \in Offers : \A i \in DOMAIN o.candidates :
    /\ CandidateShape(o.candidates[i])
    /\ SnapshotShape(o.key.kind, Snapshot[o.candidates[i].pin])
Declarations == \A o \in Offers : \A i \in DOMAIN o.candidates :
    o.key.kind = "mcp" =>
        /\ B!DeclarationShape(o.kind, o.source, IF o.candidates[i].form = "path" THEN "state_sha256" ELSE "commit")
        /\ B!ReadsBack(B!Row(Snapshot[o.candidates[i].pin].mcp))
HarmShapes ==
    /\ \A h \in Harms : h.kind \in B!EntryKinds /\ B!FailureShape(h.object, h.failing)
    /\ B!PathShape(Exposures)
\* There is something to select in an offer, and an allowlist is not the absence of one.
SignerShapes ==
    /\ \A o \in Offers :
        /\ o.kind \in {"git", "path"} /\ 1 \in DOMAIN o.candidates
        /\ \A g \in Signatures(o.candidates[1]) : g.signer.type \in SignerTypes
    /\ \A s \in DOMAIN SystemMap :
        SystemMap[s] # Absent /\ \A t \in SystemMap[s] : t.type \in SignerTypes
KnobShapes ==
    \A c \in Configurations :
        /\ c.locked \in BOOLEAN /\ c.require \in BOOLEAN /\ c.knob.kind \in {"absent", "null", "list"}
        /\ c.machine # Absent => \A s \in DOMAIN c.machine : c.machine[s] # Absent
ProfileAssumption ==
    /\ Snapshots /\ Declarations /\ HarmShapes /\ SignerShapes /\ KnobShapes
    /\ \A n \in Native : n = [others |-> n.others, servers |-> n.servers]
    /\ Absent # "environment_store_untrusted"

VARIABLES
    knobs, shipped,     \* the configuration; the release, "A" or "B"
    lock,               \* key -> member
    named,              \* <<key, surface>> a warning or a confirmation named
    harm, directory,    \* the store's; the overlay directory's failing checks
    home, seed,         \* the home's state; what it was seeded with, or Absent
    applied             \* whether its bytes are those a lock pinned when it was made

profile == <<knobs, shipped, lock, named, harm, directory, home, seed, applied>>

Intact == [object |-> "store-entry", kind |-> "git", failing |-> {}]
InForce == Effective(knobs.locked, SystemMap, knobs.machine)
NewHome(release, native) ==
    [config |-> B!Seeded(release, native), record |-> B!SeedRecord(release, native)]

\* A home may have been seeded before there was a rule, whole and unrecorded.
Init ==
    /\ knobs \in Configurations /\ shipped = "A"
    /\ lock = <<>> /\ named = {}
    /\ harm = Intact /\ directory = {} /\ applied = "pinned"
    /\ \/ home = "unprovisioned" /\ seed = Absent
       \/ home = "current" /\ seed \in [config : Native, record : {Absent}]

Configure(c) ==
    /\ knobs' = c
    /\ UNCHANGED <<shipped, lock, named, harm, directory, home, seed, applied>>

Ship ==
    /\ shipped = "A" /\ shipped' = "B"
    /\ UNCHANGED <<knobs, lock, named, harm, directory, home, seed, applied>>

Allowed(o) ==
    /\ o.key.kind = "mcp" => B!AdmitsDeclaration(o.kind)
    /\ o.key.kind = "mcp" => B!AllowlistDiagnostic(knobs.allowed, o.key.name) # "mcp_package_not_allowed"

\* The new lock is read against the old one before it is published; publishing
\* leaves a home that was current with an old marker.
Publish(new, flag) ==
    LET trigger == Trigger(lock, new)
    IN  /\ Outcome(shipped, trigger, flag).published
        /\ lock' = new
        /\ named' = named \union {<<k, Surface(k, new[k])>> : k \in trigger}
        /\ home' = IF home = "current" /\ new # lock THEN "stale-old-marker" ELSE home
        /\ UNCHANGED <<knobs, shipped, harm, directory, seed, applied>>

Update(o, flag) ==
    LET verdict == Verification(o.kind, AllowlistOf(InForce.map, o.source), knobs.require, o.candidates)
        member == [version |-> verdict.selected.version, form |-> verdict.selected.form,
                   pin |-> verdict.selected.pin]
    IN  /\ Allowed(o) /\ verdict.verdict = "accepted"
        /\ Publish([k \in DOMAIN lock \union {o.key} |-> IF k = o.key THEN member ELSE lock[k]], flag)

Drop(k) ==
    /\ k \in DOMAIN lock
    /\ Publish(Restrict(lock, DOMAIN lock \ {k}), FALSE)

\* What happens to the files, from outside.
Harm(h) ==
    /\ harm = Intact /\ harm' = h
    /\ UNCHANGED <<knobs, shipped, lock, named, directory, home, seed, applied>>

Expose(c) ==
    /\ directory = {} /\ directory' = {c}
    /\ UNCHANGED <<knobs, shipped, lock, named, harm, home, seed, applied>>

Secure ==
    /\ directory # {} /\ directory' = {}
    /\ UNCHANGED <<knobs, shipped, lock, named, harm, home, seed, applied>>

Garble ==
    /\ home # "unprovisioned" /\ home' = "unreadable-marker"
    /\ UNCHANGED <<knobs, shipped, lock, named, harm, directory, seed, applied>>

\* The overlay is named directly by the machine and carries no system module.
OverlayAnswer ==
    IF Overlay \in DOMAIN lock THEN B!PathResolve(directory, FALSE, TRUE, "drop")
    ELSE B!Answer(Absent, TRUE, Absent)

Resolves == B!Resolve(harm.failing, home).fragment /\ OverlayAnswer.fragment

\* Repair rebuilds what it may and provisions the home anew, with the seed of the
\* release shipped now.
RepairHome(native) ==
    /\ B!RepairShape(harm.failing, home)
    /\ IF B!Repair(harm.object, harm.kind, harm.failing).fragment
       THEN /\ harm' = Intact /\ home' = "current"
            /\ seed' = NewHome(shipped, native)
            /\ applied' = IF harm.failing = {} \/ (harm.object \notin B!Enclosing /\ harm.kind = "git")
                          THEN "pinned" ELSE "harmed"
       ELSE UNCHANGED <<harm, home, seed, applied>>
    /\ UNCHANGED <<knobs, shipped, lock, named, directory>>

Next ==
    \/ \E c \in Configurations : Configure(c)
    \/ Ship
    \/ \E o \in Offers, flag \in BOOLEAN : Update(o, flag)
    \/ \E k \in DOMAIN lock : Drop(k)
    \/ \E h \in Harms : Harm(h)
    \/ \E c \in Exposures : Expose(c)
    \/ Secure \/ Garble
    \/ \E native \in Native : RepairHome(native)

Spec == Init /\ [][Next]_profile

--------------------------------------------------------------------------------
TypeOK ==
    /\ knobs \in Configurations /\ shipped \in {"A", "B"}
    /\ DOMAIN lock \subseteq {o.key : o \in Offers}
    /\ \A k \in DOMAIN lock : SnapshotShape(k.kind, Snapshot[lock[k].pin])
    /\ harm \in Harms \union {Intact} /\ B!PathShape(directory) /\ home \in B!HomeStates
    /\ applied \in {"pinned", "harmed"}
    /\ seed # Absent => seed.config \in {B!Seeded(r, n) : r \in {"A", "B"}, n \in Native}

\* Every system module and every declaration a lock brings to the agent was named
\* when it came in, by a warning or by the confirmation of the second release:
\* also over several updates, a removal and a return, or a moved tag.
NothingNewUnseen ==
    \A k \in DOMAIN lock :
        k.kind = "mcp" \/ (k.kind = "context" /\ Surface(k, lock[k]) # {})
            => <<k, Surface(k, lock[k])>> \in named

SameSigner(s, t) ==
    /\ s.type = t.type
    /\ IF s.type = "ssh" THEN s.material = t.material ELSE s.fingerprint = t.fingerprint

\* A source the system configuration locks a list for takes no candidate that list
\* does not vouch for, whatever the machine's own configuration says of it, and no
\* lower candidate in its place.
LockedListHolds ==
    \A o \in Offers : knobs.locked /\ o.kind = "git" /\ o.source \in DOMAIN SystemMap =>
        LET v == Verification(o.kind, AllowlistOf(InForce.map, o.source), knobs.require, o.candidates)
        IN  v.verdict = "accepted" <=>
                \E g \in Signatures(o.candidates[1]), s \in SystemMap[o.source] :
                    g.valid /\ SameSigner(g.signer, s)

\* What the status says is what the operations do: a source whose row is
\* "required-missing" refuses any update, one that is "unconfigured" takes any; a
\* profile whose store is current is not refused as untrusted; nothing is rebuilt
\* that a dry run would not have announced; and a native server
\* a home was seeded with is listed, or the row says its seed is unknown; a name is
\* passed on that no list holds only with a warning or by an explicit null.
RowsForetell ==
    /\ \A o \in Offers : o.kind = "git" =>
        LET row == PostureRow(o.source, InForce.map, knobs.require, [verdict |-> "unknown", signer |-> "unknown"])
            v == Verification(o.kind, AllowlistOf(InForce.map, o.source), knobs.require, o.candidates)
        IN  /\ row.state = "required-missing" => v.why = "context_source_signers_missing"
            /\ row.state = "unconfigured" => v.verdict = "accepted"
            /\ row.state = "enforced" => v.verdict = "accepted" \/ v.why # "context_source_signers_missing"
    /\ B!StoreStatus(harm.failing).current
        <=> B!Resolve(harm.failing, home).diagnostic # "environment_store_untrusted"
    /\ B!Repair(harm.object, harm.kind, harm.failing).rebuilt
        => B!DryRun(harm.object, harm.failing) = "would-rebuild-untrusted-store"
    /\ B!PathDryRun(directory).check = B!PathResolve(directory, FALSE, TRUE, "drop").check
    /\ seed # Absent /\ seed.record # Absent /\ B!Servers(seed.config) # {} =>
        B!SeedWarning(seed.record.revision, seed.config)
            \in B!SeedPosture(shipped, "codex_cli", seed.record).diagnostics
    /\ seed # Absent =>
        LET row == B!SeedPosture(shipped, "codex_cli", seed.record)
        IN  \/ row.as = "unknown" /\ row.repair
            \/ row.as = "ungoverned" /\ B!Servers(seed.config) = row.names
            \/ row.as \in {"not-inherited", "none"} /\ B!Servers(seed.config) = {}
    /\ B!Passable(knobs.knob, knobs.profile, Requested) \subseteq
        (IF knobs.knob.kind = "null"
            \/ B!PassDiagnostic(knobs.knob, knobs.profile, Requested) = "mcp_env_passthrough_unlisted"
         THEN Requested ELSE knobs.knob.names)

\* A launch is given a fragment only of bytes its lock pins: the store passes every
\* check, the home was made from a store that did or from a rebuilt git entry, and
\* so does the overlay directory; neither a marker that names the lock, nor a
\* repair of what cannot be rebuilt, stands in for that.
LaunchesWhatIsPinned ==
    Resolves => harm.failing = {} /\ applied = "pinned" /\ (Overlay \in DOMAIN lock => directory = {})
================================================================================
