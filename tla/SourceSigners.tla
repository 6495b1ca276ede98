----------------------------- MODULE SourceSigners -----------------------------
(* The signer rules of tools/validate.py: whether the top candidate of a       *)
(* source may be selected, which allowlist is in force, what the status says   *)
(* of a source, and what an update introduces that must be confirmed.          *)
(* A signature is [signer, valid]; a lock member is [version, form, pin] and   *)
(* Snapshot tells what a pin holds.  The wording of rows is not modelled.      *)
EXTENDS Naturals, Sequences, FiniteSets, Functions

CONSTANTS Absent,       \* no value: no signature, no allowlist, no knob, no version
          Snapshot      \* pin -> [modules, mcp] of the member it pins

\* Mutant: keys are compared as they are written.
KeyAsWritten(s) == s

\* Two keys are the same signer when type and key material agree: the comment an
\* OpenSSH key ends with is not part of its identity.
SignerIdentity(s) ==
    IF s.type = "ssh" THEN <<"ssh", s.material>> ELSE <<"gpg", s.fingerprint>>

Identities(signers) == {SignerIdentity(s) : s \in signers}
Signatures(candidate) == {candidate.tag, candidate.commit} \ {Absent}

\* A selection by revision has no tag, so tag evidence cannot speak for it.
CandidateShape(candidate) ==
    candidate.form \in {"revision", "path"} => candidate.tag = Absent

Accepted(candidate) == [verdict |-> "accepted", why |-> Absent, selected |-> candidate]
Refused(why) == [verdict |-> "refused", why |-> why, selected |-> Absent]

SignedBy(candidate, allowlist) ==
    \E g \in Signatures(candidate) :
        g.valid /\ SignerIdentity(g.signer) \in Identities(allowlist)

Vouched(candidates, allowlist) == SignedBy(candidates[1], allowlist)

\* Only the top candidate is consulted; a path source is never verified.
Verification(kind, allowlist, require, candidates) ==
    CASE kind = "path" -> Accepted(candidates[1])
      [] kind = "git" /\ allowlist = Absent /\ require -> Refused("context_source_signers_missing")
      [] kind = "git" /\ allowlist = Absent /\ ~require -> Accepted(candidates[1])
      [] kind = "git" /\ allowlist # Absent /\ Signatures(candidates[1]) = {} ->
            Refused("context_source_unsigned")
      [] kind = "git" /\ allowlist # Absent /\ Signatures(candidates[1]) # {} ->
            IF Vouched(candidates, allowlist) THEN Accepted(candidates[1])
            ELSE Refused("context_source_signer_rejected")

\* Mutant: the machine's entries are laid over the locked ones.
MachineWins(locked, system, machine) ==
    [map |-> IF machine = Absent THEN system
             ELSE [s \in DOMAIN system \union DOMAIN machine |->
                     IF s \in DOMAIN machine THEN machine[s] ELSE system[s]],
     warned |-> {}]

--------------------------------------------------------------------------------
\* The map in force and the sources warned about.  A locked map wins source by
\* source and the machine's may only add; one that is not locked is a default.
Effective(locked, system, machine) ==
    CASE locked /\ machine = Absent -> [map |-> system, warned |-> {}]
      [] locked /\ machine # Absent ->
            [map |-> [s \in DOMAIN system \union DOMAIN machine |->
                        IF s \in DOMAIN system THEN system[s] ELSE machine[s]],
             warned |-> DOMAIN machine \intersect DOMAIN system]
      [] ~locked -> [map |-> IF machine # Absent THEN machine ELSE system, warned |-> {}]

AllowlistOf(map, source) == IF source \in DOMAIN map THEN map[source] ELSE Absent

\* Mutant: an allowlist with no signer counts as no allowlist.
RowOfFilled(source, map, require, local) ==
    IF AllowlistOf(map, source) \notin {Absent, {}}
    THEN [state |-> "enforced", signer |-> local.signer, current |-> local.verdict # "fails"]
    ELSE [state |-> IF require THEN "required-missing" ELSE "unconfigured",
          signer |-> Absent, current |-> TRUE]

\* The status row of a source; local is what re-verifying its locked pin found.
PostureRow(source, map, require, local) ==
    IF source \in DOMAIN map
    THEN [state |-> "enforced", signer |-> IF local.verdict = "verified" THEN local.signer ELSE "unknown",
          current |-> local.verdict # "fails"]
    ELSE [state |-> IF require THEN "required-missing" ELSE "unconfigured",
          signer |-> Absent, current |-> TRUE]

--------------------------------------------------------------------------------
\* Snapshots: only an mcp member carries a declaration, and it carries no module.
SnapshotShape(kind, snapshot) ==
    IF kind = "mcp" THEN snapshot.mcp # Absent /\ snapshot.modules = {} ELSE snapshot.mcp = Absent

\* Mutant: a member whose version did not move is not looked into.
SameVersion(before, after) == before.version = after.version

\* A lock maps [kind, name] keys to members.
Same(before, after) == before.version = after.version /\ before.pin = after.pin

Added(old, new) == DOMAIN new \ DOMAIN old
Moved(old, new) == {k \in DOMAIN old \intersect DOMAIN new : ~Same(old[k], new[k])}

\* The inventory of a context, the declaration of an mcp member: whole, in order.
Surface(k, member) ==
    IF k.kind = "mcp" THEN Snapshot[member.pin].mcp ELSE Snapshot[member.pin].modules

\* The members whose system modules or declaration an update brings in or changes.
Trigger(old, new) ==
    {k \in Added(old, new) : \/ k.kind = "context" /\ Surface(k, new[k]) # {}
                             \/ k.kind = "mcp"}
    \union {k \in Moved(old, new) : k.kind \in {"context", "mcp"}
                                    /\ Surface(k, old[k]) # Surface(k, new[k])}

\* What the two releases make of it: the first warns and goes on, the second
\* refuses unless the operator says so on the command line.
Outcome(revision, trigger, flag) ==
    IF revision = "A"
    THEN [diagnostic |-> IF trigger = {} THEN Absent ELSE "profile_update_system_delta", published |-> TRUE]
    ELSE IF trigger # {} /\ ~flag
         THEN [diagnostic |-> "profile_update_confirmation_required", published |-> FALSE]
         ELSE [diagnostic |-> Absent, published |-> TRUE]
================================================================================
