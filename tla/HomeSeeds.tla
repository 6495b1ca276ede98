------------------------------- MODULE HomeSeeds -------------------------------
(* What a managed home is provisioned from: the configuration a Codex home is   *)
(* seeded with under the three revisions of the rule (tools/codex_seed_c.py) and *)
(* the native root its credential link leads to (tools/provisioning_origin.py).  *)
(* Native files and the selector of the native root are the user's and change    *)
(* at any time; TOML, path spellings and the marker schemas are not modelled.     *)
EXTENDS FiniteSets

CONSTANTS Servers, Projects, Roots, Bindings, None

SeedAssumption == None \notin Roots

Revisions == {"A", "B", "C"}
Configs == [servers : SUBSET Servers, projects : SUBSET Projects]
Origins == [root : Roots, binding : Bindings]

VARIABLES
    native,     \* the user's configuration, or None where it does not parse
    config,     \* the home's, None before it is provisioned
    record,     \* [revision, servers] of the marker, None before the rule
    revision,   \* the rule of the manager installed now
    selector,   \* the native root named today
    origin,     \* the recorded one, or None
    link,       \* where the home's credential link leads, or None
    binding     \* of the home today

seed == <<native, config, record, revision>>
root == <<selector, origin, link, binding>>
vars == <<seed, root>>

Init ==
    /\ native \in Configs /\ revision \in Revisions
    /\ record = None /\ config \in {None, native}
    /\ selector \in Roots /\ origin = None /\ link = None /\ binding \in Bindings

--------------------------------------------------------------------------------
\* outcome of a provision: what each revision leaves out.
Seeded(r, c) ==
    [servers |-> IF r = "A" THEN c.servers ELSE {},
     projects |-> IF r = "C" THEN {} ELSE c.projects]

\* Mutant: the record keeps the revision it has.
KeepRevision(r, c) ==
    [revision |-> IF record = None THEN r ELSE record.revision, servers |-> c.servers]

RecordOf(r, c) == [revision |-> r, servers |-> c.servers]

\* A configuration that does not parse is refused and writes nothing.
Provision ==
    /\ native # None
    /\ config' = Seeded(revision, native) /\ record' = RecordOf(revision, native)
    /\ origin' = [root |-> selector, binding |-> binding] /\ link' = selector
    /\ UNCHANGED <<native, revision, selector, binding>>

\* outcome of every other operation: what is reported, of the record alone.
SeedStatus ==
    CASE record = None -> "mcp_seed_unstripped"
      [] record # None /\ record.servers = {} -> "none"
      [] record # None /\ record.servers # {} ->
            IF record.revision = "A" THEN "mcp_seed_unstripped" ELSE "mcp_native_servers_not_inherited"

EditNative(c) == native' = c /\ UNCHANGED <<config, record, revision, root>>
Upgrade(r) == revision' = r /\ UNCHANGED <<native, config, record, root>>

--------------------------------------------------------------------------------
\* Mutant: the root named today decides.
SelectorRules ==
    CASE origin = None -> "environment_provisioning_origin_required"
      [] origin # None /\ link \notin {None, selector} -> "environment_credential_conflict"
      [] origin # None /\ link \in {None, selector} ->
            IF link = None THEN "environment_home_stale" ELSE "ok"

\* authority, without repair.
Authority ==
    CASE origin = None -> "environment_provisioning_origin_required"
      [] origin # None /\ origin.binding # binding -> "environment_provisioning_origin_invalid"
      [] origin # None /\ origin.binding = binding ->
            IF link \notin {None, origin.root} THEN "environment_credential_conflict"
            ELSE IF link = None THEN "environment_home_stale" ELSE "ok"

\* With repair a missing link is made anew, to the recorded root.
Repair ==
    /\ Authority = "environment_home_stale" /\ link' = origin.root
    /\ UNCHANGED <<seed, selector, origin, binding>>

MoveSelector(r) == selector' = r /\ UNCHANGED <<seed, origin, link, binding>>
Relink(r) == config # None /\ link' = r /\ UNCHANGED <<seed, selector, origin, binding>>
Rebind(b) == binding' = b /\ UNCHANGED <<seed, selector, origin, link>>

Next ==
    \/ Provision \/ Repair
    \/ \E c \in Configs \union {None} : EditNative(c)
    \/ \E r \in Revisions : Upgrade(r)
    \/ \E r \in Roots : MoveSelector(r)
    \/ \E r \in Roots \union {None} : Relink(r)
    \/ \E b \in Bindings : Rebind(b)

Spec == Init /\ [][Next]_vars

--------------------------------------------------------------------------------
TypeOK ==
    /\ native \in Configs \union {None} /\ config \in Configs \union {None}
    /\ record = None \/ (record.revision \in Revisions /\ record.servers \subseteq Servers)
    /\ origin \in Origins \union {None} /\ link \in Roots \union {None}
    /\ selector \in Roots /\ binding \in Bindings /\ revision \in Revisions

\* A home that is said to inherit no server has none, whatever revisions of the
\* rule it was provisioned under and whatever the native file says by now.
StrippedIsStripped ==
    config # None /\ config.servers # {} => SeedStatus = "mcp_seed_unstripped"

\* A home whose link is found in order uses the root it was provisioned from, and
\* a repair leads there, wherever the selector points by now.
LinkLeadsHome ==
    /\ Authority = "ok" => link = origin.root
    /\ origin # None /\ origin.binding = binding /\ link = origin.root => Authority = "ok"
================================================================================
