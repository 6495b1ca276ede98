------------------------------ MODULE CommandRoots -----------------------------
(* Command roots of tools/profile_command_roots.py: a generation is built,     *)
(* published through a journal that a crash may leave in any phase, repaired,  *)
(* launched from, and collected once nothing retains it.  Its files may be     *)
(* changed from outside at any time, and every hook and launch checks them.    *)
(*                                                                            *)
(* A digest is the bytes it is of.  Bytes forward to a file of the generation  *)
(* or are code.  Schemas, names, path lengths and size caps are not modelled;  *)
(* owners and modes are one flag.  The journal's phases follow each other as   *)
(* protocol/profile-skill-plan-proposal.md says; running processes, their      *)
(* descendants and tampering are the environment's.                            *)
EXTENDS Naturals, Sequences, FiniteSets, Functions

CONSTANTS
    Commands, Generations, Sessions,
    Codes,          \* what an executable may be
    Hops,           \* names of files in a generation, for every command
    Plans,          \* what a generation may be built from
    First,          \* command -> the hop its name resolves to
    Tampered,       \* what a file may be changed into
    MaxBoots,       \* bound on restarts of the machine
    None

Bytes == [to : Hops \union {None}, code : Codes \union {None}]
Files == [bytes : Bytes, object : {"own", "other"}, protected : BOOLEAN, links : 1 .. 2]
HopRecords == [hop : Hops, bytes : Bytes, kind : {"forwarder", "executable"}, target : Hops \union {None}]
Parts == {"records", "runtime"}
Phases == {"preparing", "prepared", "committing", "cleanup", "rolling_back", "rollback_cleanup"}
Pins == [generation : Generations, boot : Nat]
Journals == [phase : Phases \union {"repairing"}, before : [Parts -> Generations],
             staged : [Parts -> Generations], edges : [Sessions -> Pins \union {None}]]
\* inventory: command -> its chain of hops; receipt: command -> its executable.
PlansAssumption ==
    /\ Plans \subseteq [inventory : [Commands -> Seq(HopRecords) \ {<<>>}], receipt : [Commands -> Codes]]
    /\ MaxBoots \in Nat /\ None \notin Generations \union Codes \union Hops /\ None \notin Plans
    /\ None \notin Pins /\ None \notin Journals
    /\ First \in [Commands -> Hops] /\ Tampered \subseteq Files

VARIABLES
    plan,       \* generation -> the plan its trusted documents pin, or None
    files,      \* generation -> hop -> file or None
    foreign,    \* generations whose documents or root are not those pinned
    disk,       \* generations that are there, as far as anything retains them
    live,       \* part -> generation
    journal,    \* None, or [phase, before, staged, edges]
    pins,       \* session -> None, or its pin [generation, boot]
    processes,  \* session -> the generation it runs from and what runs
    boot,       \* incarnation of the machine
    reference   \* the generation a persistent reference keeps, or None

vars == <<plan, files, foreign, disk, live, journal, pins, processes, boot, reference>>
root == <<plan, files, foreign>>

Fresh(bytes) == [bytes |-> bytes, object |-> "own", protected |-> TRUE, links |-> 1]
Recorded(p) == UNION {Range(p.inventory[c]) : c \in Commands}
ChainHops(p) == {r.hop : r \in Recorded(p)}
RecordOf(p, h) == CHOOSE r \in Recorded(p) : r.hop = h
Built(p) == [h \in Hops |-> IF h \in ChainHops(p) THEN Fresh(RecordOf(p, h).bytes) ELSE None]
Bare == [h \in Hops |-> None]
Nothing == [from |-> None, alive |-> {}]

Init ==
    /\ \E g \in Generations, p \in Plans :
        /\ plan = [x \in Generations |-> IF x = g THEN p ELSE None]
        /\ files = [x \in Generations |-> IF x = g THEN Built(p) ELSE Bare]
        /\ disk = {g} /\ live = [x \in Parts |-> g]
    /\ foreign = {} /\ journal = None /\ boot = 0 /\ reference = None
    /\ pins = [s \in Sessions |-> None]
    /\ processes = [s \in Sessions |-> Nothing]
--------------------------------------------------------------------------------
\* Anything may happen to a file, one at a time.
Pristine == foreign = {} /\ \A g \in disk : files[g] = Built(plan[g])

Tamper(g, h, f) ==
    /\ Pristine /\ g \in disk /\ files[g][h] # None
    /\ files' = [files EXCEPT ![g][h] = f]
    /\ UNCHANGED <<plan, foreign, disk, live, journal, pins, processes, boot, reference>>

Substitute(g) ==
    /\ Pristine /\ g \in disk /\ foreign' = {g}
    /\ UNCHANGED <<plan, files, disk, live, journal, pins, processes, boot, reference>>

\* The marker, receipt, inventory and root are the pinned ones, and the files are
\* the ones the inventory names.
DocumentsHold(g) == g \notin foreign /\ {h \in Hops : files[g][h] # None} = ChainHops(plan[g])

FileHolds(f, r) == f # None /\ f.links = 1 /\ f.protected /\ f.object = "own" /\ f.bytes = r.bytes

\* Mutant: a hop's bytes are what was recorded, wherever they forward to.
AnyForwarder(chain, i) == TRUE
\* Every hop but the last forwards to the next, in its record and in its bytes.
Forwards(chain, i) ==
    LET r == chain[i]
        terminal == i = Len(chain)
    IN  /\ r.kind = IF terminal THEN "executable" ELSE "forwarder"
        /\ r.target = IF terminal THEN None ELSE chain[i + 1].hop
        /\ ~terminal => r.bytes = [to |-> chain[i + 1].hop, code |-> None]

\* root_check's loop for one command.
ChainHolds(g, c) ==
    LET chain == plan[g].inventory[c] IN
    /\ Cardinality({chain[i].hop : i \in DOMAIN chain}) = Len(chain)
    /\ chain[1].hop = First[c]
    /\ \A i \in DOMAIN chain : FileHolds(files[g][chain[i].hop], chain[i]) /\ Forwards(chain, i)
    /\ chain[Len(chain)].bytes = [to |-> None, code |-> plan[g].receipt[c]]

\* root_check with selected, and for all commands.
HookCheck(g, c) == plan[g] # None /\ DocumentsHold(g) /\ ChainHolds(g, c)
RootCheck(g) == \A c \in Commands : HookCheck(g, c)
--------------------------------------------------------------------------------
\* A new generation is built beside the live one.
Begin(g) ==
    /\ journal = None /\ g \notin disk
    /\ journal' = [phase |-> "preparing", before |-> live, staged |-> [x \in Parts |-> g], edges |-> pins]
    /\ UNCHANGED <<root, disk, live, pins, processes, boot, reference>>

Stage(p) ==
    /\ journal # None /\ journal.phase = "preparing"
    /\ LET g == journal.staged["runtime"] IN
        /\ plan' = [plan EXCEPT ![g] = p] /\ files' = [files EXCEPT ![g] = Built(p)]
        /\ foreign' = foreign \ {g} /\ disk' = disk \union {g}
    /\ journal' = [journal EXCEPT !.phase = "prepared"]
    /\ UNCHANGED <<live, pins, processes, boot, reference>>

\* The phases replace the live parts one at a time.
CommitPart(x) ==
    /\ journal # None /\ journal.phase \in {"prepared", "committing"} /\ live[x] # journal.staged[x]
    /\ live' = [live EXCEPT ![x] = journal.staged[x]]
    /\ journal' = [journal EXCEPT !.phase = IF live' = journal.staged THEN "cleanup" ELSE "committing"]
    /\ UNCHANGED <<root, disk, pins, processes, boot, reference>>

GiveUp ==
    /\ journal # None /\ journal.phase \in {"preparing", "prepared", "committing"}
    /\ journal' = [journal EXCEPT !.phase = "rolling_back"]
    /\ UNCHANGED <<root, disk, live, pins, processes, boot, reference>>

RestorePart(x) ==
    /\ journal # None /\ journal.phase = "rolling_back" /\ live[x] # journal.before[x]
    /\ live' = [live EXCEPT ![x] = journal.before[x]]
    /\ UNCHANGED <<root, disk, journal, pins, processes, boot, reference>>

Finish ==
    /\ journal # None
    /\ \/ journal.phase = "cleanup" /\ journal' = None
       \/ journal.phase = "rolling_back" /\ live = journal.before
          /\ journal' = [journal EXCEPT !.phase = "rollback_cleanup"]
       \/ journal.phase = "rollback_cleanup" /\ journal' = None
    /\ UNCHANGED <<root, disk, live, pins, processes, boot, reference>>

\* Mutant: a journal that was only being prepared is completed.
OutcomeOfAny(phase) ==
    IF phase \in {"rolling_back", "rollback_cleanup"} THEN "all-preimages-old" ELSE "complete-new"

\* transaction, by the phase a crash left.
Outcome(phase) ==
    CASE phase \in {"prepared", "committing", "cleanup"} -> "complete-new"
      [] phase \in {"preparing", "rolling_back", "rollback_cleanup"} -> "all-preimages-old"

\* The machine stops and comes back; what ran is gone, pins are not.
Crash ==
    /\ boot < MaxBoots /\ boot' = boot + 1
    /\ processes' = [s \in Sessions |-> Nothing]
    /\ UNCHANGED <<root, disk, live, journal, pins, reference>>

Recover ==
    /\ journal # None /\ journal.phase \in Phases
    /\ live' = IF Outcome(journal.phase) = "complete-new" THEN journal.staged ELSE journal.before
    /\ journal' = None
    /\ UNCHANGED <<root, disk, pins, processes, boot, reference>>
--------------------------------------------------------------------------------
\* launcher_check: the whole root, and a pin the manager itself observes.
Launch(s, g) ==
    /\ pins[s] = None /\ g = live["runtime"] /\ g \in disk /\ RootCheck(g)
    /\ pins' = [pins EXCEPT ![s] = [generation |-> g, boot |-> boot]]
    /\ processes' = [processes EXCEPT ![s] = [from |-> g, alive |-> {"main"}]]
    /\ UNCHANGED <<root, disk, live, journal, boot, reference>>

Spawn(s) ==
    /\ processes[s].alive = {"main"}
    /\ processes' = [processes EXCEPT ![s].alive = {"main", "descendant"}]
    /\ UNCHANGED <<root, disk, live, journal, pins, boot, reference>>

Exit(s, x) ==
    /\ x \in processes[s].alive /\ processes' = [processes EXCEPT ![s].alive = @ \ {x}]
    /\ UNCHANGED <<root, disk, live, journal, pins, boot, reference>>

\* Mutant: a release takes the end of the process for the end of the session.
MainIsGone(s) == "main" \notin processes[s].alive
\* observer_confirmed and descendants_quiescent.
Quiescent(s) == processes[s].alive = {}

\* session_check: a release, or a break by an operator who fenced the session.
Release(s) ==
    /\ pins[s] # None /\ Quiescent(s)
    /\ pins' = [pins EXCEPT ![s] = None]
    /\ UNCHANGED <<root, disk, live, journal, processes, boot, reference>>

Break(s) ==
    /\ pins[s] # None
    /\ processes' = [processes EXCEPT ![s] = Nothing]
    /\ pins' = [pins EXCEPT ![s] = None]
    /\ UNCHANGED <<root, disk, live, journal, boot, reference>>

Retain(g) ==
    /\ reference = None /\ g = live["runtime"] /\ reference' = g
    /\ UNCHANGED <<root, disk, live, journal, pins, processes, boot>>

Drop ==
    /\ reference # None /\ reference' = None
    /\ UNCHANGED <<root, disk, live, journal, pins, processes, boot>>

\* lifecycle: what keeps a generation.
Retained(g) ==
    \/ reference = g \/ \E s \in Sessions : pins[s] # None /\ pins[s].generation = g
    \/ \E x \in Parts : live[x] = g
    \/ journal # None /\ \E x \in Parts : g \in {journal.before[x], journal.staged[x]}

Collect(g) ==
    /\ g \in disk /\ ~Retained(g)
    /\ disk' = disk \ {g} /\ plan' = [plan EXCEPT ![g] = None]
    /\ files' = [files EXCEPT ![g] = Bare] /\ foreign' = foreign \ {g}
    /\ UNCHANGED <<live, journal, pins, processes, boot, reference>>
--------------------------------------------------------------------------------
\* transaction, explicit-repair: the same inputs are staged as a fresh generation,
\* with the edges as they are then.
StageRepair(g) ==
    /\ journal = None /\ g \notin disk /\ live["records"] = live["runtime"]
    /\ LET old == live["runtime"] IN
        /\ plan' = [plan EXCEPT ![g] = plan[old]] /\ files' = [files EXCEPT ![g] = Built(plan[old])]
        /\ disk' = disk \union {g}
    /\ journal' = [phase |-> "repairing", before |-> live, staged |-> [x \in Parts |-> g], edges |-> pins]
    /\ UNCHANGED <<foreign, live, pins, processes, boot, reference>>

\* It is published whole, and only while the edges are as they were staged.
EdgesUnchanged == journal.edges = pins
Unknown(s) == pins[s] # None /\ pins[s].boot # boot

PublishRepair(confirmed) ==
    /\ journal # None /\ journal.phase = "repairing" /\ EdgesUnchanged
    /\ confirmed \/ \A s \in Sessions : ~Unknown(s)
    /\ live' = journal.staged /\ journal' = None
    /\ UNCHANGED <<root, disk, pins, processes, boot, reference>>

AbandonRepair ==
    /\ journal # None /\ journal.phase = "repairing" /\ journal' = None
    /\ UNCHANGED <<root, disk, live, pins, processes, boot, reference>>

Next ==
    \/ \E g \in Generations :
        \/ \E h \in Hops, f \in Tampered : Tamper(g, h, f)
        \/ Substitute(g) \/ Begin(g) \/ Retain(g) \/ Collect(g) \/ StageRepair(g)
        \/ \E s \in Sessions : Launch(s, g)
    \/ \E p \in Plans : Stage(p)
    \/ \E x \in Parts : CommitPart(x) \/ RestorePart(x)
    \/ GiveUp \/ Finish \/ Crash \/ Recover \/ Drop \/ AbandonRepair
    \/ \E b \in BOOLEAN : PublishRepair(b)
    \/ \E s \in Sessions :
        \/ Spawn(s) \/ Release(s) \/ Break(s)
        \/ \E x \in {"main", "descendant"} : Exit(s, x)

Spec == Init /\ [][Next]_vars
--------------------------------------------------------------------------------
TypeOK ==
    /\ plan \in [Generations -> Plans \union {None}]
    /\ files \in [Generations -> [Hops -> Files \union {None}]]
    /\ foreign \subseteq disk /\ disk \subseteq Generations /\ live \in [Parts -> Generations]
    /\ pins \in [Sessions -> Pins \union {None}] /\ journal \in Journals \union {None}
    /\ \A s \in Sessions :
        /\ pins[s] # None => pins[s].boot \in 0 .. boot
        /\ processes[s].alive \subseteq {"main", "descendant"}

\* The hops a command leads through, by the forwarders that are really there, and
\* what it runs at the end of them.
Onward(g, h) == IF files[g][h] = None THEN {} ELSE {files[g][h].bytes.to} \ {None}
Through(g, c) ==
    {h \in Hops : \A all \in SUBSET Hops :
        First[c] \in all /\ (\A x \in all : Onward(g, x) \subseteq all) => h \in all}
Runs(g, c) ==
    {files[g][h].bytes.code : h \in {x \in Through(g, c) : files[g][x] # None /\ Onward(g, x) = {}}}

\* A command a hook was let through for runs the executable the receipt pins,
\* following the bytes that are there now, whatever was changed in the files and
\* however the inventory was put together.
PinnedCommandRuns ==
    \A g \in Generations, c \in Commands :
        HookCheck(g, c) => Runs(g, c) = {plan[g].receipt[c]}

\* Without a journal the records and the runtime are of one generation, and it is
\* whole: crashes, recoveries, rollbacks, repairs and collections leave no mixture.
RecoveredWhole ==
    journal = None =>
        /\ live["records"] = live["runtime"]
        /\ live["runtime"] \in disk /\ plan[live["runtime"]] # None

\* Whatever runs, runs from a generation that is there; so does what a reference
\* keeps, over updates, repairs and collections.
RetainedRootsStay ==
    /\ \A s \in Sessions : processes[s].alive # {} => processes[s].from \in disk
    /\ reference # None => reference \in disk
================================================================================
