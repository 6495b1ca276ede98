------------------------------- MODULE SkillPlans ------------------------------
(* The skill plan of tools/profile_skill_plan.py: a lock carries the closure   *)
(* of skills its contexts require, and every operation reads it against what   *)
(* is declared, admitted and observed by then, before it activates anything.   *)
(*                                                                            *)
(* A source and its directory are fixed per skill, so a pin is a commit.  The  *)
(* digests of the lock always fit it: whoever changes it binds it again.       *)
(* Order, schemas, case folding, the routing proof, the companions' records   *)
(* and the drift report are left out.                                          *)
EXTENDS Functions

CONSTANTS
    Skills, Commits,
    Contexts,       \* the requirement sets the lock's contexts may have
    Content,        \* skill -> commit -> [requires, exports] of its snapshot
    First,          \* snapshots admitted at first
    Declared,       \* skills the machine may declare
    RetainedCommands,       \* command -> provider, of what the machine keeps besides
    Unmanaged,      \* commands something else has put in place
    Reserved,       \* commands of the curator's own
    None

Modes == {"full", "context", "runtime"}
\* ref: how the requirement names the commit; commands: named ones, or None.
Requirements == [provider : Skills, commit : Commits, mode : Modes, ref : {"tag", "revision"},
                 commands : (SUBSET UNION {Content[s][c].exports : s \in Skills, c \in Commits}) \union {None}]
SkillAssumption ==
    /\ First \subseteq [Skills -> Commits] /\ Declared \subseteq Skills
    /\ Content \in [Skills -> [Commits -> [requires : SUBSET Requirements, exports : SUBSET STRING]]]
    /\ Contexts \subseteq SUBSET Requirements /\ None \notin Commits
Machine == "machine"
Context == "context"
Phases == {"absent", "preparing", "prepared", "committing", "cleanup", "rolling_back", "rollback_cleanup"}

VARIABLES
    roots,      \* the requirements of the contexts
    admitted,   \* skill -> the commit of the snapshot admitted
    retagged,   \* a skill whose tag is seen elsewhere than admitted, or None
    direct,     \* skill -> the commit the machine declares, or None
    lock,       \* None, or [nodes, edges, constraints, members]
    phase,      \* of the journal
    pending,    \* the lock an interrupted operation was publishing, or None
    records     \* the plan the records and the runtime show, or None

vars == <<roots, admitted, retagged, direct, lock, phase, pending, records>>
facts == <<roots, admitted, retagged, direct>>

Edge(consumer, r) ==
    [consumer |-> consumer, provider |-> r.provider, ref |-> r.ref, mode |-> r.mode, commands |-> r.commands]
Required(s) == Content[s][admitted[s]].requires
Pinned(nodes, r) == r.provider \in DOMAIN nodes /\ nodes[r.provider] = r.commit

Needs(s) == {r.provider : r \in Required(s)}

\* What visit reaches from some skills: they and, of everything in it, all it needs.
ReachedFrom(first) ==
    {s \in Skills : \A all \in SUBSET Skills :
        first \subseteq all /\ (\A x \in all : Needs(x) \subseteq all) => s \in all}
Visited == ReachedFrom({r.provider : r \in roots})
Above(s) == ReachedFrom(Needs(s))
VisitFails(nodes) ==
    \/ \E s \in Visited : s \in Above(s)
    \/ \E r \in roots \union UNION {Required(s) : s \in Visited} : ~Pinned(nodes, r)
DirectEdge(s) == [consumer |-> Machine, provider |-> s, ref |-> "revision", mode |-> "full", commands |-> None]
Edges(nodes) ==
    {Edge(Context, r) : r \in roots}
    \union UNION {{Edge(s, r) : r \in Required(s)} : s \in Visited}
    \union {DirectEdge(s) : s \in {x \in DOMAIN nodes : direct[x] # None}}
RequiredBy(edges, s) == {e.consumer : e \in {x \in edges : x.provider = s}} \ {Machine}

\* Mutant: whatever else the plan names is left in it.
ReachedAtLeast(nodes) == Visited \subseteq DOMAIN nodes
Reached(nodes) == DOMAIN nodes = Visited

\* plan_error, in the order of its checks.
PlanError(l) ==
    CASE l = None -> "profile_skill_plan_required"
      [] OTHER ->
        LET directs == {s \in DOMAIN l.nodes : direct[s] # None} IN
        IF \E s \in directs : direct[s] # l.nodes[s] THEN "profile_skill_pin_conflict"
        ELSE IF \/ l.constraints # [s \in directs |-> direct[s]]
                \/ VisitFails(l.nodes) \/ ~Reached(l.nodes) \/ l.edges # Edges(l.nodes)
                \/ DOMAIN l.members # DOMAIN l.nodes
                \/ \E s \in DOMAIN l.nodes : l.nodes[s] # admitted[s]
                                             \/ l.members[s] # [commit |-> l.nodes[s], by |-> RequiredBy(l.edges, s)]
             THEN "profile_skill_plan_invalid"
        ELSE IF \E e \in l.edges : e.ref = "tag" /\ retagged = e.provider
             THEN "profile_skill_pin_changed"
        ELSE IF \E e \in l.edges : e.commands # None
                    /\ ~(e.commands \subseteq Content[e.provider][admitted[e.provider]].exports)
             THEN "profile_skill_command_invalid"
        ELSE "none"

\* What the edges of a plan turn on in a provider.
Activation(l) ==
    [s \in DOMAIN l.nodes |->
        LET edges == {e \in l.edges : e.provider = s}
            whole == {e \in edges : e.mode = "full" \/ (e.mode = "runtime" /\ e.commands = None)}
        IN  [context |-> \E e \in edges : e.mode \in {"full", "context"},
             commands |-> (IF whole # {} THEN Content[s][l.nodes[s]].exports ELSE {})
                          \union UNION {e.commands : e \in {x \in edges : x.mode = "runtime" /\ x.commands # None}}]]

\* The commands of a plan in the way of one another or of what is there.
Clash(l) ==
    LET active == Activation(l) IN
    \E s \in DOMAIN active : \E c \in active[s].commands :
        \/ c \in Reserved \union Unmanaged
        \/ \E t \in DOMAIN active \ {s} : c \in active[t].commands
        \/ c \in DOMAIN RetainedCommands /\ RetainedCommands[c] # s

--------------------------------------------------------------------------------
Init ==
    /\ roots \in Contexts /\ admitted \in First /\ retagged = None
    /\ direct = [s \in Skills |-> None] /\ lock = None /\ phase = "absent" /\ pending = None
    /\ records = None

Compose(r) ==
    /\ roots' = r
    /\ UNCHANGED <<admitted, retagged, direct, lock, phase, pending, records>>

Declare(s, c) ==
    /\ direct' = [direct EXCEPT ![s] = c]
    /\ UNCHANGED <<roots, admitted, retagged, lock, phase, pending, records>>

Admit(s, c) ==
    /\ admitted' = [admitted EXCEPT ![s] = c] /\ retagged' = None
    /\ UNCHANGED <<roots, direct, lock, phase, pending, records>>

MoveTag(s) ==
    /\ retagged' = s
    /\ UNCHANGED <<roots, admitted, direct, lock, phase, pending, records>>

\* The plan of what is there now.
Derived ==
    LET nodes == [s \in Visited |-> admitted[s]] IN
    [nodes |-> nodes, edges |-> Edges(nodes),
     constraints |-> [s \in {x \in Visited : direct[x] # None} |-> direct[s]],
     members |-> [s \in Visited |-> [commit |-> admitted[s], by |-> RequiredBy(Edges(nodes), s)]]]
Resolve == lock' = Derived /\ UNCHANGED <<facts, phase, pending, records>>

\* Between operations someone edits a plan that was right: takes a skill out, puts one in or changes an edge.
EditOut(s) ==
    /\ phase = "absent" /\ lock = Derived
    /\ lock' = [lock EXCEPT !.nodes = Restrict(@, DOMAIN @ \ {s}), !.members = Restrict(@, DOMAIN @ \ {s}),
                            !.edges = {x \in @ : s \notin {x.provider, x.consumer}}]
    /\ UNCHANGED <<facts, phase, pending, records>>

With(f, s, x) == [t \in DOMAIN f \union {s} |-> IF t = s THEN x ELSE f[t]]
EditNode(s, c) ==
    /\ phase = "absent" /\ lock = Derived
    /\ lock' = [lock EXCEPT !.nodes = With(@, s, c),
                            !.members = With(@, s, [commit |-> c, by |-> RequiredBy(lock.edges, s)])]
    /\ UNCHANGED <<facts, phase, pending, records>>

EditEdge(e) ==
    /\ phase = "absent" /\ lock = Derived
    /\ lock' = [lock EXCEPT !.edges = (@ \ {e}) \union {[e EXCEPT !.mode = "full"]}]
    /\ UNCHANGED <<facts, phase, pending, records>>

Admissible(l) == PlanError(l) = "none" /\ ~Clash(l)

\* outcome: an operation publishes the plan; what an adapter then makes of the
\* routing is left out.  Or a crash leaves its journal behind.
Operate ==
    /\ phase = "absent" /\ Admissible(lock)
    /\ records' = lock
    /\ UNCHANGED <<facts, lock, phase, pending>>

Interrupt(p) ==
    /\ phase = "absent" /\ Admissible(lock)
    /\ phase' = p /\ pending' = lock
    /\ UNCHANGED <<facts, lock, records>>

\* Recovery reads the plan it finds as an operation does.
Recover ==
    /\ phase # "absent" /\ Admissible(pending)
    /\ records' = IF phase \in {"prepared", "committing", "cleanup"} THEN pending ELSE records
    /\ phase' = "absent" /\ pending' = None
    /\ UNCHANGED <<facts, lock>>

Next ==
    \/ \E s \in Skills :
        \/ s \in Declared /\ \E c \in Commits \union {None} : Declare(s, c)
        \/ \E c \in Commits : Admit(s, c) \/ EditNode(s, c)
        \/ MoveTag(s) \/ EditOut(s)
    \/ \E r \in Contexts : Compose(r)
    \/ Resolve
    \/ lock # None /\ \E e \in lock.edges : EditEdge(e)
    \/ Operate
    \/ \E p \in Phases \ {"absent"} : Interrupt(p)
    \/ Recover

Spec == Init /\ [][Next]_vars
--------------------------------------------------------------------------------
PlanIsShaped(l) ==
    /\ DOMAIN l.nodes \subseteq Skills /\ DOMAIN l.members \subseteq Skills
    /\ \A s \in DOMAIN l.nodes : l.nodes[s] \in Commits

TypeOK ==
    /\ admitted \in [Skills -> Commits] /\ retagged \in Skills \union {None}
    /\ direct \in [Skills -> Commits \union {None}] /\ phase \in Phases
    /\ \A l \in {lock, pending, records} \ {None} : PlanIsShaped(l)
    /\ pending = None <=> phase = "absent"

\* Whatever was edited in a lock, declared, admitted or retagged since it was
\* resolved, and however an operation was interrupted and recovered: what is
\* published is the plan that resolving at that moment would write.
PublishesDerived ==
    [][records' # records => records' = Derived]_vars
================================================================================
