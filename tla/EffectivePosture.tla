--------------------------- MODULE EffectivePosture ---------------------------
(* A launch is prepared with a record of the posture it will have, and admitted by    *)
(* comparing that record with what is in force at admission (tools/                    *)
(* effective_posture.py, relation_verdict).  In between the project, the permission,    *)
(* the binding, the native policy, the provider, its qualification, the approval and     *)
(* the lease can move.  A digest is the record it is of.                                  *)
EXTENDS Naturals

CONSTANTS
    Launches, \* launches, one record each
    MaxMoves, \* bound: changes of what is in force
    None

MovesAssumption == MaxMoves \in Nat /\ None # "admit"

VARIABLES
    force,    \* what is in force: [project, permission, binding, policy, provider, qualification, lane]
    lease,    \* of the home: [phase, holder, revision, binding, provider], or None
    record,   \* what each launch was prepared with, or None
    verdict,  \* what admission said of each launch at its last try, until something moves
    moves
vars == <<force, lease, record, verdict, moves>>

--------------------------------------------------------------------------------
Project(mode, noTools) == [mode |-> mode, noTools |-> noTools]
Projects == {Project("none", FALSE), Project("strict", FALSE), Project("strict", TRUE), Project("native-project", FALSE)}
Permission(mode, source) == [mode |-> mode, source |-> source]
Permissions == {Permission("yolo", "default"), Permission("yolo", "explicit"), Permission("native", "explicit")}
Policy(inspection, uninspected, relaxed) ==
    [inspection |-> inspection, uninspected |-> uninspected, relaxed |-> relaxed]
Policies == {Policy("complete", FALSE, FALSE), Policy("complete", FALSE, TRUE), Policy("partial", TRUE, FALSE)}
Qualification(provider, modes, noTools, state) ==
    [provider |-> provider, modes |-> modes, noTools |-> noTools, state |-> state, suffixes |-> {"plain"}]
Qualifications ==
    {Qualification(1, {"none", "strict"}, FALSE, "qualified"), Qualification(2, {"none", "strict"}, TRUE, "qualified"),
     Qualification(1, {"none", "strict"}, FALSE, "withdrawn")}
Lanes == [approved : BOOLEAN, permissions : {"yolo", "native"}]

\* The launcher's own state for a launch, which the record names by its digest.
LauncherState(l, binding) == [launch |-> l, binding |-> binding]
Lease(phase, l, revision, f) ==
    [phase |-> phase, holder |-> l, revision |-> revision, binding |-> f.binding, provider |-> f.provider]

Prepared(l, f, route, suffix) ==
    [project |-> f.project, permission |-> f.permission, binding |-> f.binding,
     policy |-> f.policy, provider |-> f.provider, qualification |-> f.qualification,
     suffix |-> suffix, route |-> route, state |-> LauncherState(l, f.binding),
     lease |-> IF route = "native" THEN None ELSE lease]

--------------------------------------------------------------------------------
Downgraded(p, f) == p.project # f.project \/ p.permission # f.permission
Bypasses(p) == p.project.mode # "none" /\ p.permission.mode = "yolo"

QualificationStanding(p, f) == f.qualification.state = "qualified" /\ p.provider = f.provider
QualificationHolds(p, f) ==
    /\ p.qualification = f.qualification
    /\ p.provider = f.provider /\ p.provider = f.qualification.provider

Uninspected(p) ==
    \/ p.policy.inspection = "unsupported"
    \/ p.policy.inspection = "complete" /\ p.policy.uninspected
    \/ p.permission.mode = "native" /\ (p.policy.inspection # "complete" \/ p.policy.uninspected)

\* What admission is told of the lease: a native launch has none of its own.
LeaseShown(l, p) ==
    IF p.route = "native" /\ lease # None /\ lease.holder # l THEN None ELSE lease
LeaseOfHolder(l, p, shown) == p.lease # None /\ shown.holder = l /\ shown.binding = p.binding
LeaseHolds(l, p, shown) ==
    /\ shown = p.lease /\ shown.holder = l
    /\ shown.binding = p.binding /\ shown.provider = p.provider

\* The first of these that holds is the code; nothing after it is looked at.
Verdict(l, p, f) ==
    LET shown == LeaseShown(l, p) IN
    IF Downgraded(p, f) THEN "posture_downgrade"
    ELSE IF p.permission.source = "default" /\ p.permission.mode # "yolo" THEN "posture_default_conflict"
    ELSE IF Bypasses(p) THEN "posture_isolation_bypass"
    ELSE IF p.binding # f.binding THEN "posture_binding_stale"
    ELSE IF p.policy # f.policy THEN "posture_policy_changed"
    ELSE IF p.qualification.state # "qualified" \/ f.qualification.state # "qualified" THEN "posture_unqualified"
    ELSE IF ~QualificationHolds(p, f) THEN "posture_qualification_mismatch"
    ELSE IF p.project.mode \notin f.qualification.modes THEN
             IF p.project.mode = "strict" THEN "posture_strict_unsupported" ELSE "posture_mode_unsupported"
    ELSE IF p.project.noTools /\ ~f.qualification.noTools THEN "posture_no_tools_unsupported"
    ELSE IF Uninspected(p) THEN "posture_policy_uninspected"
    ELSE IF p.permission.mode = "native" /\ p.policy.relaxed THEN "posture_policy_relaxed"
    ELSE IF ~f.lane.approved \/ f.lane.permissions # p.permission.mode THEN "posture_lane_unapproved"
    ELSE IF p.suffix \notin f.qualification.suffixes THEN "posture_suffix_conflict"
    ELSE IF p.state # LauncherState(l, p.binding) THEN "posture_provenance_mismatch"
    ELSE IF p.route = "native" THEN IF shown = None THEN "admit" ELSE "posture_provenance_mismatch"
    ELSE IF shown = None \/ shown.phase # "prepared" THEN "posture_lease_unavailable"
    ELSE IF LeaseHolds(l, p, shown) THEN "admit" ELSE "posture_provenance_mismatch"

--------------------------------------------------------------------------------
Forces ==
    [project : Projects, permission : Permissions, binding : Nat, policy : Policies,
     provider : 1 .. 2, qualification : Qualifications, lane : Lanes]
TypeOK ==
    /\ force \in Forces /\ moves \in 0 .. MaxMoves
    /\ lease # None => lease.phase \in {"prepared", "active"} /\ lease.holder \in Launches
    /\ DOMAIN record = Launches /\ DOMAIN verdict = Launches

Init ==
    /\ force \in [project : {Project("none", FALSE), Project("strict", TRUE)}, permission : Permissions,
                  binding : {0}, policy : {Policy("complete", FALSE, FALSE)}, provider : 1 .. 2,
                  qualification : Qualifications, lane : Lanes]
    /\ force.qualification.state = "qualified" /\ force.qualification.provider = force.provider
    /\ force.lane = [approved |-> TRUE, permissions |-> force.permission.mode]
    /\ force.project.mode = "none" <=> force.permission.source = "default"
    /\ force.permission.mode = "native" \/ force.permission.source = "default"
    /\ lease = None /\ moves = 0
    /\ record = [l \in Launches |-> None] /\ verdict = [l \in Launches |-> None]

Unjudged == [l \in Launches |-> None]

\* Operators, upgrades and other launches.
Move(f) ==
    /\ moves < MaxMoves /\ moves' = moves + 1 /\ force' = f /\ verdict' = Unjudged
    /\ UNCHANGED <<lease, record>>
Acquire(l) ==
    /\ lease = None /\ moves < MaxMoves /\ moves' = moves + 1
    /\ lease' = Lease("prepared", l, moves, force) /\ verdict' = Unjudged
    /\ UNCHANGED <<force, record>>
Activate ==
    /\ lease # None /\ lease.phase = "prepared" /\ verdict[lease.holder] = "admit"
    /\ lease' = [lease EXCEPT !.phase = "active"] /\ verdict' = Unjudged
    /\ UNCHANGED <<force, record, moves>>
Release ==
    /\ lease # None /\ lease' = None /\ verdict' = Unjudged
    /\ UNCHANGED <<force, record, moves>>
Prepare(l, route, suffix) ==
    /\ route = "hosted" => lease # None
    /\ record' = [record EXCEPT ![l] = Prepared(l, force, route, suffix)]
    /\ verdict' = [verdict EXCEPT ![l] = None]
    /\ UNCHANGED <<force, lease, moves>>

Admit(l) ==
    /\ record[l] # None
    /\ verdict' = [verdict EXCEPT ![l] = Verdict(l, record[l], force)]
    /\ UNCHANGED <<force, lease, record, moves>>

Next ==
    \/ \E x \in Projects : Move([force EXCEPT !.project = x])
    \/ \E x \in Permissions : Move([force EXCEPT !.permission = x])
    \/ \E x \in Policies : Move([force EXCEPT !.policy = x])
    \/ \E x \in Qualifications : Move([force EXCEPT !.qualification = x])
    \/ \E x \in Lanes : Move([force EXCEPT !.lane = x])
    \/ \E x \in 1 .. 2 : Move([force EXCEPT !.provider = x])
    \/ Move([force EXCEPT !.binding = @ + 1])
    \/ Activate \/ Release
    \/ \E l \in Launches :
           \/ Acquire(l) \/ Admit(l)
           \/ \E route \in {"native", "hosted"}, suffix \in {"plain", "overriding"} : Prepare(l, route, suffix)

--------------------------------------------------------------------------------
\* A launch is admitted only if preparing it now would make the same record: nothing
\* it was prepared from has moved, and its lease is the one it was given, not used yet.
StillAsPrepared ==
    \A l \in Launches : verdict[l] = "admit" =>
        /\ record[l] = Prepared(l, force, record[l].route, record[l].suffix)
        /\ record[l].route = "hosted" => lease.holder = l /\ lease.phase = "prepared"

\* No admission is weaker than the project asked: isolation is never with every
\* permission, and the provider it runs on is known to keep the project apart.
AdmittedAsAsked ==
    \A l \in Launches : verdict[l] = "admit" =>
        /\ force.project.mode # "none" =>
               /\ force.permission.mode # "yolo" /\ ~force.policy.relaxed /\ ~force.policy.uninspected
        /\ force.qualification.provider = force.provider /\ force.lane.approved
        /\ force.project.noTools => force.qualification.noTools
===============================================================================
