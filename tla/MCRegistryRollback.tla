--------------------------- MODULE MCRegistryRollback ---------------------------
(* RegistryRollback on two records and two operations; and beside it, in           *)
(* behaviours of their own, the vectors that pin its verdicts and the other thing   *)
(* the manager takes in from outside: signed sources, for a profile of a context     *)
(* from a source the system may lock, an mcp member and a path overlay.              *)
EXTENDS RegistryRollback, TLC

CONSTANTS
    Versions,                                           \* of RegistryVectors
    Snapshot, SystemMap, Configurations, Offers, Harms,  \* of EnvironmentProfile
    Exposures, Native, Overlay, Requested

VARIABLES
    part,
    name, case,
    knobs, shipped, lock, named, harm, directory, home, seed, applied

V == INSTANCE RegistryVectors
E == INSTANCE EnvironmentProfile WITH Absent <- None

ASSUME PartsAssumption == V!VersionsAssumption /\ E!ProfileAssumption

--------------------------------------------------------------------------------
Parts == {"registry", "vectors", "profile"}
vectorVars == <<name, case>>
profileVars == <<knobs, shipped, lock, named, harm, directory, home, seed, applied>>

InitAll ==
    /\ part \in Parts /\ Init
    /\ IF part = "vectors" THEN V!Init ELSE name = None /\ case = None
    /\ IF part = "profile" THEN E!Init
       ELSE /\ knobs = None /\ shipped = None /\ lock = None /\ named = None /\ harm = None
            /\ directory = None /\ home = None /\ seed = None /\ applied = None

NextAll ==
    /\ UNCHANGED part
    /\ IF part = "registry" THEN Next ELSE UNCHANGED vars
    /\ IF part = "vectors" THEN V!Next ELSE UNCHANGED vectorVars
    /\ IF part = "profile" THEN E!Next ELSE UNCHANGED profileVars

SpecAll == InitAll /\ [][NextAll]_<<part, vars, vectorVars, profileVars>>

Symmetry == Permutations(Records) \union Permutations(Operations)

--------------------------------------------------------------------------------
\* A vector the gate admits under its name has the outcome the name promises, however
\* its inputs were rewritten.
NamesKeepTheirMeaning == part = "vectors" => V!TypeOK /\ V!NamesKeepTheirMeaning

\* Whatever a lock brings to the agent was named when it came in, and a source
\* whose list the system locks takes no candidate that list does not vouch for.
NothingNewUnseen == part = "profile" => E!TypeOK /\ E!NothingNewUnseen /\ E!LockedListHolds

\* What the status says of a profile is what its operations do, and a launch is given
\* a fragment only of bytes its lock pins, after any harm and repair.
ProfileKeepsItsWord == part = "profile" => E!RowsForetell /\ E!LaunchesWhatIsPinned

--------------------------------------------------------------------------------
Key(kind, id) == [kind |-> kind, name |-> id]
Context == Key("context", "c")  Mcp == Key("mcp", "m")  Local == Key("context", "o")

Ssh(material, comment) == [type |-> "ssh", material |-> material, comment |-> comment]
Gpg(f) == [type |-> "gpg", fingerprint |-> f]
By(signer, valid) == [signer |-> signer, valid |-> valid]
Candidate(form, version, pin, tag, commit) ==
    [form |-> form, version |-> version, pin |-> pin, tag |-> tag, commit |-> commit]
Ours == Ssh(1, "laptop")   SameKey == Ssh(1, "desktop")   Theirs == Gpg(2)

\* Pins 1 to 3 are contexts: none, then two different inventories; 4 and 5 are
\* declarations.
MCSnapshot == [x \in 1 .. 5 |->
    CASE x \in 1 .. 3 -> [modules |-> IF x = 1 THEN {} ELSE {x}, mcp |-> None]
      [] x \in 4 .. 5 -> [modules |-> {}, mcp |-> [transport |-> IF x = 4 THEN "stdio" ELSE "http", command |-> "run", args |-> <<x>>]]]

Offer(k, kind, source, candidates) ==
    [key |-> k, kind |-> kind, source |-> source, candidates |-> candidates]
MCOffers ==
    {Offer(Context, "git", "locked", <<Candidate("range", 1, 1, By(SameKey, TRUE), None),
                                       Candidate("range", 0, 2, By(Ours, TRUE), None)>>),
     Offer(Context, "git", "locked", <<Candidate("tag", 2, 2, None, By(Ours, TRUE))>>),
     Offer(Context, "git", "locked", <<Candidate("revision", 2, 3, None, By(Theirs, TRUE)),
                                       Candidate("revision", 1, 1, None, By(Ours, TRUE))>>),
     Offer(Context, "git", "locked", <<Candidate("tag", 2, 3, By(Ours, FALSE), By(Ours, TRUE))>>),
     Offer(Mcp, "git", "free", <<Candidate("tag", 1, 4, None, None)>>),
     Offer(Mcp, "git", "free", <<Candidate("tag", 1, 5, By(Theirs, TRUE), None)>>),
     Offer(Mcp, "path", None, <<Candidate("path", None, 5, None, None)>>),
     Offer(Local, "path", None, <<Candidate("path", None, 1, None, None)>>)}
Knobs(locked, machine, require) ==
    [locked |-> locked, machine |-> machine, require |-> require, allowed |-> {},
     knob |-> [kind |-> "list", names |-> {"n"}], profile |-> "s4-enforce"]
\* The system's list locked against the machine's; the machine's alone, with a list
\* of nobody; no list where one is required; and the first release's defaults.
MCConfigurations ==
    {Knobs(TRUE, "locked" :> {Theirs}, FALSE), Knobs(FALSE, "free" :> {}, TRUE),
     [Knobs(TRUE, None, TRUE) EXCEPT !.knob.kind = "null"],
     [Knobs(FALSE, None, FALSE) EXCEPT !.allowed = {"other"}, !.knob.kind = "absent", !.profile = "s4-warn"]}
MCHarms ==
    {[object |-> "store-entry", kind |-> "git", failing |-> {"pin_hash"}],
     [object |-> "store-entry", kind |-> "path", failing |-> {"ownership"}],
     [object |-> "store-root", kind |-> "git", failing |-> {"ownership"}]}
MCNative == {[others |-> {"model"}, servers |-> x] : x \in {None, {"x"}}}
MCSystemMap == "locked" :> {Ours}
================================================================================
