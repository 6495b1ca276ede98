--------------------------- MODULE ClosureResolution ---------------------------
(* The dependency resolver of tools/validate.py (resolve_closure): from what  *)
(* the machine declares, the root of a profile and its overlays, it selects   *)
(* one commit of every package the closure needs.  A loop takes the least     *)
(* name whose constraints changed, selects for it and replaces what its       *)
(* former selection required by what the new one does; there is no search.    *)
(*                                                                            *)
(* A name is its rank in the lexicographic order, a version its rank in the   *)
(* SemVer order, a range the set of versions it admits.  Sources, selected    *)
(* directories, kinds that disagree and the weights of the members come after *)
(* or beside the loop and are not modelled; nor is a package called "machine".*)
EXTENDS Naturals

CONSTANTS
    Names,      \* package names
    Versions,   \* of all packages
    Commits,    \* of any package
    Tree,       \* the working tree of a path overlay, one of them
    Machine,    \* the requirer of the machine's own declarations
    Inputs,     \* the installations resolved
    None        \* no commit, no version, no selection

Wants == [form : {"range"}, admits : SUBSET Versions]
         \union [form : {"exact"}, commit : Commits]
         \union [form : {"path", "unreadable"}]
Requirements == [on : Names, want : Wants]
Constraints == [on : Names, want : Wants, by : Names \union {Machine},
                at : Versions \union {None}]
Selections == [commit : Commits, version : Versions \union {None}]

\* tags: the commit a version tag peels to; stated: the version of the manifest
\* of a commit; a package is a skill or a context.
Installations ==
    [machine  : SUBSET Requirements,
     skills   : SUBSET Names,
     tags     : [Names -> [Versions -> Commits \union {None}]],
     stated   : [Names -> [Commits -> Versions \union {None}]],
     requires : [Names -> [Commits -> SUBSET Requirements]]]

ASSUME Ranked == Names \subseteq Nat /\ Versions \subseteq Nat
ASSUME Apart == /\ None \notin Versions \union Commits \union Selections
                /\ Machine \notin Names
ASSUME InputsAreInstallations == Tree \in Commits /\ Inputs \subseteq Installations

VARIABLES
    input,          \* the installation, never changed
    constraints,
    selected,       \* name -> its selection, or None
    ceiling,        \* name -> the version last selected for it, or None
    pending,        \* names to select again
    outcome         \* "resolving", "locked" or the diagnostic raised

vars == <<input, constraints, selected, ceiling, pending, outcome>>

Attribute(requirements, by, at) ==
    {[on |-> r.on, want |-> r.want, by |-> by, at |-> at] : r \in requirements}

\* Mutant: the requirers are taken for the required.
Requirers(cs) == {c.by : c \in cs}

Targets(cs) == {c.on : c \in cs}

On(n) == {c \in constraints : c.on = n}
Formed(n, form) == {c \in On(n) : c.want.form = form}
Readable(n) == Formed(n, "unreadable") = {}
Overlaid(n) == Formed(n, "path") # {}
Fixed(n) == {c.want.commit : c \in Formed(n, "exact")}
Admitted(n, v) == v # None /\ \A c \in Formed(n, "range") : v \in c.want.admits
\* A tag has one commit, a commit any number of tags.
TagsOf(n, commit) == {v \in Versions : input.tags[n][v] = commit}

--------------------------------------------------------------------------------
Init ==
    /\ input \in Inputs
    /\ constraints = Attribute(input.machine, Machine, None)
    /\ selected = [n \in Names |-> None]
    /\ ceiling = [n \in Names |-> None]
    /\ pending = Targets(constraints)
    /\ outcome = "resolving"

\* The constraints a name's present selection contributed.
Attributed(n) ==
    {c \in constraints : selected[n] # None /\ c.by = n /\ c.at = selected[n].version}

\* Mutant: what is dropped is not looked at again.
LaterNew(n, dropped, added) == (pending \ {n}) \union Targets(added)
\* Mutant: only a name without a selection is looked at.
LaterUnselected(n, dropped, added) ==
    {m \in (pending \ {n}) \union Targets(dropped) \union Targets(added) : selected[m] = None}

\* Every name whose constraints change becomes pending, n itself included.
Later(n, dropped, added) ==
    (pending \ {n}) \union Targets(dropped) \union Targets(added)

Raise(diagnostic) ==
    /\ outcome' = diagnostic
    /\ UNCHANGED <<input, constraints, selected, ceiling, pending>>

\* The same commit: nothing is expanded again and the version stays.
Keep(n, s) ==
    /\ selected[n] # None /\ selected[n].commit = s.commit
    /\ pending' = pending \ {n}
    /\ UNCHANGED <<input, constraints, selected, ceiling, outcome>>

Reselect(n, s) ==
    LET added == Attribute(input.requires[n][s.commit], n, s.version) IN
    /\ selected[n] # None => selected[n].commit # s.commit
    /\ constraints' = (constraints \ Attributed(n)) \union added
    /\ pending' = Later(n, Attributed(n), added)
    /\ selected' = [selected EXCEPT ![n] = s]
    /\ ceiling' = IF s.version = None THEN ceiling
                  ELSE [ceiling EXCEPT ![n] = s.version]
    /\ UNCHANGED <<input, outcome>>

Settle(n, s) == Keep(n, s) \/ Reselect(n, s)

\* A name nobody requires leaves with what it contributed.
Leave(n) ==
    /\ On(n) = {}
    /\ constraints' = constraints \ Attributed(n)
    /\ pending' = Later(n, Attributed(n), {})
    /\ selected' = [selected EXCEPT ![n] = None]
    /\ UNCHANGED <<input, ceiling, outcome>>

RefuseSource(n) ==
    /\ ~Readable(n)
    /\ Raise("profile_source_invalid")

\* A path overlay is taken as it is: exact forms on its name are not compared.
TakeTree(n) ==
    /\ Readable(n) /\ Overlaid(n)
    /\ Settle(n, [commit |-> Tree, version |-> input.stated[n][Tree]])

\* The version of a fixed commit: a context's manifest states it, a skill has the
\* highest of its tags, or none.
IsVersionOf(n, commit, v) ==
    IF n \in input.skills
    THEN IF v = None THEN TagsOf(n, commit) = {}
         ELSE v \in TagsOf(n, commit) /\ \A w \in TagsOf(n, commit) : w =< v
    ELSE v = input.stated[n][commit]

\* No version, of a skill, passes only where no range has to admit it.
Fits(n, v) == Formed(n, "range") = {} \/ Admitted(n, v)

TakeExact(n) ==
    /\ Readable(n) /\ ~Overlaid(n) /\ Fixed(n) # {}
    /\ \/ /\ \E c, d \in Fixed(n) : c # d
          /\ Raise("context_range_conflict")
       \/ \E c \in Fixed(n), v \in Versions \union {None} :
            /\ Fixed(n) = {c} /\ IsVersionOf(n, c, v)
            /\ \/ n \notin input.skills /\ v = None /\ Raise("context_manifest_invalid")
               \/ /\ n \in input.skills \/ v # None
                  /\ \/ Fits(n, v) /\ Settle(n, [commit |-> c, version |-> v])
                     \/ ~Fits(n, v) /\ Raise("context_range_conflict")

\* Mutant: a selection may rise again.
AllowedAnew(n) == {v \in Versions : input.tags[n][v] # None /\ Admitted(n, v)}

Allowed(n) ==
    {v \in Versions : /\ input.tags[n][v] # None /\ Admitted(n, v)
                      /\ ceiling[n] # None => v =< ceiling[n]}

TakeHighest(n) ==
    /\ Readable(n) /\ ~Overlaid(n) /\ Fixed(n) = {} /\ On(n) # {}
    /\ \/ Allowed(n) = {} /\ Raise("context_range_conflict")
       \/ \E v \in Allowed(n) :
            /\ \A w \in Allowed(n) : w =< v
            /\ LET c == input.tags[n][v] IN
               \/ /\ n \notin input.skills /\ input.stated[n][c] # v
                  /\ Raise("context_version_mismatch")
               \/ /\ n \in input.skills \/ input.stated[n][c] = v
                  /\ Settle(n, [commit |-> c, version |-> v])

\* What is checked of every constraint when nothing is pending.
Satisfied(c) ==
    /\ selected[c.on] # None
    /\ c.want.form = "range" => selected[c.on].version \in c.want.admits

Check ==
    /\ pending = {}
    /\ outcome' = IF \A c \in constraints : Satisfied(c) THEN "locked"
                  ELSE "context_range_conflict"
    /\ UNCHANGED <<input, constraints, selected, ceiling, pending>>

First(n) == n \in pending /\ \A m \in pending : n =< m

Next ==
    /\ outcome = "resolving"
    /\ \/ \E n \in Names : First(n) /\ (\/ Leave(n) \/ RefuseSource(n) \/ TakeTree(n)
                                        \/ TakeExact(n) \/ TakeHighest(n))
       \/ Check

Spec == Init /\ [][Next]_vars

--------------------------------------------------------------------------------
TypeOK ==
    /\ constraints \subseteq Constraints
    /\ selected \in [Names -> Selections \union {None}]
    /\ ceiling \in [Names -> Versions \union {None}]
    /\ pending \subseteq Names
    /\ outcome \in {"resolving", "locked", "profile_source_invalid", "context_range_conflict",
                    "context_manifest_invalid", "context_version_mismatch"}

\* Whatever was selected, dropped and selected again on the way, the constraints
\* are those of the machine and of the present selections: a requirement of a
\* version given up has no say, and none of a selected version is lost.
ConstraintsAreCurrent ==
    constraints =
        Attribute(input.machine, Machine, None)
        \union UNION {Attribute(input.requires[n][selected[n].commit], n, selected[n].version) :
                        n \in {m \in Names : selected[m] # None}}

\* A lock serves every requirer: the version of each member is in every range on
\* it, and its commit is that of every exact form on it, although the final
\* check of the code looks at ranges only.  A path overlay replaces the commits
\* of its name.
LockServesRequirers ==
    outcome = "locked" =>
        \A c \in constraints :
            /\ selected[c.on] # None
            /\ c.want.form = "range" => selected[c.on].version \in c.want.admits
            /\ c.want.form = "exact" /\ ~Overlaid(c.on) => selected[c.on].commit = c.want.commit

\* The members of a lock are the names its constraints are on: a member whose
\* last requirer was selected away has left.
LockIsRequired ==
    outcome = "locked" => {n \in Names : selected[n] # None} = Targets(constraints)

RangeForms(requirements) ==
    \A r \in requirements : r.want.form \in {"range", "unreadable"}
RangesOnly ==
    /\ RangeForms(input.machine)
    /\ \A n \in Names, c \in Commits : RangeForms(input.requires[n][c])

\* Where every requirement is a range, what is selected for a name is never above
\* what was selected for it before, not even when the constraint that lowered it
\* is gone or the name has left and returned.
SelectionsOnlyFall ==
    [][RangesOnly =>
        \A n \in Names :
            /\ ceiling[n] # None => ceiling'[n] # None /\ ceiling'[n] =< ceiling[n]
            /\ selected'[n] # None => selected'[n].version = ceiling'[n]]_vars

Needs(n) == UNION {{r.on : r \in input.requires[n][c]} : c \in Commits}
Acyclic ==
    \A S \in SUBSET Names \ {{}} : \E n \in S : Needs(n) \intersect S = {}

\* Resolution ends where every requirement is a range, and, whatever the forms,
\* where no package can come to require itself.
ResolutionEnds == RangesOnly \/ Acyclic ~> outcome # "resolving"

\* protocol/environments.md:416-421: "A name's selection never increases within
\* one resolution [...] Selections therefore only decrease and the candidate sets
\* are finite, so the loop terminates."  The code applies the ceiling to ranges
\* only: two packages whose exact requirements select each other in turn make
\* it select the same four commits for ever.
LoopTerminates == <>(outcome # "resolving")
================================================================================
