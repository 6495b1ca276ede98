---------------------------- MODULE ProviderSearch ----------------------------
(* How `curator <name>` finds curator-<name> (tools/validate.py, the umbrella       *)
(* provider vectors): revision A runs what the PATH finds and warns of what is      *)
(* outside the trust roots, revision B searches the trust roots only.  Between       *)
(* calls anyone may put files into directories, edit the PATH or the list, publish    *)
(* into a directory or take its permissions away.                                     *)
EXTENDS Naturals, Sequences

CONSTANTS
    Dirs,       \* directories
    InstallDir, \* the one the manager is installed in
    Ancestors,  \* for every directory, itself and those above it
    MaxList,    \* bound: length of the PATH
    None

Diagnostics == {"subcommand_provider_outside_trust_roots", "subcommand_provider_untrusted",
                "subcommand_provider_root_unreadable", "subcommand_provider_missing"}
DirsAssumption ==
    /\ InstallDir \in Dirs /\ None \notin Dirs \union Diagnostics /\ MaxList \in Nat
    /\ \A d \in Dirs : d \in Ancestors[d] /\ Ancestors[d] \subseteq Dirs

VARIABLES
    present,    \* what each directory has under the provider's name
    listed,     \* provider_directories
    path,       \* the PATH
    forbidden,  \* the directories the manager publishes into or manages
    unreadable, \* the trust roots that cannot be read
    revision,   \* of the manager
    ran         \* the directory the last call ran a provider from, until something moves
vars == <<present, listed, path, forbidden, unreadable, revision, ran>>

--------------------------------------------------------------------------------
Distinct(s) == \A i, j \in DOMAIN s : s[i] = s[j] => i = j
Lists(n) == {s \in UNION {[1 .. k -> Dirs] : k \in 0 .. n} : Distinct(s)}

\* The install directory, then the listed ones in their order.
TrustRoots(list) == <<InstallDir>> \o list
InRoots(d, list) == \E i \in DOMAIN TrustRoots(list) : TrustRoots(list)[i] = d

ItselfForbidden(d) == d \in forbidden
InsideForbidden(d) == Ancestors[d] \cap forbidden # {}

FirstOf(s, wanted) ==
    LET found == {i \in DOMAIN s : s[i] \in wanted}
    IN IF found = {} THEN None ELSE s[CHOOSE i \in found : \A j \in found : i <= j]

Executables == {d \in Dirs : present[d] = "executable"}
PathSearch(s) == FirstOf(s, Executables)

Runs(d) == [resolved |-> d, diagnostic |-> None, names |-> None]
Warns(d) == [resolved |-> d, diagnostic |-> "subcommand_provider_outside_trust_roots", names |-> d]
Untrusted(d) == [resolved |-> None, diagnostic |-> "subcommand_provider_untrusted", names |-> d]
Unreadable(d) == [resolved |-> None, diagnostic |-> "subcommand_provider_root_unreadable", names |-> d]
Missing == [resolved |-> None, diagnostic |-> "subcommand_provider_missing", names |-> None]

RevisionA(list, s) ==
    LET match == PathSearch(s)
        failed == FirstOf(TrustRoots(list), unreadable)
    IN IF match # None /\ InsideForbidden(match) THEN Untrusted(match)
       ELSE IF failed # None THEN Unreadable(failed)
       ELSE IF match = None THEN Missing
       ELSE IF InRoots(match, list) THEN Runs(match) ELSE Warns(match)

\* The search ends at the first root that holds the provider or cannot be read; the
\* PATH only tells a refusal from an absence.
SkipUnreadable(list) == FirstOf(TrustRoots(list), Executables)
Stop(list) == FirstOf(TrustRoots(list), Executables \union unreadable)
RevisionB(list, s) ==
    LET stop == Stop(list)
        match == PathSearch(s)
    IN IF stop = None THEN IF match = None THEN Missing ELSE Untrusted(match)
       ELSE IF stop \in unreadable THEN Unreadable(stop)
       ELSE IF InsideForbidden(stop) THEN Untrusted(stop) ELSE Runs(stop)

Outcome == IF revision = "A" THEN RevisionA(listed, path) ELSE RevisionB(listed, path)

--------------------------------------------------------------------------------
\* What every outcome has to look like, whatever the case.
Shaped(o) ==
    /\ o.diagnostic = None => o.resolved # None /\ o.names = None
    /\ o.diagnostic \notin {None, "subcommand_provider_outside_trust_roots"} => o.resolved = None
    /\ o.diagnostic = "subcommand_provider_outside_trust_roots" => revision = "A" /\ o.names # None
    /\ o.diagnostic \in {"subcommand_provider_untrusted", "subcommand_provider_root_unreadable"} =>
           o.names # None

TypeOK ==
    /\ present \in [Dirs -> {"none", "plain", "executable"}]
    /\ listed \in Lists(MaxList) /\ path \in Lists(MaxList)
    /\ forbidden \subseteq Dirs /\ \A d \in unreadable : InRoots(d, listed)
    /\ revision \in {"A", "B"} /\ ran \in Dirs \union {None}
    /\ Shaped(Outcome)

Init ==
    /\ present \in [Dirs -> {"none", "executable"}]
    /\ listed = << >> /\ path \in Lists(MaxList)
    /\ forbidden = {} /\ unreadable = {} /\ revision = "A" /\ ran = None

\* Anything else on the machine.
Put(d, what) ==
    /\ present' = [present EXCEPT ![d] = what] /\ ran' = None
    /\ UNCHANGED <<listed, path, forbidden, unreadable, revision>>
SetPath(s) ==
    /\ path' = s /\ ran' = None
    /\ UNCHANGED <<present, listed, forbidden, unreadable, revision>>
ListDirs(s) ==
    /\ \A d \in unreadable : InRoots(d, s)
    /\ listed' = s /\ ran' = None
    /\ UNCHANGED <<present, path, forbidden, unreadable, revision>>
PublishInto(d) ==
    /\ d # InstallDir /\ forbidden' = forbidden \union {d} /\ ran' = None
    /\ UNCHANGED <<present, listed, path, unreadable, revision>>
Lose(d) ==
    /\ unreadable = {} /\ InRoots(d, listed) /\ unreadable' = {d} /\ ran' = None
    /\ UNCHANGED <<present, listed, path, forbidden, revision>>
Regain ==
    /\ unreadable # {} /\ unreadable' = {} /\ ran' = None
    /\ UNCHANGED <<present, listed, path, forbidden, revision>>
Upgrade ==
    /\ revision = "A" /\ revision' = "B" /\ ran' = None
    /\ UNCHANGED <<present, listed, path, forbidden, unreadable>>

Dispatch ==
    /\ ran' = Outcome.resolved
    /\ UNCHANGED <<present, listed, path, forbidden, unreadable, revision>>

Next ==
    \/ \E d \in Dirs, what \in {"none", "plain", "executable"} : Put(d, what)
    \/ \E s \in Lists(MaxList) : SetPath(s) \/ ListDirs(s)
    \/ \E d \in Dirs : PublishInto(d) \/ Lose(d)
    \/ Regain \/ Upgrade \/ Dispatch

--------------------------------------------------------------------------------
\* Revision B runs the same whatever the PATH is, from a trust root that is not below
\* a directory the manager writes to, and none before it can hold another one.
RunsTrusted ==
    revision = "B" /\ ran # None =>
        /\ Ancestors[ran] \cap forbidden = {}
        /\ \A s \in Lists(MaxList) : RevisionB(listed, s).resolved = ran
        /\ LET roots == TrustRoots(listed) IN
           \E i \in DOMAIN roots :
               /\ roots[i] = ran
               /\ \A j \in 1 .. i : roots[j] \notin unreadable
               /\ \A j \in 1 .. i - 1 : present[roots[j]] # "executable"

\* Who heeds the warnings of revision A is served by revision B: it runs the same
\* provider, unless a root before it holds another or the manager's own.
UpgradeForetold ==
    revision = "A" /\ ran # None =>
        LET o == RevisionA(listed, path)
            heeded == IF o.diagnostic = None THEN listed ELSE Append(listed, o.names)
            next == RevisionB(heeded, path)
        IN \/ next.resolved = ran
           \/ \E d \in Dirs : /\ d # ran /\ InRoots(d, listed) /\ present[d] = "executable"
                              /\ d \in {next.resolved, next.names}

\* Nothing is called missing that is there.
MissingIsAbsent ==
    revision = "B" /\ Outcome.diagnostic = "subcommand_provider_missing" =>
        \A d \in Dirs : InRoots(d, listed) => d \notin unreadable /\ present[d] # "executable"
=============================================================================
