---------------------------- MODULE ClosureWeights -----------------------------
(* What resolve_closure of tools/validate.py computes once its loop has ended: *)
(* one effective weight for every member of the closure, from the manifests,  *)
(* the requirements between members, the root and the machine's overlays, or a *)
(* refusal.  A declaration says what each of them states; None is no weight.   *)
(* Two requirements of one manifest on one name carry the same weight here.   *)
EXTENDS ClosureResolution, FiniteSets

CONSTANTS
    Root,           \* the name being installed
    Weights,
    DeclarationsOf(_)   \* installation -> the declarations it may come with

\* own: a manifest's weight; map: its weights map; edge: the weight a commit's
\* requirement on a name carries; overlay: that of the overlay, or the default.
Declarations ==
    [own     : [Names -> [Commits -> Weights]],
     map     : [Names -> [Commits -> [Names -> Weights \union {None}]]],
     edge    : [Names -> [Commits -> [Names -> Weights \union {None}]]],
     overlay : [Names -> Weights]]

ASSUME RootAlone ==
    Root \in Names /\ Weights \subseteq Nat /\ None \notin Nat \union {"weighed"}
ASSUME Declared == \A i \in Inputs : DeclarationsOf(i) \subseteq Declarations

VARIABLES
    declared,       \* the declaration, None while the loop runs
    weights,        \* name -> effective weight, or None
    warned,         \* names whose requirers disagree and the root settles
    verdict         \* None, "weighed" or the diagnostic raised

weighing == <<declared, weights, warned, verdict>>

Members == {n \in Names : selected[n] # None}
IsContext(n) == n \notin input.skills
IsOverlay(n) == n # Root /\ \E c \in On(n) : c.by = Machine
MapOf(d, n) == d.map[n][selected[n].commit]
Mapped(d, n) == {m \in Names : MapOf(d, n)[m] # None}
EdgeWeight(d, c) == d.edge[c.by][selected[c.by].commit][c.on]

\* The constraints of one requirer that carry a weight.
Weighed(d, n, requirers) ==
    {c \in On(n) : c.by \in requirers /\ EdgeWeight(d, c) # None}
RootEdges(d, n) == Weighed(d, n, {Root})
Edges(d, n) == Weighed(d, n, Names \ {Root})

\* What the root says of a name, in its map or on its requirement.
RootSays(d, n) ==
    ({MapOf(d, Root)[n]} \ {None}) \union {EdgeWeight(d, c) : c \in RootEdges(d, n)}

\* Mutant: the first edge found speaks for all of them.
NoneDisagree(d, n) == FALSE

Disagree(d, n) == \E c, e \in Edges(d, n) : EdgeWeight(d, c) # EdgeWeight(d, e)

Effective(d, n) ==
    CASE ~IsContext(n) -> 0
      [] IsContext(n) /\ IsOverlay(n) -> d.overlay[n]
      [] IsContext(n) /\ ~IsOverlay(n) /\ RootSays(d, n) # {} -> CHOOSE w \in RootSays(d, n) : TRUE
      [] IsContext(n) /\ ~IsOverlay(n) /\ RootSays(d, n) = {} ->
            IF Edges(d, n) = {} THEN d.own[n][selected[n].commit]
            ELSE CHOOSE w \in {EdgeWeight(d, c) : c \in Edges(d, n)} : TRUE

Verdict(d) ==
    IF \E n \in Members \ {Root} : IsContext(n) /\ Mapped(d, n) # {} THEN "context_weights_not_root"
    ELSE IF \E n \in Mapped(d, Root) : RootEdges(d, n) # {} THEN "context_weights_duplicate"
    ELSE IF \E n \in Mapped(d, Root) : n \notin Members \/ ~IsContext(n) THEN "context_weight_unknown"
    ELSE IF \E n \in Members : IsContext(n) /\ Disagree(d, n) /\ RootSays(d, n) = {}
         THEN "context_weight_conflict"
    ELSE "weighed"

--------------------------------------------------------------------------------
WeighedInit ==
    /\ Init
    /\ declared = None /\ verdict = None
    /\ weights = [n \in Names |-> None] /\ warned = {}

Weigh ==
    /\ outcome = "locked" /\ verdict = None
    /\ \E d \in DeclarationsOf(input) :
        /\ declared' = d
        /\ verdict' = Verdict(d)
        /\ IF Verdict(d) = "weighed"
           THEN /\ weights' = [n \in Names |-> IF n \in Members THEN Effective(d, n) ELSE None]
                /\ warned' = {n \in Members : IsContext(n) /\ Disagree(d, n)}
           ELSE UNCHANGED <<weights, warned>>
    /\ UNCHANGED vars

Resolve == Next /\ UNCHANGED weighing

WeighedNext == Resolve \/ Weigh

\* One call runs alone, to its end.
WeighedSpec ==
    /\ WeighedInit /\ [][WeighedNext]_<<vars, weighing>>
    /\ WF_<<vars, weighing>>(WeighedNext)

--------------------------------------------------------------------------------
\* A member that requires another with a weight is overruled only where the
\* machine declares the other as an overlay or the root itself weighs it, and
\* where requirers contradict each other a weighed closure has a warning for it.
NoneOverruledUnseen ==
    verdict = "weighed" =>
        \A n \in Members : IsContext(n) =>
            /\ \A c \in Edges(declared, n) :
                EdgeWeight(declared, c) # weights[n] =>
                    IsOverlay(n) \/ RootSays(declared, n) # {}
            /\ \A c, e \in Edges(declared, n) :
                EdgeWeight(declared, c) # EdgeWeight(declared, e) =>
                    n \in warned /\ RootSays(declared, n) # {}
================================================================================
