------------------------------- MODULE RangeCases ------------------------------
(* The satisfies cases of the context-versions vectors: an editor writes the    *)
(* primitives of a range and a version, one at a time, and the gate of           *)
(* tools/validate.py asks VersionRanges whether the range is satisfied.           *)
EXTENDS VersionRanges, FiniteSets

CONSTANTS
    Primitives, Candidates,
    Beside      \* primitives a second one is taken from

Operators == {"=", ">", ">=", "<", "<=", "^", "~"}
Texts == [parts : Seq(Nat \union {X, Junk}), pre : Seq(Nat \X Nat) \union {NoPre}]

\* A range that parses and full versions; X and Junk stand for no number.
RangeAssumption ==
    /\ {X, Junk} \intersect Nat = {} /\ X # Junk /\ NoPre \notin Seq(Nat \X Nat)
    /\ \A p \in Primitives \union Beside : p.op \in Operators /\ p.text \in Texts /\ Legible(p.text)
    /\ Candidates \subseteq [core : [1 .. 3 -> Nat], pre : Seq(Nat \X Nat)]

VARIABLES range, version    \* one alternative of the range; the version
vars == <<range, version>>

\* A case the gate can read has a range that parses and a full version.
Init == range \in {{p} : p \in Primitives} /\ version \in Candidates

AddPrimitive(p) ==
    /\ Cardinality(range) = 1 /\ range' = range \union {p} /\ UNCHANGED version

RemovePrimitive(p) ==
    /\ range # {p} /\ range' = range \ {p} /\ UNCHANGED version

WriteVersion(v) == version' = v /\ UNCHANGED range

Next ==
    \/ \E p \in Beside : AddPrimitive(p)
    \/ \E p \in range : RemovePrimitive(p)
    \/ \E v \in Candidates : WriteVersion(v)

Spec == Init /\ [][Next]_vars

--------------------------------------------------------------------------------
TypeOK == Readable({range}) /\ version.core \in Seq(Nat)

\* A release satisfies a range exactly where every primitive, read by its own
\* components, says so: whatever bounds a caret, a tilde or a partial version is
\* desugared to, at zero components and at every boundary.
ReadAsWritten ==
    version.pre = <<>> =>
        (Satisfies({range}, version) <=> \A p \in range : Reads(p.op, Partial(p.text), version))

\* A prerelease satisfies only a range that spells a prerelease of its core: the
\* lowest prerelease that bounds a caret lets none in, not even beside a primitive
\* that opens another core.
PrereleaseIsAskedFor ==
    version.pre # <<>> /\ Satisfies({range}, version) => \E p \in range : Spells(p, version)
================================================================================
