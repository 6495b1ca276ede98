----------------------------- MODULE VersionRanges -----------------------------
(* Versions and ranges of tools/validate.py: the SemVer order, the partial     *)
(* versions a range is written with, the comparators they stand for and the    *)
(* versions those admit.                                                      *)
(*                                                                            *)
(* Text is tokens: the core of a partial version is a sequence of numbers, X  *)
(* for "x", "X" or "*", and Junk for anything else; a prerelease identifier is *)
(* <<0, n>> when numeric and <<1, rank>> when not, so that identifiers compare *)
(* lexicographically.  NoPre is a text without a hyphen.                      *)
EXTENDS Naturals, Sequences

CONSTANTS X, Junk, NoPre

Zero == <<0, 0>>
Version(core, pre) == [core |-> core, pre |-> pre]

\* The sequence order that _compare_prerelease and semver_compare step through:
\* the first difference decides, then the length.
SeqBefore(a, b, Less(_, _)) ==
    \E i \in 1 .. Len(b) :
        /\ i =< Len(a) + 1
        /\ \A j \in 1 .. (i - 1) : a[j] = b[j]
        /\ i =< Len(a) => Less(a[i], b[i])

\* Of cores, and of identifiers.
NumbersBefore(x, y) == SeqBefore(x, y, <)

\* A release follows every prerelease of its core.
PreBefore(a, b) == IF a = <<>> THEN FALSE ELSE b = <<>> \/ SeqBefore(a, b, NumbersBefore)

Before(v, w) ==
    \/ NumbersBefore(v.core, w.core)
    \/ v.core = w.core /\ PreBefore(v.pre, w.pre)

\* A tag is a candidate version when it is v and a full version without junk.
IsVersion(t) ==
    /\ Len(t.parts) = 3 /\ \A i \in 1 .. 3 : t.parts[i] \in Nat
    /\ t.pre \notin {<<>>, Junk}

--------------------------------------------------------------------------------
\* The components written before the first wildcard, or before the end.
Written(parts) ==
    CHOOSE n \in 0 .. Len(parts) :
        /\ \A i \in 1 .. n : parts[i] # X
        /\ n < Len(parts) => parts[n + 1] = X

\* What follows the wildcard is not read.
Legible(t) ==
    /\ Len(t.parts) \in 1 .. 3
    /\ \A i \in 1 .. Written(t.parts) : t.parts[i] # Junk
    /\ t.pre # NoPre => Written(t.parts) = 3 /\ IsVersion(t)

\* A partial version: how many components it has, the others as zeros.
Partial(t) ==
    [n    |-> Written(t.parts),
     core |-> [i \in 1 .. 3 |-> IF i =< Written(t.parts) THEN t.parts[i] ELSE 0],
     pre  |-> IF t.pre = NoPre THEN <<>> ELSE t.pre]

Full(q) == Version(q.core, q.pre)
Release(core) == Version(core, <<>>)
Bump(core, i) ==
    [j \in 1 .. 3 |-> IF j < i THEN core[j] ELSE IF j = i THEN core[j] + 1 ELSE 0]

Lowest(core) == Version(core, <<Zero>>)

Any == {[op |-> "*"]}
Comparator(op, bound) == [op |-> op, bound |-> bound]
Upto(q, i) == {Comparator(">=", Full(q)), Comparator("<", Lowest(Bump(q.core, i)))}

\* Mutant: a caret keeps the major component, whatever it is.
LeadingMajor(q) == 1

\* The component a caret may not change.
Leading(q) ==
    IF \E i \in 1 .. q.n : q.core[i] > 0
    THEN CHOOSE i \in 1 .. q.n : q.core[i] > 0 /\ \A j \in 1 .. (i - 1) : q.core[j] = 0
    ELSE q.n

Desugar(op, t) ==
    LET q == Partial(t) IN
    CASE q.n = 0 -> IF op \in {"<", ">"} THEN {Comparator("<", Lowest(q.core))} ELSE Any
      [] q.n > 0 /\ op = "^" -> Upto(q, Leading(q))
      [] q.n > 0 /\ op = "~" -> Upto(q, IF q.n = 1 THEN 1 ELSE 2)
      [] q.n > 0 /\ op = ">=" -> {Comparator(">=", Full(q))}
      [] q.n = 3 /\ op \in {"=", "<", ">", "<="} -> {Comparator(op, Full(q))}
      [] q.n \in {1, 2} /\ op = "=" -> Upto(q, q.n)
      [] q.n \in {1, 2} /\ op = ">" -> {Comparator(">=", Release(Bump(q.core, q.n)))}
      [] q.n \in {1, 2} /\ op = "<" -> {Comparator("<", Lowest(q.core))}
      [] q.n \in {1, 2} /\ op = "<=" -> {Comparator("<", Lowest(Bump(q.core, q.n)))}

\* A range is a set of alternatives, each a set of primitives; "latest" is "*".
Readable(range) ==
    \A alternative \in range : alternative # {} /\ \A p \in alternative : Legible(p.text)
Comparators(alternative) == UNION {Desugar(p.op, p.text) : p \in alternative}

\* Mutant: an upper bound admits itself.
MatchesInclusive(c, v) ==
    CASE c.op = "*" -> TRUE
      [] c.op = "=" -> v = c.bound
      [] c.op \in {">", ">="} -> ~Before(v, c.bound) /\ (c.op = ">" => v # c.bound)
      [] c.op \in {"<", "<="} -> ~Before(c.bound, v)

Matches(c, v) ==
    CASE c.op = "*" -> TRUE
      [] c.op = "=" -> v = c.bound
      [] c.op = ">" -> Before(c.bound, v)
      [] c.op = ">=" -> ~Before(v, c.bound)
      [] c.op = "<" -> Before(v, c.bound)
      [] c.op = "<=" -> ~Before(c.bound, v)

Admits(alternative, v) == \A c \in Comparators(alternative) : Matches(c, v)

\* A prerelease is admitted only beside a bound that is a prerelease of its core.
Satisfies(range, v) ==
    \E alternative \in range :
        /\ Admits(alternative, v)
        /\ \/ v.pre = <<>>
           \/ \E c \in Comparators(alternative) : c.op # "*" /\ c.bound.pre # <<>> /\ c.bound.core = v.core

--------------------------------------------------------------------------------
\* A reference reading, by the components a text writes and nothing else.
Prefix(core, n) == SubSeq(core, 1, n)
Agree(v, q, n) == Prefix(v.core, n) = Prefix(q.core, n)
Above(v, q) == NumbersBefore(Prefix(q.core, q.n), Prefix(v.core, q.n))
Below(v, q) == NumbersBefore(Prefix(v.core, q.n), Prefix(q.core, q.n))
Kept(q) ==
    IF \A i \in 1 .. q.n : q.core[i] = 0 THEN q.n
    ELSE CHOOSE i \in 1 .. q.n : q.core[i] # 0 /\ Prefix(q.core, i - 1) = Prefix(<<0, 0, 0>>, i - 1)

\* What a primitive says of a release: the text stands for every release that
\* begins with its components, and a prerelease text lies just below its core.
ReadsRelease(op, q, v) ==
    LET within == Agree(v, q, q.n) /\ q.pre = <<>> IN
    CASE op = "=" -> within
      [] op = ">=" -> ~Below(v, q)
      [] op = ">" -> Above(v, q) \/ (Agree(v, q, q.n) /\ q.pre # <<>>)
      [] op = "<" -> Below(v, q)
      [] op = "<=" -> Below(v, q) \/ within
      [] op = "^" -> ~Below(v, q) /\ Agree(v, q, Kept(q))
      [] op = "~" -> ~Below(v, q) /\ Agree(v, q, IF q.n = 1 THEN 1 ELSE 2)

\* The two strict comparisons with nothing admit nothing.
Reads(op, q, v) == IF q.n = 0 THEN op \notin {"<", ">"} ELSE ReadsRelease(op, q, v)

Spells(p, v) == Partial(p.text).n = 3 /\ p.text.pre # NoPre /\ Partial(p.text).core = v.core
================================================================================
