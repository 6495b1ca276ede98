-------------------------- MODULE MCClosureResolution --------------------------
(* ClosureResolution on a root (1) and two packages (2, 3) of two versions.   *)
EXTENDS ClosureWeights, TLC

CONSTANTS c1, c2, X, Junk, NoPre

V == INSTANCE VersionRanges

\* The two versions are 1.0.0 and 1.1.0; a range admits what its text admits.
Text(parts, pre) == [parts |-> parts, pre |-> pre]
Primitive(op, parts) == [op |-> op, text |-> Text(parts, NoPre)]
VersionAt == <<V!Version(<<1, 0, 0>>, <<>>), V!Version(<<1, 1, 0>>, <<>>)>>
TextOf(S) ==
    CASE S = {1} -> {{Primitive("~", <<1, 0>>)}}
      [] S = {2} -> {{Primitive(">", <<1, 0>>), Primitive("<", <<2>>)}}
      [] S = {1, 2} -> {{Primitive("^", <<1, 0>>)}}
Range(S) == [form |-> "range", admits |-> {v \in Versions : V!Satisfies(TextOf(S), VersionAt[v])}]
AtMost1 == Range({1})
Only2 == Range({2})
Both == Range({1, 2})
Exact(c) == [form |-> "exact", commit |-> c]
Forms == {AtMost1, Only2, Both, Exact(c1), Exact(c2)}

Req(n, w) == [on |-> n, want |-> w]
Maybe(n, forms) == {{}} \union {{Req(n, w)} : w \in forms}
AtAll(f) == [c \in Commits |-> f]
None3 == [c \in Commits |-> {}]

Tags == (1 :> c1) @@ (2 :> c2)
Stated == (c1 :> 1) @@ (c2 :> 2) @@ (Tree :> 1)

\* Every way the root and two packages can require the packages.
Crossed ==
    {[machine |-> {Req(1, AtMost1)}, skills |-> {},
      tags |-> [n \in Names |-> Tags], stated |-> [n \in Names |-> Stated],
      requires |-> <<[None3 EXCEPT ![c1] = p \union q],
                     [None3 EXCEPT ![c1] = a1, ![c2] = a2],
                     [None3 EXCEPT ![c1] = b1, ![c2] = b2]>>] :
        p \in {{Req(2, Both)}, {Req(2, Exact(c1))}},
        q \in Maybe(3, {Both, Exact(c2)}),
        a1 \in Maybe(3, Forms), a2 \in Maybe(3, Forms),
        b1 \in Maybe(2, Forms), b2 \in Maybe(2, Forms)}

\* An overlay or a skill, a commit with two tags, manifests that do not state the
\* version of their tag, and forms that cannot be read.
Odd ==
    {[machine |-> {Req(1, AtMost1)} \union os[1], skills |-> os[2],
      tags |-> <<Tags, t, Tags>>, stated |-> <<Stated, m, Stated>>,
      requires |-> <<[None3 EXCEPT ![c1] = p \union {Req(3, Both)}],
                     [None3 EXCEPT ![Tree] = a, ![c2] = a],
                     [None3 EXCEPT ![c1] = b1, ![c2] = b2]>>] :
        os \in {<<{}, {}>>, <<{}, {2}>>, <<{Req(2, [form |-> "path"])}, {}>>,
                <<{Req(2, Both)}, {}>>},
        t \in {Tags, (1 :> c1) @@ (2 :> c1), [v \in Versions |-> None]},
        m \in {Stated, [c \in Commits |-> 1], [c \in Commits |-> None]},
        p \in Maybe(2, Forms \union {[form |-> "unreadable"]}),
        a \in {{}, {Req(3, AtMost1)}},
        b1 \in Maybe(2, {AtMost1, Exact(c2)}), b2 \in Maybe(2, {AtMost1, Exact(c1)})}

\* Both packages require the root back, or one the other; one may be an overlay, a
\* skill, or fall out of the closure again.
Back ==
    {[machine |-> {Req(1, AtMost1)} \union o, skills |-> s,
      tags |-> [n \in Names |-> Tags], stated |-> [n \in Names |-> Stated],
      requires |-> <<AtAll({Req(2, Both), Req(3, Both)}),
                     [AtAll({Req(1, r)}) EXCEPT ![c2] = {Req(1, r), Req(3, q)}],
                     AtAll({Req(1, r)})>>] :
        o \in {{}, {Req(3, Both)}}, s \in {{}, {3}},
        r \in {AtMost1, Both}, q \in {AtMost1, Exact(c2)}}

MCInputs == Crossed \union Odd \union Back
\* Requirements of both packages on each other, all exact.
MCExact ==
    {i \in Crossed : \A n \in {2, 3}, c \in {c1, c2} :
        \A r \in i.requires[n][c] : r.want.form = "exact"}

--------------------------------------------------------------------------------
\* Weights for these: each package weighs the root and 2 weighs 3, alike or not;
\* the root's map names one of them or a stranger; a dependency has a map.
Nothing3 == [n \in Names |-> None]
Say(n, w) == [Nothing3 EXCEPT ![n] = w]
MCDeclarations ==
    {[own |-> [n \in Names |-> AtAll(1)],
      map |-> <<AtAll(m), AtAll(f), AtAll(Nothing3)>>,
      edge |-> <<AtAll(Say(3, r)), AtAll([Say(1, e) EXCEPT ![3] = e]), AtAll(Say(1, g))>>,
      overlay |-> [n \in Names |-> 3]] :
        m \in {Nothing3, Say(1, 2), Say(3, 2)}, f \in {Nothing3, Say(3, 1)},
        r \in {None, 2}, e \in {None, 4}, g \in {None, 4, 5}}
MCDeclarationsOf(i) == IF i \in Back THEN MCDeclarations ELSE {}

================================================================================
