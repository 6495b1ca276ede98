---------------------------- MODULE ReleasePipeline ----------------------------
(* From a working tree to a published release: the generator, commits, the      *)
(* default branch, independent reviews, and what the release workflow runs on   *)
(* a tag, tools/verify_release_commit.py, the release checks of                 *)
(* tools/validate.py and tools/release_gate.py.                                 *)
(*                                                                            *)
(* A tree is what those checks read.  A digest is the value it is of.  The      *)
(* digest constants of older releases are the record of Past.  Signatures are   *)
(* verified by git, so one is the key it verifies with; API answers, JSON        *)
(* shapes and frozen vectors are left out.                                     *)
EXTENDS Naturals, Sequences, FiniteSets

CONSTANTS
    Candidates,     \* versions with a prerelease, each with a release record
    Stable,         \* versions without
    Past,           \* the candidate released before the behaviour begins
    Contents,       \* what a normative file may hold
    Original,       \* what each holds at first
    Reviewers,
    MaxCommits, MaxEdits,   \* commits in all, edits before one of them
    None

Versions == Candidates \union Stable
Types == {"security", "interoperability"}
Signatures == {"source", "maintainer", "github", "author"}
Manifests == [version : Versions, suite : Contents]
Records == [pin : Manifests, rest : Contents]

ASSUME ReleaseAssumption ==
    /\ Past \in Candidates /\ Candidates \intersect Stable = {} /\ Original \in Contents
    /\ {MaxCommits, MaxEdits} \subseteq Nat /\ None \notin Records \union Contents

VARIABLES
    commits,    \* sequence of [tree, parent, signature]
    head,       \* the commit checked out
    main,       \* the tip of origin/main
    tree,       \* the working tree
    edits,      \* since the last commit
    published   \* sequence of [version, commit], in the order they went out

vars == <<commits, head, main, tree, edits, published>>

Report(type, commit, reviewer, blocking) ==
    [type |-> type, commit |-> commit, reviewer |-> reviewer, blocking |-> blocking]

FirstTree ==
    LET manifest == [version |-> Past, suite |-> Original] IN
    [version |-> Past, suite |-> Original, schema |-> None, manifest |-> manifest,
     record |-> [c \in Candidates |-> IF c = Past THEN [pin |-> manifest, rest |-> Original] ELSE None],
     latest |-> Past, reports |-> {}]

Init ==
    /\ commits = <<[tree |-> FirstTree, parent |-> 0, signature |-> "github"]>>
    /\ head = 1 /\ main = 1 /\ tree = FirstTree /\ edits = 0
    /\ published = <<[version |-> Past, commit |-> 1]>>

--------------------------------------------------------------------------------
\* What people do to a tree.
Edit(next) ==
    /\ edits < MaxEdits /\ Len(commits) < MaxCommits /\ next # tree
    /\ tree' = next /\ edits' = edits + 1
    /\ UNCHANGED <<commits, head, main, published>>

\* The generator writes the manifest and, for a candidate, its record.
Generated(t) ==
    LET manifest == [version |-> t.version, suite |-> t.suite] IN
    [t EXCEPT !.manifest = manifest,
              !.record = [c \in Candidates |->
                  IF c = t.version THEN [pin |-> manifest, rest |-> Original] ELSE t.record[c]]]

Generate(v) == Edit(Generated([tree EXCEPT !.version = v]))
WriteSuite(x) == Edit([tree EXCEPT !.suite = x])
WriteSchema(x) == Edit([tree EXCEPT !.schema = x])
WriteRecord(c, x) == tree.record[c] # None /\ Edit([tree EXCEPT !.record[c].rest = x])
BumpLatest(c) == Edit([tree EXCEPT !.latest = c])

\* A report on a commit, in place of the one of its type.
Review(type, commit, reviewer, blocking) ==
    Edit([tree EXCEPT !.reports = {r \in @ : r.type # type}
                                  \union {Report(type, commit, reviewer, blocking)}])

Commit(signature) ==
    /\ tree # commits[head].tree /\ Len(commits) < MaxCommits
    /\ commits' = Append(commits, [tree |-> tree, parent |-> head, signature |-> signature])
    /\ head' = Len(commits) + 1 /\ edits' = 0
    /\ UNCHANGED <<main, tree, published>>

Checkout(c) ==
    /\ tree = commits[head].tree /\ c # head
    /\ head' = c /\ tree' = commits[c].tree /\ edits' = 0
    /\ UNCHANGED <<commits, main, published>>

--------------------------------------------------------------------------------
\* Whether a is b or one of its ancestors.
IsAncestor(a, b) ==
    LET reach[c \in 0 .. Len(commits)] == c # 0 /\ (c = a \/ reach[commits[c].parent])
    IN  reach[b]

\* verify_release_merge_policy: of GitHub's ways only squashing is enabled.
Methods == {"squash"}

\* A pull request lands as one commit GitHub makes and signs, or main is moved on
\* to the commits themselves.
Squash ==
    /\ "squash" \in Methods /\ ~IsAncestor(head, main) /\ Len(commits) < MaxCommits
    /\ commits' = Append(commits, [tree |-> commits[head].tree, parent |-> main, signature |-> "github"])
    /\ main' = Len(commits) + 1
    /\ UNCHANGED <<head, tree, edits, published>>

FastForward ==
    /\ head # main /\ IsAncestor(main, head) /\ main' = head
    /\ UNCHANGED <<commits, head, tree, edits, published>>

\* trusted_signature_valid and validate_github_payload.
SourceAuthorized(c) == commits[c].signature \in {"source", "maintainer", "github"}

\* require_default_branch_ancestor.
Contained(c) == IsAncestor(c, main)

\* validate_manifest: the manifest is current, and so is the record of old.
ManifestIsCurrent(t) == t.manifest = [version |-> t.version, suite |-> t.suite]
PastIsFrozen(t) == t.record[Past] = FirstTree.record[Past]

TagOf(v) == CHOOSE p \in {published[i] : i \in DOMAIN published} : p.version = v
Tagged == {published[i].version : i \in DOMAIN published}

\* Mutant: only the record of the version named as latest is compared.
LatestRecordKept(t, v) ==
    /\ t.latest \in Tagged
    /\ t.record[t.latest] = commits[TagOf(t.latest).commit].tree.record[t.latest]

\* published_release_records, validate_released_record_immutability: a record is
\* compared with that of its own tag, or of the first tag that carried it; the
\* version being released has its tag already.
RecordsKept(t, v) ==
    /\ t.latest \in Tagged
    /\ \A c \in Candidates \ {v} :
        LET carrying == {i \in DOMAIN published : commits[published[i].commit].tree.record[c] # None}
            first == published[CHOOSE i \in carrying : \A j \in carrying : i =< j]
            from == IF c \in Tagged THEN TagOf(c) ELSE first
        IN  carrying # {} => t.record[c] = commits[from.commit].tree.record[c]

\* validate_released_schema_immutability: against the tag a constant names.
SchemasKept(t) ==
    /\ t.latest \in Tagged
    /\ LET shipped == commits[TagOf(t.latest).commit].tree.schema
       IN  shipped # None => t.schema = shipped

\* The workflow validates the tree and generates it again without a difference.
Validates(t, v) ==
    /\ ManifestIsCurrent(t) /\ PastIsFrozen(t) /\ RecordsKept(t, v) /\ SchemasKept(t)
    /\ Generated(t).manifest = t.manifest

\* validate_version.
VersionIsDeclared(t, v) ==
    /\ t.version = v /\ t.manifest.version = v
    /\ v \in Candidates => t.record[v] # None /\ t.record[v].pin = t.manifest

\* validate_protocol_artifacts: only for the version the gate was written for.
ArtifactsHold(t, v) == t.version = v => ManifestIsCurrent(t) /\ PastIsFrozen(t)

\* All of a tree that is not under reviews/.
Normative(t) == [t EXCEPT !.reports = {}]

\* Mutant: the reviewed commit need only be an ancestor.
ReviewedBefore(r, c) == IsAncestor(r.commit, c)

\* What a report must be of a commit for its release.
Covers(r, c) ==
    /\ IsAncestor(r.commit, c) /\ ~r.blocking
    /\ Normative(commits[r.commit].tree) = Normative(commits[c].tree)

\* validate_reviews.
Reviewed(c) ==
    LET reports == commits[c].tree.reports IN
    /\ \A t \in Types : \E r \in reports : r.type = t /\ Covers(r, c)
    /\ \A r, s \in reports : r.type # s.type => r.reviewer # s.reviewer

\* The workflow of a tag: provenance, validation, then the gate.
Publish(v) ==
    LET t == commits[head].tree IN
    /\ tree = t /\ v \notin Tagged
    /\ Contained(head) /\ SourceAuthorized(head) /\ Validates(t, v)
    /\ VersionIsDeclared(t, v) /\ ArtifactsHold(t, v)
    /\ v \in Stable => Reviewed(head)
    /\ published' = Append(published, [version |-> v, commit |-> head])
    /\ UNCHANGED <<commits, head, main, tree, edits>>

Next ==
    \/ \E v \in Versions : Generate(v) \/ Publish(v)
    \/ \E x \in Contents : WriteSuite(x) \/ WriteSchema(x) \/ \E c \in Candidates : WriteRecord(c, x)
    \/ \E c \in Candidates : BumpLatest(c)
    \/ \E t \in Types, c \in DOMAIN commits, r \in Reviewers, b \in BOOLEAN : Review(t, c, r, b)
    \/ \E s \in {"source", "author"} : Commit(s)
    \/ \E c \in DOMAIN commits : Checkout(c)
    \/ Squash \/ FastForward

Spec == Init /\ [][Next]_vars

--------------------------------------------------------------------------------
TypeOK ==
    /\ head \in DOMAIN commits /\ main \in DOMAIN commits /\ edits \in 0 .. MaxEdits
    /\ \A c \in DOMAIN commits : commits[c].parent < c /\ commits[c].signature \in Signatures
    /\ tree.record \in [Candidates -> Records \union {None}] /\ tree.manifest \in Manifests
    /\ \A r \in tree.reports : r.type \in Types /\ r.commit \in DOMAIN commits

Released(i) == commits[published[i].commit].tree

\* What goes out as stable is, outside reviews/, what two different reviewers read
\* and passed, whatever was edited, committed, squashed or put back between their
\* commits and the release.
StableAsReviewed ==
    \A i \in DOMAIN published : published[i].version \in Stable =>
        /\ Cardinality({r.reviewer : r \in Released(i).reports}) = Cardinality(Types)
        /\ \A r \in Released(i).reports :
            ~r.blocking /\ Normative(commits[r.commit].tree) = Normative(Released(i))

\* The record a candidate went out with is in every later release as it was, also
\* when the constant that names the latest release was never moved.
RecordsStay ==
    \A i, j \in DOMAIN published : i < j /\ published[i].version \in Candidates =>
        Released(j).record[published[i].version] = Released(i).record[published[i].version]

\* What was read is what goes out, and what went out stays.
ReleasesStandAsReviewed == TypeOK /\ StableAsReviewed /\ RecordsStay

\* Every schema shipped by the latest release stays as it is in the next one made
\* on top of it.
SchemasStay ==
    \A i \in DOMAIN published :
        i + 1 \in DOMAIN published /\ Released(i).schema # None
            /\ IsAncestor(published[i].commit, published[i + 1].commit)
        => Released(i + 1).schema = Released(i).schema
================================================================================
