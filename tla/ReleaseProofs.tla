------------------------------ MODULE ReleaseProofs ------------------------------
(* Proofs about what a release is made of: the pipeline from an edit to a tag       *)
(* (ReleasePipeline), confined builds (WorkerBuilds), verified builds               *)
(* (VerifiedFlows) and version ranges (RangeCases), as MCRelease puts them side by  *)
(* side, for any versions, reviewers, sessions, providers and range texts.          *)
EXTENDS MCRelease, FiniteSetTheorems, SequenceTheorems, TLAPS

--------------------------------------------------------------------------------
(* The release pipeline.                                                          *)

Reports == [type : Types, commit : Nat \ {0}, reviewer : Reviewers, blocking : BOOLEAN]
Trees == [version : Versions, suite : Contents, schema : Contents \union {None},
          manifest : Manifests, record : [Candidates -> Records \union {None}],
          latest : Candidates, reports : SUBSET Reports]
CommitRecords == [tree : Trees, parent : Nat, signature : Signatures]

\* A tree has one report of a type, on a commit there is.
ReportsFit(t) ==
    /\ \A r, s \in t.reports : r.type = s.type => r = s
    /\ \A r \in t.reports : r.commit =< Len(commits)

Typed ==
    /\ commits \in Seq(CommitRecords) /\ published \in Seq([version : Versions, commit : Nat])
    /\ head \in DOMAIN commits /\ main \in DOMAIN commits /\ edits \in 0 .. MaxEdits
    /\ tree \in Trees
    /\ \A c \in DOMAIN commits : commits[c].parent < c
    /\ \A i \in DOMAIN published : published[i].commit \in DOMAIN commits

AllFit == ReportsFit(tree) /\ \A c \in DOMAIN commits : ReportsFit(commits[c].tree)

\* A version is published once, a candidate with its record.
PublishedOnce ==
    \A i, j \in DOMAIN published : published[i].version = published[j].version => i = j
CandidatesRecorded ==
    \A i \in DOMAIN published : published[i].version \in Candidates =>
        Released(i).record[published[i].version] # None

Standing == PublishedOnce /\ CandidatesRecorded /\ StableAsReviewed /\ RecordsStay

ReleaseInv == Typed /\ AllFit /\ Standing

LEMMA FirstTreeTyped == FirstTree \in Trees /\ FirstTree.reports = {}
<1> DEFINE m == [version |-> Past, suite |-> Original]
           none == [c \in Candidates |-> IF c = Past THEN [pin |-> m, rest |-> Original] ELSE None]
<1>1. m \in Manifests  BY ReleaseAssumption DEF Manifests, Versions
<1>2. [pin |-> m, rest |-> Original] \in Records  BY <1>1, ReleaseAssumption DEF Records
<1>3. none \in [Candidates -> Records \union {None}]  BY <1>2
<1>4. FirstTree = [version |-> Past, suite |-> Original, schema |-> None, manifest |-> m,
                   record |-> none, latest |-> Past, reports |-> {}]
  BY DEF FirstTree
<1> HIDE DEF m, none
<1> QED  BY <1>1, <1>3, <1>4, ReleaseAssumption DEF Trees, Versions

LEMMA ReleaseInit == Init => ReleaseInv
<1> SUFFICES ASSUME Init PROVE ReleaseInv  OBVIOUS
<1> DEFINE first == [tree |-> FirstTree, parent |-> 0, signature |-> "github"]
           out == [version |-> Past, commit |-> 1]
<1>1. /\ commits = <<first>> /\ head = 1 /\ main = 1 /\ tree = FirstTree /\ edits = 0
      /\ published = <<out>>
  BY DEF Init
<1>2. first \in CommitRecords  BY FirstTreeTyped DEF CommitRecords, Signatures
<1>3. out \in [version : Versions, commit : Nat]  BY ReleaseAssumption DEF Versions
<1>4. /\ commits \in Seq(CommitRecords) /\ Len(commits) = 1 /\ DOMAIN commits = {1}
      /\ commits[1] = first
  BY <1>1, <1>2
<1>5. /\ published \in Seq([version : Versions, commit : Nat]) /\ DOMAIN published = {1}
      /\ published[1] = out
  BY <1>1, <1>3
<1>6. first.tree = FirstTree /\ first.parent = 0 /\ out.version = Past /\ out.commit = 1  OBVIOUS
<1> HIDE DEF first, out
<1>7. Typed
  <2>1. edits \in 0 .. MaxEdits  BY <1>1, ReleaseAssumption
  <2>2. \A c \in DOMAIN commits : commits[c].parent < c  BY <1>4, <1>6
  <2>3. \A i \in DOMAIN published : published[i].commit \in DOMAIN commits  BY <1>4, <1>5, <1>6
  <2> QED  BY <1>1, <1>4, <1>5, <2>1, <2>2, <2>3, FirstTreeTyped DEF Typed
<1>8. AllFit  BY <1>1, <1>4, <1>6, FirstTreeTyped DEF AllFit, ReportsFit
<1>9. Released(1) = FirstTree  BY <1>4, <1>5, <1>6 DEF Released
<1>10. PublishedOnce /\ RecordsStay  BY <1>5 DEF PublishedOnce, RecordsStay
<1>11. StableAsReviewed  BY <1>5, <1>6, ReleaseAssumption DEF StableAsReviewed
<1>12. FirstTree.record[Past] # None
  <2> DEFINE m == [version |-> Past, suite |-> Original]
  <2>1. FirstTree.record[Past] = [pin |-> m, rest |-> Original]
    BY ReleaseAssumption DEF FirstTree
  <2>2. [pin |-> m, rest |-> Original] \in Records
    BY ReleaseAssumption DEF Records, Manifests, Versions
  <2> QED  BY <2>1, <2>2, ReleaseAssumption
<1>13. CandidatesRecorded  BY <1>5, <1>6, <1>9, <1>12 DEF CandidatesRecorded
<1> QED  BY <1>7, <1>8, <1>10, <1>11, <1>13 DEF ReleaseInv, Standing

LEMMA CommitsTyped ==
    ASSUME ReleaseInv
    PROVE  \A c \in DOMAIN commits : commits[c] \in CommitRecords /\ commits[c].tree \in Trees
<1>1. \A c \in DOMAIN commits : commits[c] \in CommitRecords  BY DEF ReleaseInv, Typed
<1>2. \A x \in CommitRecords : x.tree \in Trees  BY DEF CommitRecords
<1> QED  BY <1>1, <1>2

\* StableAsReviewed of one release.
ReadBy(t) == {r.reviewer : r \in t.reports}
AsReviewed(i) ==
    /\ Cardinality(ReadBy(Released(i))) = Cardinality(Types)
    /\ \A r \in Released(i).reports :
          ~r.blocking /\ Normative(commits[r.commit].tree) = Normative(Released(i))

LEMMA StableOneByOne ==
    /\ StableAsReviewed <=>
        \A i \in DOMAIN published : published[i].version \in Stable => AsReviewed(i)
    /\ StableAsReviewed' <=>
        \A i \in DOMAIN published' : published'[i].version \in Stable => AsReviewed(i)'
BY DEF StableAsReviewed, AsReviewed, ReadBy

\* What has been published stands while commits are only added.
LEMMA StandingStays ==
    ASSUME ReleaseInv, published' = published, DOMAIN commits \subseteq DOMAIN commits',
           \A c \in DOMAIN commits : commits'[c] = commits[c]
    PROVE  Standing'
<1>1. \A i \in DOMAIN published : Released(i)' = Released(i)
  BY DEF ReleaseInv, Typed, Released
<1>2. PublishedOnce'  BY DEF ReleaseInv, Standing, PublishedOnce
<1>3. CandidatesRecorded'  BY <1>1 DEF ReleaseInv, Standing, CandidatesRecorded
<1>4. RecordsStay'  BY <1>1 DEF ReleaseInv, Standing, RecordsStay
<1>5. StableAsReviewed'
  <2> SUFFICES ASSUME NEW i \in DOMAIN published, published[i].version \in Stable
               PROVE  AsReviewed(i)'
    BY StableOneByOne
  <2>1. AsReviewed(i)  BY StableOneByOne DEF ReleaseInv, Standing
  <2>2. published[i].commit \in DOMAIN commits  BY DEF ReleaseInv, Typed
  <2>3. ReportsFit(Released(i)) /\ Released(i) \in Trees
    BY <2>2, CommitsTyped DEF ReleaseInv, AllFit, Released
  <2>4. \A r \in Released(i).reports : r.commit \in DOMAIN commits
    BY <2>3 DEF ReportsFit, Trees, Reports, ReleaseInv, Typed
  <2>5. Released(i)' = Released(i)  BY <1>1
  <2> QED  BY <2>1, <2>4, <2>5 DEF AsReviewed
<1> QED  BY <1>2, <1>3, <1>4, <1>5 DEF Standing

\* An edit leaves a tree of the working directory and nothing else.
LEMMA EditInv ==
    ASSUME ReleaseInv, NEW next \in Trees, ReportsFit(next), Edit(next)
    PROVE  ReleaseInv'
<1>1. /\ edits < MaxEdits /\ tree' = next /\ edits' = edits + 1
      /\ UNCHANGED <<commits, head, main, published>>
  BY DEF Edit
<1>2. edits' \in 0 .. MaxEdits  BY <1>1, ReleaseAssumption DEF ReleaseInv, Typed
<1>3. Typed'  BY <1>1, <1>2 DEF ReleaseInv, Typed
<1>4. AllFit'  BY <1>1 DEF ReleaseInv, AllFit, ReportsFit
<1>5. Standing'  BY <1>1, StandingStays
<1> QED  BY <1>3, <1>4, <1>5 DEF ReleaseInv

\* What the generator writes.
LEMMA GeneratedTyped ==
    ASSUME NEW t \in Trees
    PROVE  Generated(t) \in Trees /\ Generated(t).reports = t.reports
<1> DEFINE m == [version |-> t.version, suite |-> t.suite]
           rec == [c \in Candidates |->
                     IF c = t.version THEN [pin |-> m, rest |-> Original] ELSE t.record[c]]
<1>1. m \in Manifests  BY DEF Trees, Manifests
<1>2. [pin |-> m, rest |-> Original] \in Records  BY <1>1, ReleaseAssumption DEF Records
<1>3. t.record \in [Candidates -> Records \union {None}]  BY DEF Trees
<1>4. rec \in [Candidates -> Records \union {None}]  BY <1>2, <1>3
<1>5. Generated(t) = [t EXCEPT !.manifest = m, !.record = rec]  BY DEF Generated
<1> HIDE DEF m, rec
<1> QED  BY <1>1, <1>4, <1>5 DEF Trees

LEMMA EditStep ==
    ASSUME ReleaseInv,
           \/ \E v \in Versions : Generate(v)
           \/ \E x \in Contents : WriteSuite(x) \/ WriteSchema(x)
           \/ \E x \in Contents, c \in Candidates : WriteRecord(c, x)
           \/ \E c \in Candidates : BumpLatest(c)
    PROVE  ReleaseInv'
<1>1. tree \in Trees /\ ReportsFit(tree)  BY DEF ReleaseInv, Typed, AllFit
<1>2. ASSUME NEW t \in Trees, t.reports = tree.reports, Edit(t) PROVE ReleaseInv'
  <2>1. ReportsFit(t)  BY <1>1, <1>2 DEF ReportsFit
  <2> QED  BY <1>2, <2>1, EditInv
<1>3. ASSUME NEW v \in Versions, Generate(v) PROVE ReleaseInv'
  <2> DEFINE t == [tree EXCEPT !.version = v]
  <2>1. t \in Trees /\ t.reports = tree.reports  BY <1>1 DEF Trees
  <2>2. Edit(Generated(t))  BY <1>3 DEF Generate
  <2> HIDE DEF t
  <2> QED  BY <1>2, <2>1, <2>2, GeneratedTyped
<1>4. ASSUME NEW x \in Contents, WriteSuite(x) PROVE ReleaseInv'
  <2> DEFINE t == [tree EXCEPT !.suite = x]
  <2>1. t \in Trees /\ t.reports = tree.reports  BY <1>1 DEF Trees
  <2>2. Edit(t)  BY <1>4 DEF WriteSuite
  <2> HIDE DEF t
  <2> QED  BY <1>2, <2>1, <2>2
<1>5. ASSUME NEW x \in Contents, WriteSchema(x) PROVE ReleaseInv'
  <2> DEFINE t == [tree EXCEPT !.schema = x]
  <2>1. t \in Trees /\ t.reports = tree.reports  BY <1>1 DEF Trees
  <2>2. Edit(t)  BY <1>5 DEF WriteSchema
  <2> HIDE DEF t
  <2> QED  BY <1>2, <2>1, <2>2
<1>6. ASSUME NEW c \in Candidates, NEW x \in Contents, WriteRecord(c, x) PROVE ReleaseInv'
  <2> DEFINE rec == [tree.record EXCEPT ![c].rest = x]
             t == [tree EXCEPT !.record = rec]
  <2>1. tree.record \in [Candidates -> Records \union {None}] /\ tree.record[c] # None
    BY <1>1, <1>6 DEF Trees, WriteRecord
  <2>2. tree.record[c] \in Records  BY <2>1
  <2>3. [tree.record[c] EXCEPT !.rest = x] \in Records  BY <2>2 DEF Records
  <2>4. rec \in [Candidates -> Records \union {None}]  BY <2>1, <2>3
  <2> HIDE DEF rec
  <2>5. t \in Trees /\ t.reports = tree.reports  BY <1>1, <2>4 DEF Trees
  <2>6. Edit(t)  BY <1>6 DEF WriteRecord, rec
  <2> HIDE DEF t
  <2> QED  BY <1>2, <2>5, <2>6
<1>7. ASSUME NEW c \in Candidates, BumpLatest(c) PROVE ReleaseInv'
  <2> DEFINE t == [tree EXCEPT !.latest = c]
  <2>1. t \in Trees /\ t.reports = tree.reports  BY <1>1 DEF Trees
  <2>2. Edit(t)  BY <1>7 DEF BumpLatest
  <2> HIDE DEF t
  <2> QED  BY <1>2, <2>1, <2>2
<1> QED  BY <1>3, <1>4, <1>5, <1>6, <1>7

\* A report takes the place of the one of its type.
LEMMA ReviewStep ==
    ASSUME ReleaseInv, NEW type \in Types, NEW c \in DOMAIN commits, NEW who \in Reviewers,
           NEW b \in BOOLEAN, Review(type, c, who, b)
    PROVE  ReleaseInv'
<1> DEFINE r == Report(type, c, who, b)
           reps == {s \in tree.reports : s.type # type} \union {r}
           t == [tree EXCEPT !.reports = reps]
<1>1. tree \in Trees /\ ReportsFit(tree)  BY DEF ReleaseInv, Typed, AllFit
<1>2. c \in Nat \ {0} /\ c =< Len(commits)  BY DEF ReleaseInv, Typed
<1>3. r \in Reports /\ r.type = type /\ r.commit = c  BY <1>2 DEF Report, Reports
<1> HIDE DEF r
<1>4. reps \in SUBSET Reports  BY <1>1, <1>3 DEF Trees
<1>5. /\ \A p, q \in reps : p.type = q.type => p = q
      /\ \A p \in reps : p.commit =< Len(commits)
  BY <1>1, <1>2, <1>3 DEF ReportsFit
<1>6. Edit(t)  BY DEF Review, r
<1> HIDE DEF reps
<1>7. t \in Trees /\ t.reports = reps  BY <1>1, <1>4 DEF Trees
<1> HIDE DEF t
<1>8. ReportsFit(t)  BY <1>5, <1>7 DEF ReportsFit
<1> QED  BY <1>6, <1>7, <1>8, EditInv

LEMMA Appended ==
    ASSUME NEW S, NEW s \in Seq(S), NEW x \in S
    PROVE  /\ Append(s, x) \in Seq(S) /\ Len(Append(s, x)) = Len(s) + 1 /\ Len(s) \in Nat
           /\ DOMAIN Append(s, x) = DOMAIN s \union {Len(s) + 1}
           /\ \A i \in DOMAIN s : Append(s, x)[i] = s[i]
           /\ Append(s, x)[Len(s) + 1] = x
           /\ \A i \in DOMAIN s : i \in Nat /\ i =< Len(s)
OBVIOUS

\* A commit is added, of a tree there is, on a commit there is.
LEMMA AppendInv ==
    ASSUME ReleaseInv, NEW x \in CommitRecords, x.parent \in DOMAIN commits, ReportsFit(x.tree),
           commits' = Append(commits, x), tree' = tree, published' = published,
           head' \in DOMAIN commits', main' \in DOMAIN commits', edits' \in 0 .. MaxEdits
    PROVE  ReleaseInv'
<1>1. /\ commits' \in Seq(CommitRecords) /\ Len(commits') = Len(commits) + 1
      /\ DOMAIN commits' = DOMAIN commits \union {Len(commits) + 1}
      /\ \A c \in DOMAIN commits : commits'[c] = commits[c]
      /\ commits'[Len(commits) + 1] = x /\ Len(commits) \in Nat
      /\ \A c \in DOMAIN commits : c \in Nat /\ c =< Len(commits)
  <2>1. commits \in Seq(CommitRecords)  BY DEF ReleaseInv, Typed
  <2> QED  BY <2>1, Appended
<1>2. Typed'
  <2>1. \A c \in DOMAIN commits' : commits'[c].parent < c
    <3> SUFFICES ASSUME NEW c \in DOMAIN commits' PROVE commits'[c].parent < c  OBVIOUS
    <3>1. CASE c \in DOMAIN commits  BY <1>1, <3>1 DEF ReleaseInv, Typed
    <3>2. CASE c = Len(commits) + 1
      <4>1. commits'[c] = x /\ x.parent \in Nat /\ x.parent =< Len(commits)  BY <1>1, <3>2
      <4> QED  BY <1>1, <3>2, <4>1
    <3> QED  BY <1>1, <3>1, <3>2
  <2>2. \A i \in DOMAIN published' : published'[i].commit \in DOMAIN commits'
    BY <1>1 DEF ReleaseInv, Typed
  <2> QED  BY <1>1, <2>1, <2>2 DEF ReleaseInv, Typed
<1>3. \A t \in Trees : ReportsFit(t) => ReportsFit(t)'
  <2> SUFFICES ASSUME NEW t \in Trees, ReportsFit(t) PROVE ReportsFit(t)'  OBVIOUS
  <2>1. \A r \in t.reports : r.commit \in Nat  BY DEF Trees, Reports
  <2> QED  BY <1>1, <2>1 DEF ReportsFit
<1>4. AllFit'
  <2>1. tree \in Trees /\ x.tree \in Trees /\ \A c \in DOMAIN commits : commits[c].tree \in Trees
    <3>1. \A y \in CommitRecords : y.tree \in Trees  BY DEF CommitRecords
    <3> QED  BY <3>1, CommitsTyped DEF ReleaseInv, Typed
  <2>2. ReportsFit(tree)'  BY <1>3, <2>1 DEF ReleaseInv, AllFit, ReportsFit
  <2>3. ASSUME NEW c \in DOMAIN commits' PROVE ReportsFit(commits[c].tree)'
    <3>1. CASE c \in DOMAIN commits
      <4>1. ReportsFit(commits[c].tree)  BY <3>1 DEF ReleaseInv, AllFit
      <4>2. commits'[c].tree = commits[c].tree /\ commits[c].tree \in Trees  BY <1>1, <2>1, <3>1
      <4> QED  BY <1>3, <4>1, <4>2 DEF ReportsFit
    <3>2. CASE c = Len(commits) + 1
      <4>1. commits'[c].tree = x.tree  BY <1>1, <3>2
      <4> QED  BY <1>3, <2>1, <4>1 DEF ReportsFit
    <3> QED  BY <1>1, <3>1, <3>2
  <2> QED  BY <2>2, <2>3 DEF AllFit
<1>5. Standing'  BY <1>1, StandingStays
<1> QED  BY <1>2, <1>4, <1>5 DEF ReleaseInv

LEMMA CommitStep ==
    ASSUME ReleaseInv, NEW s \in Signatures, Commit(s)
    PROVE  ReleaseInv'
<1> DEFINE x == [tree |-> tree, parent |-> head, signature |-> s]
<1>1. /\ commits' = Append(commits, x) /\ head' = Len(commits) + 1 /\ edits' = 0
      /\ UNCHANGED <<main, tree, published>>
  BY DEF Commit
<1>2. head \in Nat /\ tree \in Trees /\ commits \in Seq(CommitRecords)
      /\ head \in DOMAIN commits /\ main \in DOMAIN commits
  BY DEF ReleaseInv, Typed
<1>3. x \in CommitRecords /\ x.parent \in DOMAIN commits /\ x.tree = tree  BY <1>2 DEF CommitRecords
<1>4. ReportsFit(x.tree)  BY <1>3 DEF ReleaseInv, AllFit
<1> HIDE DEF x
<1>5. head' \in DOMAIN commits' /\ main' \in DOMAIN commits'
  <2>1. DOMAIN commits' = DOMAIN commits \union {Len(commits) + 1}  BY <1>1, <1>2, <1>3, Appended
  <2> QED  BY <1>1, <1>2, <2>1
<1>6. edits' \in 0 .. MaxEdits  BY <1>1, ReleaseAssumption
<1> QED  BY <1>1, <1>3, <1>4, <1>5, <1>6, AppendInv

LEMMA SquashStep ==
    ASSUME ReleaseInv, Squash
    PROVE  ReleaseInv'
<1> DEFINE x == [tree |-> commits[head].tree, parent |-> main, signature |-> "github"]
<1>1. /\ commits' = Append(commits, x) /\ main' = Len(commits) + 1
      /\ UNCHANGED <<head, tree, edits, published>>
  BY DEF Squash
<1>2. /\ main \in Nat /\ commits[head].tree \in Trees /\ commits \in Seq(CommitRecords)
      /\ head \in DOMAIN commits /\ main \in DOMAIN commits /\ edits \in 0 .. MaxEdits
  BY CommitsTyped DEF ReleaseInv, Typed
<1>3. x \in CommitRecords /\ x.parent \in DOMAIN commits /\ x.tree = commits[head].tree
  BY <1>2 DEF CommitRecords, Signatures
<1>4. ReportsFit(x.tree)  BY <1>2, <1>3 DEF ReleaseInv, AllFit
<1> HIDE DEF x
<1>5. head' \in DOMAIN commits' /\ main' \in DOMAIN commits'
  <2>1. DOMAIN commits' = DOMAIN commits \union {Len(commits) + 1}  BY <1>1, <1>2, <1>3, Appended
  <2> QED  BY <1>1, <1>2, <2>1
<1> QED  BY <1>1, <1>2, <1>3, <1>4, <1>5, AppendInv

\* The commits and what is published stay; only the tree and the branches move.
LEMMA MoveStep ==
    ASSUME ReleaseInv, (\E c \in DOMAIN commits : Checkout(c)) \/ FastForward \/ UNCHANGED vars
    PROVE  ReleaseInv'
<1>1. /\ commits' = commits /\ published' = published
      /\ head' \in DOMAIN commits /\ main' \in DOMAIN commits
      /\ tree' = tree \/ \E c \in DOMAIN commits : tree' = commits[c].tree
      /\ edits' = edits \/ edits' = 0
  <2>1. head \in DOMAIN commits /\ main \in DOMAIN commits  BY DEF ReleaseInv, Typed
  <2>2. CASE \E c \in DOMAIN commits : Checkout(c)  BY <2>1, <2>2 DEF Checkout
  <2>3. CASE FastForward  BY <2>1, <2>3 DEF FastForward
  <2>4. CASE UNCHANGED vars  BY <2>1, <2>4 DEF vars
  <2> QED  BY <2>2, <2>3, <2>4
<1>2. tree' \in Trees  BY <1>1, CommitsTyped DEF ReleaseInv, Typed
<1>3. edits' \in 0 .. MaxEdits  BY <1>1, ReleaseAssumption DEF ReleaseInv, Typed
<1>4. Typed'  BY <1>1, <1>2, <1>3 DEF ReleaseInv, Typed
<1>5. AllFit'  BY <1>1 DEF ReleaseInv, AllFit, ReportsFit
<1>6. Standing'  BY <1>1, StandingStays
<1> QED  BY <1>4, <1>5, <1>6 DEF ReleaseInv

\* A record that went out is compared with that of its own tag.
LEMMA KeptRecords ==
    ASSUME ReleaseInv, NEW t, NEW v, RecordsKept(t, v), NEW i \in DOMAIN published,
           published[i].version \in Candidates, published[i].version # v
    PROVE  t.record[published[i].version] = Released(i).record[published[i].version]
<1> DEFINE c == published[i].version
           carrying == {k \in DOMAIN published :
                          commits[published[k].commit].tree.record[c] # None}
           first == published[CHOOSE k \in carrying : \A j \in carrying : k =< j]
           out == {published[k] : k \in DOMAIN published}
<1>1. i \in carrying
  BY DEF ReleaseInv, Standing, CandidatesRecorded, Released
<1>2. c \in Tagged  BY Zenon DEF Tagged
<1>3. carrying # {} =>
        t.record[c] = commits[(IF c \in Tagged THEN TagOf(c) ELSE first).commit].tree.record[c]
  BY Zenon DEF RecordsKept
<1>4. TagOf(c) = published[i]
  <2>1. published[i] \in out /\ published[i].version = c  OBVIOUS
  <2>2. \A p \in out : p.version = c => p = published[i]
    BY DEF ReleaseInv, Standing, PublishedOnce
  <2>3. TagOf(c) = CHOOSE p \in out : p.version = c  BY DEF TagOf
  <2> HIDE DEF out, c
  <2>4. (CHOOSE p \in out : p.version = c) \in out
        /\ (CHOOSE p \in out : p.version = c).version = c
    BY ONLY <2>1
  <2> QED  BY <2>2, <2>3, <2>4
<1> HIDE DEF c, carrying, first
<1>5. t.record[c] = commits[published[i].commit].tree.record[c]
  BY <1>1, <1>2, <1>3, <1>4
<1> QED  BY <1>5 DEF Released, c

LEMMA CardinalityOfTwo ==
    ASSUME NEW x, NEW y, x # y PROVE Cardinality({x, y}) = 2
<1>1. IsFiniteSet({x}) /\ Cardinality({x}) = 1  BY FS_Singleton
<1>2. Cardinality({x} \union {y}) = 2  BY <1>1, FS_AddElement
<1>3. {x} \union {y} = {x, y}  OBVIOUS
<1> QED  BY <1>2, <1>3

\* A tree the gate finds reviewed has one report of each type, by different people,
\* and each of them passed what the tree is outside reviews/.
LEMMA ReviewedStands ==
    ASSUME ReleaseInv, NEW h \in DOMAIN commits, Reviewed(h)
    PROVE  /\ Cardinality(ReadBy(commits[h].tree)) = Cardinality(Types)
           /\ \A r \in commits[h].tree.reports :
                ~r.blocking /\ Normative(commits[r.commit].tree) = Normative(commits[h].tree)
<1> DEFINE reports == commits[h].tree.reports
<1>1. /\ \A t \in Types : \E r \in reports : r.type = t /\ Covers(r, h)
      /\ \A r, s \in reports : r.type # s.type => r.reviewer # s.reviewer
  BY DEF Reviewed
<1>2. /\ \A r, s \in reports : r.type = s.type => r = s
      /\ \A r \in reports : r.type \in Types
  BY CommitsTyped DEF ReleaseInv, AllFit, ReportsFit, Trees, Reports
<1> HIDE DEF reports
<1>3. ASSUME NEW r \in reports PROVE Covers(r, h)  BY <1>1, <1>2
<1>4. \A r \in reports :
        ~r.blocking /\ Normative(commits[r.commit].tree) = Normative(commits[h].tree)
  BY <1>3 DEF Covers
<1>5. PICK a \in reports : a.type = "security"  BY <1>1 DEF Types
<1>6. PICK b \in reports : b.type = "interoperability"  BY <1>1 DEF Types
<1>7. a.reviewer # b.reviewer  BY <1>1, <1>5, <1>6
<1>8. \A r \in reports : r = a \/ r = b  BY <1>2, <1>5, <1>6 DEF Types
<1>9. ReadBy(commits[h].tree) = {a.reviewer, b.reviewer}
  <2>1. ReadBy(commits[h].tree) = {r.reviewer : r \in reports}  BY DEF ReadBy, reports
  <2> QED  BY <1>8, <2>1
<1>10. Cardinality(ReadBy(commits[h].tree)) = 2
  <2>1. Cardinality({a.reviewer, b.reviewer}) = 2  BY ONLY <1>7, CardinalityOfTwo, Zenon
  <2> QED  BY ONLY <1>9, <2>1
<1>11. Cardinality(Types) = 2  BY CardinalityOfTwo DEF Types
<1> QED  BY <1>4, <1>10, <1>11 DEF reports

\* A release passes the gates, and then it stands beside the earlier ones.
LEMMA PublishStep ==
    ASSUME ReleaseInv, NEW v \in Versions, Publish(v)
    PROVE  ReleaseInv'
<1> DEFINE t == commits[head].tree
           out == [version |-> v, commit |-> head]
<1>n. PICK n : n = Len(published) + 1  OBVIOUS
<1>1. /\ v \notin Tagged /\ RecordsKept(t, v)
      /\ v \in Candidates => t.record[v] # None
      /\ v \in Stable => Reviewed(head)
      /\ published' = Append(published, out)
      /\ UNCHANGED <<commits, head, main, tree, edits>>
  BY DEF Publish, Validates, VersionIsDeclared
<1>2. head \in DOMAIN commits /\ head \in Nat  BY DEF ReleaseInv, Typed
<1>3. out \in [version : Versions, commit : Nat] /\ out.version = v /\ out.commit = head
  BY <1>2
<1> HIDE DEF out
<1>4. /\ published' \in Seq([version : Versions, commit : Nat])
      /\ DOMAIN published' = DOMAIN published \union {n} /\ n \notin DOMAIN published
      /\ \A i \in DOMAIN published : published'[i] = published[i] /\ i < n
      /\ published'[n] = out
  <2>1. published \in Seq([version : Versions, commit : Nat])  BY DEF ReleaseInv, Typed
  <2>2. Len(published) \in Nat /\ \A i \in DOMAIN published : i \in Nat /\ i =< Len(published)
    BY <1>3, <2>1, Appended
  <2>3. n \notin DOMAIN published /\ \A i \in DOMAIN published : i < n  BY <1>n, <2>2
  <2> QED  BY <1>1, <1>3, <1>n, <2>1, <2>3, Appended
<1>5. \A i \in DOMAIN published : Released(i)' = Released(i)  BY <1>1, <1>4 DEF Released
<1>6. Released(n)' = t  BY <1>1, <1>3, <1>4 DEF Released
<1>7. \A i \in DOMAIN published : published[i].version # v  BY <1>1 DEF Tagged
<1>8. Typed'
  <2>1. \A i \in DOMAIN published' : published'[i].commit \in DOMAIN commits'
    BY <1>1, <1>2, <1>3, <1>4 DEF ReleaseInv, Typed
  <2> QED  BY <1>1, <1>4, <2>1 DEF ReleaseInv, Typed
<1>9. AllFit'  BY <1>1 DEF ReleaseInv, AllFit, ReportsFit
<1>10. PublishedOnce'  BY <1>3, <1>4, <1>7 DEF ReleaseInv, Standing, PublishedOnce
<1>11. CandidatesRecorded'
  <2> SUFFICES ASSUME NEW i \in DOMAIN published', published'[i].version \in Candidates
               PROVE  (Released(i).record[published[i].version] # None)'
    BY DEF CandidatesRecorded
  <2>1. CASE i \in DOMAIN published
    BY <1>4, <1>5, <2>1 DEF ReleaseInv, Standing, CandidatesRecorded
  <2>2. CASE i = n  BY <1>1, <1>3, <1>4, <1>6, <2>2
  <2> QED  BY <1>4, <2>1, <2>2
<1>12. StableAsReviewed'
  <2> SUFFICES ASSUME NEW i \in DOMAIN published', published'[i].version \in Stable
               PROVE  AsReviewed(i)'
    BY StableOneByOne
  <2>1. CASE i \in DOMAIN published
    <3>1. AsReviewed(i)  BY <1>4, <2>1, StableOneByOne DEF ReleaseInv, Standing
    <3> QED  BY <1>1, <1>5, <2>1, <3>1 DEF AsReviewed
  <2>2. CASE i = n
    <3>1. Reviewed(head)  BY <1>1, <1>3, <1>4, <2>2
    <3> QED  BY <1>1, <1>2, <1>6, <2>2, <3>1, ReviewedStands DEF AsReviewed
  <2> QED  BY <1>4, <2>1, <2>2
<1>13. RecordsStay'
  <2> SUFFICES ASSUME NEW i \in DOMAIN published', NEW j \in DOMAIN published', i < j,
                      published'[i].version \in Candidates
               PROVE  (Released(j).record[published[i].version]
                         = Released(i).record[published[i].version])'
    BY DEF RecordsStay
  <2>1. i \in DOMAIN published /\ published'[i] = published[i]
    <3>1. published' \in Seq([version : Versions, commit : Nat])  BY <1>4
    <3>2. i \in Nat /\ j \in Nat  BY <3>1
    <3> QED  BY <1>4, <3>2
  <2>2. CASE j \in DOMAIN published
    BY <1>5, <2>1, <2>2 DEF ReleaseInv, Standing, RecordsStay
  <2>3. CASE j = n
    <3>1. t.record[published[i].version] = Released(i).record[published[i].version]
      BY <1>1, <1>7, <2>1, KeptRecords
    <3> QED  BY <1>5, <1>6, <2>1, <2>3, <3>1
  <2> QED  BY <1>4, <2>2, <2>3
<1> QED  BY <1>8, <1>9, <1>10, <1>11, <1>12, <1>13 DEF ReleaseInv, Standing

LEMMA ReleaseNext == ReleaseInv /\ [Next]_vars => ReleaseInv'
<1> SUFFICES ASSUME ReleaseInv, [Next]_vars PROVE ReleaseInv'  OBVIOUS
<1>1. CASE \E v \in Versions : Publish(v)  BY <1>1, PublishStep
<1>2. CASE \E t \in Types, c \in DOMAIN commits, r \in Reviewers, b \in BOOLEAN : Review(t, c, r, b)
  BY <1>2, ReviewStep
<1>3. CASE \E s \in {"source", "author"} : Commit(s)  BY <1>3, CommitStep DEF Signatures
<1>4. CASE Squash  BY <1>4, SquashStep
<1> QED  BY <1>1, <1>2, <1>3, <1>4, EditStep, MoveStep DEF Next

LEMMA ReleaseTyped == ReleaseInv => TypeOK
<1> SUFFICES ASSUME ReleaseInv PROVE TypeOK  OBVIOUS
<1>1. \A c \in DOMAIN commits : commits[c].signature \in Signatures
  BY CommitsTyped DEF CommitRecords
<1>2. \A r \in tree.reports : r.type \in Types /\ r.commit \in DOMAIN commits
  BY DEF ReleaseInv, Typed, AllFit, ReportsFit, Trees, Reports
<1> QED  BY <1>1, <1>2 DEF ReleaseInv, Typed, TypeOK, Trees

\* What two reviewers passed is what goes out as stable, and the record of a
\* candidate stays in every later release, through any edits and commits.
THEOREM ReleaseSafety == Spec => []ReleasesStandAsReviewed
<1>1. ReleaseInv => ReleasesStandAsReviewed
  BY ReleaseTyped DEF ReleaseInv, Standing, ReleasesStandAsReviewed
<1> QED  BY <1>1, ReleaseInit, ReleaseNext, PTL DEF Spec

--------------------------------------------------------------------------------
(* The parts side by side.                                                        *)

\* What a step of a part is, for each of the parts.
LEMMA PartSteps ==
    /\ InitAll => part \in Parts /\ Init
    /\ InitAll /\ part = "build" => W!Init
    /\ InitAll /\ part = "range" => R!Init
    /\ InitAll /\ part = "flow" => F!Init
    /\ [NextAll]_<<part, vars, buildVars, rangeVars, flowVars>> =>
        /\ part' = part /\ [Next]_vars
        /\ part = "build" => W!Next \/ UNCHANGED buildVars
        /\ part = "range" => R!Next \/ UNCHANGED rangeVars
        /\ part = "flow" => F!Next \/ UNCHANGED flowVars
BY DEF InitAll, NextAll

\* The pipeline is a part, so what holds of it alone holds.
LEMMA PipelineRuns == SpecAll => Spec
BY PartSteps, PTL DEF SpecAll, Spec

--------------------------------------------------------------------------------
(* Verified builds.                                                               *)

Executions == [permit : permits, by : Identities, started : Nat, completed : Nat \union {None}]

\* An execution begins under its permit and is over, if it is, by now.
FlowInv ==
    /\ clock \in 0 .. MaxTime /\ installed \in Identities
    /\ \A c \in capabilities :
        c.provider \in Identities /\ c.observed < c.expires /\ c.expires \in Nat
    /\ \A t \in permits : t.capability \in capabilities
    /\ executions \subseteq Executions
    /\ \A e \in executions :
        /\ e.started =< clock /\ e.started < e.permit.expires
        /\ e.completed # None => e.completed =< clock

LEMMA FlowSteps ==
    ASSUME FlowInv, F!Next
    PROVE  FlowInv'
<1>t. clock \in Nat  BY PartsAssumption DEF FlowInv, F!FlowAssumption
<1>1. CASE F!Tick
  <2>1. clock' \in 0 .. MaxTime /\ clock' = clock + 1
    BY <1>1, <1>t, PartsAssumption DEF F!Tick, F!FlowAssumption
  <2>2. UNCHANGED <<installed, capabilities, permits, executions, chosen, accepted>>
    BY <1>1 DEF F!Tick
  <2>3. \A e \in executions : e.started =< clock' /\ (e.completed # None => e.completed =< clock')
    BY <1>t, <2>1 DEF FlowInv, Executions
  <2> QED  BY <2>1, <2>2, <2>3 DEF FlowInv, Executions
<1>2. ASSUME NEW p \in Identities, F!Replace(p) PROVE FlowInv'
  BY <1>2 DEF F!Replace, FlowInv, Executions
<1>3. ASSUME NEW q \in Requests, F!Choose(q) PROVE FlowInv'
  BY <1>3 DEF F!Choose, FlowInv, Executions
<1>4. ASSUME NEW b \in BOOLEAN, F!Observe(b) PROVE FlowInv'
  <2> DEFINE new == [provider |-> installed, established |-> b,
                     nonce |-> F!Cardinality(capabilities), observed |-> clock, expires |-> clock + 1]
  <2>1. /\ capabilities' = capabilities \union {new}
        /\ UNCHANGED <<clock, installed, permits, executions, chosen, accepted>>
    BY <1>4 DEF F!Observe
  <2>2. new.provider = installed /\ new.observed = clock /\ new.expires = clock + 1
    OBVIOUS
  <2> HIDE DEF new
  <2>3. new.provider \in Identities /\ new.observed < new.expires /\ new.expires \in Nat
    BY <1>t, <2>2 DEF FlowInv
  <2> QED  BY <2>1, <2>3 DEF FlowInv, Executions
<1>5. ASSUME NEW c \in capabilities, F!Permit(c) PROVE FlowInv'
  <2> DEFINE new == [provider |-> installed, capability |-> c, nonce |-> c.nonce,
                     operation |-> chosen.operation, build |-> chosen.build, expires |-> clock + 1]
  <2>1. /\ permits' = permits \union {new}
        /\ UNCHANGED <<clock, installed, capabilities, executions, chosen, accepted>>
    BY <1>5 DEF F!Permit
  <2>2. new.capability = c  OBVIOUS
  <2> HIDE DEF new
  <2>3. executions \subseteq Executions'  BY <2>1 DEF FlowInv, Executions
  <2> QED  BY <2>1, <2>2, <2>3 DEF FlowInv
<1>6. ASSUME NEW t \in permits, F!Start(t) PROVE FlowInv'
  <2> DEFINE new == [permit |-> t, by |-> installed, started |-> clock, completed |-> None]
  <2>1. /\ clock < t.expires /\ executions' = executions \union {new}
        /\ UNCHANGED <<clock, installed, capabilities, permits, chosen, accepted>>
    BY <1>6 DEF F!Start
  <2>2. /\ new \in Executions /\ new.started = clock /\ new.permit = t /\ new.completed = None
    BY <1>t DEF Executions, FlowInv
  <2> HIDE DEF new
  <2>3. executions' \subseteq Executions'  BY <2>1, <2>2 DEF FlowInv, Executions
  <2> QED  BY <1>t, <2>1, <2>2, <2>3 DEF FlowInv
<1>7. ASSUME NEW e \in executions, F!Complete(e) PROVE FlowInv'
  <2> DEFINE new == [e EXCEPT !.completed = clock]
  <2>1. /\ executions' = (executions \ {e}) \union {new}
        /\ UNCHANGED <<clock, installed, capabilities, permits, chosen, accepted>>
    BY <1>7 DEF F!Complete
  <2>2. e \in Executions  BY DEF FlowInv
  <2>3. /\ new \in Executions /\ new.started = e.started /\ new.permit = e.permit
        /\ new.completed = clock
    BY <1>t, <2>2 DEF Executions
  <2> HIDE DEF new
  <2>4. executions' \subseteq Executions'  BY <2>1, <2>3 DEF FlowInv, Executions
  <2> QED  BY <1>t, <2>1, <2>3, <2>4 DEF FlowInv
<1>8. ASSUME NEW c, NEW t, NEW kept, NEW key, NEW e, NEW x, F!Validate(c, t, kept, key, e, x)
      PROVE FlowInv'
  <2>1. UNCHANGED <<clock, installed, capabilities, permits, executions>>
    BY <1>8 DEF F!Validate
  <2> QED  BY <2>1 DEF FlowInv, Executions
<1> QED  BY <1>1, <1>2, <1>3, <1>4, <1>5, <1>6, <1>7, <1>8 DEF F!Next

\* What the validator lets through, as it tells the records apart.
LEMMA AcceptedFlow ==
    ASSUME NEW flow, F!ValidateFlow(flow) = "accepted"
    PROVE  /\ flow.capability.provider = flow.provider /\ flow.permit.provider = flow.provider
           /\ flow.receipt.provider = flow.provider
           /\ flow.capability.established /\ flow.time < flow.capability.expires
           /\ flow.permit.capability = flow.capability
           /\ flow.cache.input.capability = flow.capability
           /\ F!PermitIsOurs(flow) /\ F!CacheIsOurs(flow) /\ F!ReceiptIsOurs(flow)
           /\ F!ChainHolds(flow)
BY DEF F!ValidateFlow, F!ProviderHolds, F!ProviderError, F!Fresh

\* The validated flow is one execution: the records that agree with each other agree
\* with the permit it ran under.
LEMMA AcceptedIsOneRun ==
    ASSUME FlowInv, NEW c \in capabilities, NEW t \in permits, NEW kept \in permits,
           NEW key \in permits, NEW e \in executions, NEW x \in executions,
           F!Validate(c, t, kept, key, e, x)
    PROVE  F!OneRun'
<1> DEFINE flow == [provider |-> chosen.provider, operation |-> chosen.operation,
                    build |-> chosen.build, time |-> clock, capability |-> c, permit |-> t,
                    cache |-> [key |-> F!CacheInput(key), input |-> F!CacheInput(kept)],
                    receipt |-> F!ReceiptOf(e), checkpoints |-> F!Chain(x.by, x.permit),
                    artifact |-> F!Artifact(x)]
<1>1. /\ F!ValidateFlow(flow) = "accepted" /\ accepted' = flow
      /\ UNCHANGED <<clock, installed, capabilities, permits, executions, chosen>>
  BY DEF F!Validate
<1>2. /\ flow.capability = c /\ flow.permit = t /\ flow.time = clock
      /\ flow.receipt = F!ReceiptOf(e) /\ flow.artifact = F!Artifact(x)
      /\ flow.cache.key = F!CacheInput(key) /\ flow.cache.input = F!CacheInput(kept)
  OBVIOUS
<1> HIDE DEF flow
<1>3. /\ c.provider = flow.provider /\ t.provider = flow.provider
      /\ flow.receipt.provider = flow.provider /\ c.established /\ clock < c.expires
      /\ t.capability = c /\ flow.cache.input.capability = c
      /\ F!PermitIsOurs(flow) /\ F!CacheIsOurs(flow) /\ F!ReceiptIsOurs(flow)
      /\ F!ChainHolds(flow)
  BY <1>1, <1>2, AcceptedFlow
<1>4. /\ e.by = flow.provider /\ e.permit = t /\ e.completed # None
      /\ F!Artifact(e) = flow.artifact
  BY <1>2, <1>3 DEF F!ReceiptIsOurs, F!ReceiptOf
<1>5. t.operation = flow.operation /\ t.build = flow.build  BY <1>2, <1>3 DEF F!PermitIsOurs
<1>6. e.started < t.expires /\ e.completed < c.expires
  BY <1>3, <1>4 DEF FlowInv, Executions
<1>7. flow.cache.key = F!CacheInput(t)
  <2>1. /\ flow.cache.key = F!CacheInput(kept) /\ kept.provider.contract = flow.provider.contract
        /\ kept.provider.binary = flow.provider.binary /\ kept.build = flow.build
        /\ kept.capability = c
    BY <1>2, <1>3 DEF F!CacheIsOurs, F!CacheInput
  <2> QED  BY <1>3, <1>5, <2>1 DEF F!CacheInput
<1>8. \A n \in 1 .. 3 : flow.checkpoints[n].permit = t  BY <1>2, <1>3 DEF F!ChainHolds
<1>9. {e.by, e.permit.provider, e.permit.capability.provider} = {flow.provider}
  BY <1>3, <1>4
<1>10. executions' = executions /\ accepted' = flow  BY <1>1
<1> QED  BY <1>2, <1>3, <1>4, <1>5, <1>6, <1>7, <1>8, <1>9, <1>10 DEF F!OneRun

\* The records of a verified build that is accepted are of one execution, for any
\* providers, requests, answers and times.
THEOREM FlowSafety == SpecAll => []FlowsAreOneRun
<1> DEFINE Inv == part = "flow" => FlowInv /\ F!OneRun
<1>1. InitAll => Inv
  <2>1. F!Init => FlowInv /\ F!OneRun
    BY PartsAssumption DEF F!Init, FlowInv, F!OneRun, Executions, F!FlowAssumption
  <2> QED  BY <2>1, PartSteps
<1>2. Inv /\ [NextAll]_<<part, vars, buildVars, rangeVars, flowVars>> => Inv'
  <2> SUFFICES ASSUME part = "flow", FlowInv, F!OneRun,
                      [NextAll]_<<part, vars, buildVars, rangeVars, flowVars>>
               PROVE  (FlowInv /\ F!OneRun)'
    BY PartSteps
  <2>1. F!Next \/ UNCHANGED flowVars  BY PartSteps
  <2>2. CASE UNCHANGED flowVars  BY <2>2 DEF flowVars, FlowInv, Executions, F!OneRun
  <2>3. CASE F!Next
    <3>1. CASE \E c \in capabilities, t, kept, key \in permits, e, x \in executions :
                 F!Validate(c, t, kept, key, e, x)
      BY <2>3, <3>1, FlowSteps, AcceptedIsOneRun
    <3>2. CASE accepted' = accepted /\ accepted = None
      BY <2>3, <3>2, FlowSteps DEF F!OneRun
    <3>3. accepted = None  BY <2>3 DEF F!Next
    <3> QED
      BY <2>3, <3>1, <3>2, <3>3
      DEF F!Next, F!Tick, F!Replace, F!Choose, F!Observe, F!Permit, F!Start, F!Complete
  <2> QED  BY <2>1, <2>2, <2>3
<1>3. Inv => FlowsAreOneRun
  <2> SUFFICES ASSUME FlowInv PROVE F!TypeOK  BY DEF FlowsAreOneRun
  <2>1. \A e \in executions : e.permit \in permits /\ e.by \in Identities /\ e.started \in 0 .. clock
    BY PartsAssumption DEF FlowInv, Executions, F!FlowAssumption
  <2> QED  BY <2>1 DEF FlowInv, F!TypeOK
<1> QED  BY <1>1, <1>2, <1>3, PTL DEF SpecAll

--------------------------------------------------------------------------------
(* Confined builds.                                                               *)

Inputs == [policy : {W!Portable}, source : Nat, toolchain : Nat]
Builts == [source : Nat, toolchain : Nat, worker : Nat \union {None}]
Controls == [policy : {W!Portable}, version : {"current"}, extra : {{}},
             entries : [DOMAIN Native -> W!Entries]]
Errors == {"build_execution_control_unavailable", "build_execution_worker_identity_invalid",
           "build_execution_hardened_claim_forbidden", "build_execution_worker_protocol_invalid",
           "build_execution_capability_evidence_invalid"}
Running == [at : 1 .. 13, input : Inputs, seen : SUBSET W!Conditional,
            verified : Nat \union {None}, launched : Nat \union {None},
            record : Controls \union {None}, built : Builts \union {None},
            error : Errors \union {None}]

\* What a session knows that is n states on, where the source and the toolchain are
\* at the versions a and b.  A session that failed is at its end.
Knows(x, n, a, b) ==
    /\ x.input.source =< a /\ x.input.toolchain =< b
    /\ n \in 5 .. 12 => x.launched = x.verified
    /\ x.record \in {None, W!Honest(x.seen)}
    /\ n =< 5 => x.record = None
    /\ n \in 6 .. 12 => x.record # None
    /\ n =< 9 => x.built = None
    /\ n \in 10 .. 12 =>
        /\ x.built \in Builts
        /\ x.built.source \in x.input.source .. a /\ x.built.toolchain \in x.input.toolchain .. b
    /\ n = 12 => x.built.source = x.input.source /\ x.built.toolchain = x.input.toolchain
    /\ x.built # None => x.record # None /\ x.built.worker = x.verified
Fits(x, a, b) == x \in Running /\ Knows(x, x.at, a, b)

BuildInv ==
    /\ source \in Nat /\ toolchain \in Nat /\ worker \in Nat
    /\ source + toolchain + worker =< MaxChanges
    /\ lacking \subseteq Mandatory /\ host \subseteq W!Conditional
    /\ session = [s \in Sessions |-> session[s]]
    /\ \A s \in Sessions : session[s] # None => Fits(session[s], source, toolchain)
    /\ \A k \in DOMAIN cache :
        k.policy = W!Portable /\ cache[k].source = k.source /\ cache[k].toolchain = k.toolchain

LEMMA Positions ==
    /\ W!Position("availability-probe") = 2 /\ W!Position("identity-verification") = 3
    /\ W!Position("launch") = 4 /\ W!Position("identity-proof") = 5
    /\ W!Position("control-evidence") = 6 /\ W!Position("go-list") = 7
    /\ W!Position("graph-validation") = 8 /\ W!Position("permit") = 9
    /\ W!Position("go-build") = 10 /\ W!Position("artifact-verification") = 11
    /\ W!Position("reverification") = 12 /\ W!Position("teardown") = 13
    /\ W!Len(W!States) = 13
<1>1. DOMAIN W!States = 1 .. 13 /\ W!Len(W!States) = 13  BY DEF W!States
<1>2. \A i, j \in 1 .. 13 : W!States[i] = W!States[j] => i = j  BY DEF W!States
<1>3. ASSUME NEW i \in 1 .. 13 PROVE W!Position(W!States[i]) = i
  BY <1>1, <1>2 DEF W!Position
<1>4. /\ W!States[2] = "availability-probe" /\ W!States[3] = "identity-verification"
      /\ W!States[4] = "launch" /\ W!States[5] = "identity-proof"
      /\ W!States[6] = "control-evidence" /\ W!States[7] = "go-list"
      /\ W!States[8] = "graph-validation" /\ W!States[9] = "permit"
      /\ W!States[10] = "go-build" /\ W!States[11] = "artifact-verification"
      /\ W!States[12] = "reverification" /\ W!States[13] = "teardown"
  BY DEF W!States
<1>5. \A i \in 2 .. 13 : W!Position(W!States[i]) = i  BY <1>3
<1>6. /\ W!Position(W!States[2]) = 2 /\ W!Position(W!States[3]) = 3 /\ W!Position(W!States[4]) = 4
      /\ W!Position(W!States[5]) = 5 /\ W!Position(W!States[6]) = 6 /\ W!Position(W!States[7]) = 7
      /\ W!Position(W!States[8]) = 8 /\ W!Position(W!States[9]) = 9
      /\ W!Position(W!States[10]) = 10 /\ W!Position(W!States[11]) = 11
      /\ W!Position(W!States[12]) = 12 /\ W!Position(W!States[13]) = 13
  BY <1>5
<1> QED  BY ONLY <1>1, <1>4, <1>6

\* Sources and toolchains are only ever replaced by later ones.
LEMMA StillFits ==
    ASSUME NEW x, NEW a \in Nat, NEW b \in Nat, NEW c \in Nat, NEW d \in Nat,
           a =< c, b =< d, Fits(x, a, b)
    PROVE  Fits(x, c, d)
BY DEF Fits, Knows, Running, Inputs, Builts

\* One session goes a step on and everything else stays.
LEMMA SessionStep ==
    ASSUME BuildInv, NEW s \in Sessions, NEW x, x = None \/ Fits(x, source, toolchain),
           session' = [session EXCEPT ![s] = x], UNCHANGED W!world, cache' = cache
    PROVE  BuildInv'
<1>1. UNCHANGED <<source, toolchain, worker, lacking, host>>  BY DEF W!world
<1>2. session' = [t \in Sessions |-> IF t = s THEN x ELSE session[t]]  BY DEF BuildInv
<1>3. \A t \in Sessions : session'[t] # None => Fits(session'[t], source, toolchain)
  BY <1>2 DEF BuildInv
<1>4. session' = [t \in Sessions |-> session'[t]]  BY <1>2
<1> QED  BY <1>1, <1>3, <1>4 DEF BuildInv

LEMMA Failed ==
    ASSUME NEW x \in Running, NEW e \in Errors
    PROVE  LET y == [[x EXCEPT !.at = 13] EXCEPT !.error = e] IN
           /\ y \in Running /\ y.at = 13 /\ y.input = x.input /\ y.seen = x.seen
           /\ y.verified = x.verified /\ y.launched = x.launched
           /\ y.record = x.record /\ y.built = x.built
<1> DEFINE z == [x EXCEPT !.at = 13]
           y == [z EXCEPT !.error = e]
<1>1. z \in Running /\ z.at = 13 /\ z.input = x.input /\ z.seen = x.seen
      /\ z.verified = x.verified /\ z.launched = x.launched
      /\ z.record = x.record /\ z.built = x.built
  BY DEF Running
<1> HIDE DEF z
<1>2. e \in Errors \union {None}  OBVIOUS
<1>3. y \in Running
  BY <1>1, <1>2 DEF Running
<1>4. y.at = z.at /\ y.input = z.input /\ y.seen = z.seen
      /\ y.verified = z.verified /\ y.launched = z.launched
      /\ y.record = z.record /\ y.built = z.built
  BY <1>1 DEF Running
<1> QED  BY <1>1, <1>3, <1>4 DEF z

\* A session that fails keeps what it knows.
LEMMA FailStep ==
    ASSUME BuildInv, NEW s \in Sessions, session[s] # None, NEW e \in Errors, W!Fail(s, e),
           UNCHANGED W!world, cache' = cache
    PROVE  BuildInv'
<1> DEFINE x == [[session[s] EXCEPT !.at = 13] EXCEPT !.error = e]
<1>1. Fits(session[s], source, toolchain)  BY DEF BuildInv
<1>2. session[s] \in Running  BY <1>1 DEF Fits
<1>3. /\ x \in Running /\ x.at = 13 /\ x.input = session[s].input /\ x.seen = session[s].seen
      /\ x.verified = session[s].verified /\ x.launched = session[s].launched
      /\ x.record = session[s].record /\ x.built = session[s].built
  BY <1>2, Failed
<1>4. session' = [session EXCEPT ![s] = x]
  BY <1>1, Positions DEF W!Fail, BuildInv, Fits, Running
<1> HIDE DEF x
<1>5. Fits(x, source, toolchain)  BY <1>1, <1>3 DEF Fits, Knows
<1> QED  BY <1>4, <1>5, SessionStep

\* A session that goes on.
LEMMA Moved ==
    ASSUME NEW x \in Running, x.at =< 12
    PROVE  LET y == [x EXCEPT !.at = @ + 1] IN
           /\ y \in Running /\ y.at = x.at + 1 /\ y.input = x.input /\ y.seen = x.seen
           /\ y.verified = x.verified /\ y.launched = x.launched
           /\ y.record = x.record /\ y.built = x.built
<1> DEFINE y == [x EXCEPT !.at = @ + 1]
<1>1. x.at + 1 \in 1 .. 13  BY DEF Running
<1>2. y \in Running  BY <1>1 DEF Running
<1>3. y.at = x.at + 1 /\ y.input = x.input /\ y.seen = x.seen
      /\ y.verified = x.verified /\ y.launched = x.launched
      /\ y.record = x.record /\ y.built = x.built
  BY DEF Running
<1> QED  BY <1>2, <1>3

LEMMA GoOn ==
    ASSUME BuildInv, NEW s \in Sessions, NEW next \in Running, next.at =< 12,
           Knows(next, next.at + 1, source, toolchain), W!Step(s, next),
           UNCHANGED W!world, cache' = cache
    PROVE  BuildInv'
<1> DEFINE x == [next EXCEPT !.at = @ + 1]
<1>1. session' = [session EXCEPT ![s] = x]  BY DEF W!Step
<1>2. /\ x \in Running /\ x.at = next.at + 1 /\ x.input = next.input /\ x.seen = next.seen
      /\ x.verified = next.verified /\ x.launched = next.launched
      /\ x.record = next.record /\ x.built = next.built
  BY Moved
<1> HIDE DEF x
<1>3. Fits(x, source, toolchain)  BY <1>2 DEF Fits, Knows
<1> QED  BY <1>1, <1>3, SessionStep

\* A session in the state numbered n of session_states has n - 1 behind it.
LEMMA AtState ==
    ASSUME BuildInv, NEW s \in Sessions, NEW state, W!At(s, state)
    PROVE  /\ session[s] \in Running /\ session[s] # None
           /\ Knows(session[s], session[s].at, source, toolchain)
           /\ session[s].at = W!Position(state) - 1
BY DEF BuildInv, Fits, W!At

LEMMA BeginStep ==
    ASSUME BuildInv, NEW s \in Sessions, NEW policy, W!Begin(s, policy)
    PROVE  BuildInv'
<1> DEFINE x == [at |-> 1, input |-> W!Key(policy), seen |-> {}, verified |-> None, launched |-> None,
                 record |-> None, built |-> None, error |-> None]
<1>1. /\ \/ policy = W!Portable /\ session' = [session EXCEPT ![s] = x]
         \/ session' = [session EXCEPT ![s] = None]
      /\ UNCHANGED <<W!world, cache>>
  BY DEF W!Begin
<1>2. ASSUME policy = W!Portable PROVE Fits(x, source, toolchain)
  <2>1. W!Key(policy) \in Inputs /\ W!Key(policy).source = source /\ W!Key(policy).toolchain = toolchain
    BY <1>2 DEF W!Key, Inputs, BuildInv
  <2>2. x \in Running  BY <2>1 DEF Running
  <2>3. /\ x.at = 1 /\ x.input = W!Key(policy) /\ x.record = None /\ x.built = None  OBVIOUS
  <2> HIDE DEF x
  <2> QED  BY <2>1, <2>2, <2>3 DEF Fits, Knows, BuildInv
<1> HIDE DEF x
<1> QED  BY <1>1, <1>2, SessionStep

LEMMA ProbeStep ==
    ASSUME BuildInv, NEW s \in Sessions, W!ProbeControls(s)
    PROVE  BuildInv'
<1>1. /\ session[s] \in Running /\ session[s] # None
      /\ Knows(session[s], 1, source, toolchain) /\ session[s].at = 1
  BY AtState, Positions DEF W!ProbeControls
<1>2. UNCHANGED W!world /\ cache' = cache  BY DEF W!ProbeControls
<1>3. CASE W!Fail(s, "build_execution_control_unavailable")  BY <1>1, <1>2, <1>3, FailStep DEF Errors
<1> DEFINE next == [session[s] EXCEPT !.seen = host]
<1>4. CASE W!Step(s, next)
  <2>1. host \in SUBSET W!Conditional  BY DEF BuildInv
  <2>2. next \in Running  BY <1>1, <2>1 DEF Running
  <2>3. /\ next.at = 1 /\ next.input = session[s].input /\ next.record = session[s].record
        /\ next.built = session[s].built
    BY <1>1 DEF Running
  <2> HIDE DEF next
  <2>4. Knows(next, 2, source, toolchain)  BY <1>1, <2>3 DEF Knows
  <2> QED  BY <1>2, <1>4, <2>2, <2>3, <2>4, GoOn
<1> QED  BY <1>3, <1>4 DEF W!ProbeControls

LEMMA WorkerStep ==
    ASSUME BuildInv, NEW s \in Sessions, W!VerifyWorker(s) \/ W!Launch(s) \/ W!Proof(s)
    PROVE  BuildInv'
<1>1. UNCHANGED W!world /\ cache' = cache  BY DEF W!VerifyWorker, W!Launch, W!Proof
<1>2. worker \in Nat \union {None}  BY DEF BuildInv
<1>3. CASE W!VerifyWorker(s)
  <2> DEFINE next == [session[s] EXCEPT !.verified = worker]
  <2>1. /\ session[s] \in Running /\ Knows(session[s], 2, source, toolchain)
        /\ session[s].at = 2
    BY <1>3, AtState, Positions DEF W!VerifyWorker
  <2>2. next \in Running  BY <1>2, <2>1 DEF Running
  <2>3. /\ next.at = 2 /\ next.input = session[s].input /\ next.record = session[s].record
        /\ next.built = session[s].built
    BY <2>1 DEF Running
  <2>4. W!Step(s, next)  BY <1>3 DEF W!VerifyWorker
  <2> HIDE DEF next
  <2>5. Knows(next, 3, source, toolchain)  BY <2>1, <2>3 DEF Knows
  <2> QED  BY <1>1, <2>2, <2>3, <2>4, <2>5, GoOn
<1>4. CASE W!Launch(s)
  <2> DEFINE next == [session[s] EXCEPT !.launched = worker]
  <2>1. /\ session[s] \in Running /\ Knows(session[s], 3, source, toolchain)
        /\ session[s].at = 3
    BY <1>4, AtState, Positions DEF W!Launch
  <2>2. next \in Running  BY <1>2, <2>1 DEF Running
  <2>3. /\ next.at = 3 /\ next.input = session[s].input /\ next.record = session[s].record
        /\ next.built = session[s].built
    BY <2>1 DEF Running
  <2>4. W!Step(s, next)  BY <1>4 DEF W!Launch
  <2> HIDE DEF next
  <2>5. Knows(next, 4, source, toolchain)  BY <2>1, <2>3 DEF Knows
  <2> QED  BY <1>1, <2>2, <2>3, <2>4, <2>5, GoOn
<1>5. CASE W!Proof(s)
  <2>1. /\ session[s] \in Running /\ session[s] # None /\ Knows(session[s], 4, source, toolchain)
        /\ session[s].at = 4
    BY <1>5, AtState, Positions DEF W!Proof
  <2>2. CASE session[s].launched = session[s].verified /\ W!Step(s, session[s])
    <3>1. Knows(session[s], 5, source, toolchain)  BY <2>1, <2>2 DEF Knows
    <3> QED  BY <1>1, <2>1, <2>2, <3>1, GoOn
  <2>3. CASE W!Fail(s, "build_execution_worker_identity_invalid")
    BY <1>1, <2>1, <2>3, FailStep DEF Errors
  <2> QED  BY <1>5, <2>2, <2>3 DEF W!Proof
<1> QED  BY <1>3, <1>4, <1>5

LEMMA HonestControls ==
    ASSUME NEW seen PROVE W!Honest(seen) \in Controls /\ W!Honest(seen) # None
<1> DEFINE e == [n \in DOMAIN Native |->
                   [availability |-> W!Probed(n, seen),
                    status |-> IF W!Probed(n, seen) = "available" THEN "applied" ELSE "unavailable"]]
<1>1. \A n \in DOMAIN Native : W!Probed(n, seen) \in {"available", "unavailable"}
  BY PartsAssumption DEF W!Probed, W!BuildAssumption, W!Availabilities
<1>2. e \in [DOMAIN Native -> W!Entries]  BY <1>1 DEF W!Entries
<1> HIDE DEF e
<1>3. W!Honest(seen) = [policy |-> W!Portable, version |-> "current", extra |-> {}, entries |-> e]
  BY DEF W!Honest, e
<1>4. W!Honest(seen) \in Controls  BY <1>2, <1>3 DEF Controls
<1>5. None \notin Controls
  <2>1. W!Portable \in W!Policies  BY DEF W!Policies
  <2> QED  BY <2>1, PartsAssumption DEF Controls, W!BuildAssumption
<1> QED  BY <1>4, <1>5

\* The validator lets through nothing but what an honest probe of the session says.
LEMMA HonestEvidence ==
    ASSUME NEW seen, NEW n \in DOMAIN Native, NEW e \in W!Entries,
           NEW r \in W!Garbled(W!Honest(seen), n, e), W!EvidenceError(r, seen) = None
    PROVE  r = W!Honest(seen)
<1> DEFINE h == W!Honest(seen)
<1>1. /\ h.policy = W!Portable /\ h.version = "current" /\ h.extra = {}
      /\ h.entries = [k \in DOMAIN Native |->
           [availability |-> W!Probed(k, seen),
            status |-> IF W!Probed(k, seen) = "available" THEN "applied" ELSE "unavailable"]]
      /\ h.entries \in [DOMAIN Native -> W!Entries]
      /\ h = [policy |-> h.policy, version |-> h.version, extra |-> h.extra, entries |-> h.entries]
  <2>1. h.policy = W!Portable /\ h.version = "current" /\ h.extra = {}  BY DEF W!Honest
  <2>2. h.entries = [k \in DOMAIN Native |->
           [availability |-> W!Probed(k, seen),
            status |-> IF W!Probed(k, seen) = "available" THEN "applied" ELSE "unavailable"]]
    BY DEF W!Honest
  <2>3. h \in Controls  BY HonestControls
  <2> HIDE DEF h
  <2>4. /\ h.entries \in [DOMAIN Native -> W!Entries]
        /\ h = [policy |-> h.policy, version |-> h.version, extra |-> h.extra, entries |-> h.entries]
    BY <2>3 DEF Controls
  <2> QED  BY <2>1, <2>2, <2>4
<1>2. /\ r.policy = W!Portable /\ r.extra = {} /\ r.version = "current" /\ W!StatusFits(r, seen)
  BY PartsAssumption DEF W!EvidenceError, W!EvidenceErrors, W!BuildAssumption
<1> HIDE DEF h
<1>3. \/ r = h \/ r = [h EXCEPT !.policy = "hardened"] \/ r = [h EXCEPT !.version = "unknown"]
      \/ r = [h EXCEPT !.extra = {n}] \/ r = [h EXCEPT !.extra = Deferred]
      \/ r = [h EXCEPT !.entries[n] = e]
  BY DEF W!Garbled, h
<1>4. /\ r = [policy |-> r.policy, version |-> r.version, extra |-> r.extra, entries |-> r.entries]
      /\ r.entries \in [DOMAIN Native -> W!Entries]
  <2>1. CASE r = h  BY <1>1, <2>1
  <2>2. CASE r = [h EXCEPT !.policy = "hardened"]  BY <1>1, <2>2
  <2>3. CASE r = [h EXCEPT !.version = "unknown"]  BY <1>1, <2>3
  <2>4. CASE r = [h EXCEPT !.extra = {n}] \/ r = [h EXCEPT !.extra = Deferred]  BY <1>1, <2>4
  <2>5. CASE r = [h EXCEPT !.entries[n] = e]
    <3>1. [h.entries EXCEPT ![n] = e] \in [DOMAIN Native -> W!Entries]  BY <1>1
    <3>2. r = [h EXCEPT !.entries = [h.entries EXCEPT ![n] = e]]  BY <2>5
    <3> QED  BY <1>1, <3>1, <3>2
  <2> QED  BY <1>3, <2>1, <2>2, <2>3, <2>4, <2>5
<1>5. r.entries = h.entries
  <2>1. \A k \in DOMAIN Native : r.entries[k] \in W!Entries  BY <1>4
  <2>2. \A x \in W!Entries : x = [availability |-> x.availability, status |-> x.status]
    BY DEF W!Entries
  <2>3. \A k \in DOMAIN Native : r.entries[k] =
          [availability |-> W!Probed(k, seen),
           status |-> IF W!Probed(k, seen) = "available" THEN "applied" ELSE "unavailable"]
    BY <1>2, <2>1, <2>2 DEF W!StatusFits
  <2>4. \A k \in DOMAIN Native : r.entries[k] = h.entries[k]  BY <1>1, <2>3
  <2> QED  BY <1>1, <1>4, <2>4
<1> QED  BY <1>1, <1>2, <1>4, <1>5 DEF h

LEMMA EvidenceStep ==
    ASSUME BuildInv, NEW s \in Sessions, NEW n \in DOMAIN Native, NEW e \in W!Entries,
           NEW r \in W!Garbled(W!Honest(session[s].seen), n, e), W!Evidence(s, r)
    PROVE  BuildInv'
<1> DEFINE error == W!EvidenceError(r, session[s].seen)
           next == [session[s] EXCEPT !.record = r]
<1>1. /\ session[s] \in Running /\ session[s] # None
      /\ Knows(session[s], 5, source, toolchain) /\ session[s].at = 5
  BY AtState, Positions DEF W!Evidence
<1>2. UNCHANGED W!world /\ cache' = cache  BY DEF W!Evidence
<1>3. CASE error = None /\ W!Step(s, next)
  <2>1. r = W!Honest(session[s].seen)  BY <1>3, HonestEvidence
  <2>2. r \in Controls /\ r # None  BY <2>1, HonestControls
  <2>3. next \in Running  BY <1>1, <2>2 DEF Running
  <2>4. /\ next.at = 5 /\ next.input = session[s].input /\ next.record = r
        /\ next.seen = session[s].seen /\ next.built = session[s].built
        /\ next.verified = session[s].verified /\ next.launched = session[s].launched
    BY <1>1 DEF Running
  <2> HIDE DEF next
  <2>5. Knows(next, 6, source, toolchain)  BY <1>1, <2>1, <2>2, <2>4 DEF Knows
  <2> QED  BY <1>2, <1>3, <2>3, <2>4, <2>5, GoOn
<1>4. CASE error # None /\ W!Fail(s, error)
  <2>1. error \in Errors  BY <1>4 DEF W!EvidenceError, Errors
  <2> HIDE DEF error
  <2> QED  BY <1>1, <1>2, <1>4, <2>1, FailStep
<1> QED  BY <1>3, <1>4 DEF W!Evidence

LEMMA ExchangeStep ==
    ASSUME BuildInv, NEW s \in Sessions, NEW message \in {"expected", "unexpected", "program"},
           W!Exchange(s, message)
    PROVE  BuildInv'
<1>1. PICK n \in 6 .. 8 :
        /\ session[s] \in Running /\ session[s] # None
        /\ Knows(session[s], n, source, toolchain) /\ session[s].at = n
  BY AtState, Positions DEF W!Exchange
<1>2. UNCHANGED W!world /\ cache' = cache  BY DEF W!Exchange
<1>3. Knows(session[s], n + 1, source, toolchain)  BY <1>1 DEF Knows
<1>4. \/ W!Step(s, session[s]) \/ W!Fail(s, "build_execution_worker_protocol_invalid")
      \/ W!Fail(s, "build_execution_worker_identity_invalid")
  BY DEF W!Exchange
<1> QED  BY <1>1, <1>2, <1>3, <1>4, GoOn, FailStep DEF Errors

LEMMA CompileStep ==
    ASSUME BuildInv, NEW s \in Sessions, W!Build(s)
    PROVE  BuildInv'
<1> DEFINE b == [source |-> source, toolchain |-> toolchain, worker |-> session[s].launched]
           next == [session[s] EXCEPT !.built = b]
<1>1. /\ session[s] \in Running /\ Knows(session[s], 9, source, toolchain)
      /\ session[s].at = 9
  BY AtState, Positions DEF W!Build
<1>2. UNCHANGED W!world /\ cache' = cache /\ W!Step(s, next)  BY DEF W!Build
<1>3. b \in Builts  BY <1>1 DEF Builts, Running, BuildInv
<1>4. b.source = source /\ b.toolchain = toolchain /\ b.worker = session[s].launched  OBVIOUS
<1> HIDE DEF b
<1>5. next \in Running  BY <1>1, <1>3 DEF Running
<1>6. /\ next.at = 9 /\ next.input = session[s].input /\ next.record = session[s].record
      /\ next.seen = session[s].seen /\ next.built = b
      /\ next.verified = session[s].verified /\ next.launched = session[s].launched
  BY <1>1 DEF Running
<1> HIDE DEF next
<1>7. session[s].input.source \in Nat /\ session[s].input.toolchain \in Nat
  BY <1>1 DEF Running, Inputs
<1>8. Knows(next, 10, source, toolchain)
  BY <1>1, <1>3, <1>4, <1>6, <1>7 DEF Knows, BuildInv
<1> QED  BY <1>2, <1>5, <1>6, <1>8, GoOn

LEMMA CheckStep ==
    ASSUME BuildInv, NEW s \in Sessions, (\E b \in BOOLEAN : W!VerifyArtifact(s, b)) \/ W!Reverify(s)
    PROVE  BuildInv'
<1>1. UNCHANGED W!world /\ cache' = cache  BY DEF W!VerifyArtifact, W!Reverify
<1>2. CASE \E b \in BOOLEAN : W!VerifyArtifact(s, b)
  <2>1. /\ session[s] \in Running /\ session[s] # None
        /\ Knows(session[s], 10, source, toolchain) /\ session[s].at = 10
    BY <1>2, AtState, Positions DEF W!VerifyArtifact
  <2>2. Knows(session[s], 11, source, toolchain)  BY <2>1 DEF Knows
  <2>3. W!Step(s, session[s]) \/ W!Fail(s, "build_execution_worker_protocol_invalid")
    BY <1>2 DEF W!VerifyArtifact
  <2> QED  BY <1>1, <2>1, <2>2, <2>3, GoOn, FailStep DEF Errors
<1>3. CASE W!Reverify(s)
  <2>1. /\ session[s] \in Running /\ session[s] # None
        /\ Knows(session[s], 11, source, toolchain) /\ session[s].at = 11
    BY <1>3, AtState, Positions DEF W!Reverify
  <2>2. CASE W!Unchanged(session[s]) /\ W!Step(s, session[s])
    <3>1. session[s].input.source = source /\ session[s].input.toolchain = toolchain
      BY <2>2 DEF W!Unchanged
    <3>2. Knows(session[s], 12, source, toolchain)
      BY <2>1, <3>1 DEF Knows, BuildInv, Builts
    <3> QED  BY <1>1, <2>1, <2>2, <3>2, GoOn
  <2>3. CASE W!Fail(s, "build_execution_worker_identity_invalid")
    BY <1>1, <2>1, <2>3, FailStep DEF Errors
  <2> QED  BY <1>3, <2>2, <2>3 DEF W!Reverify
<1> QED  BY <1>2, <1>3

\* What is published passed the last look at what it was built of.
LEMMA PublishBuild ==
    ASSUME BuildInv, NEW s \in Sessions, W!Publish(s)
    PROVE  BuildInv'
<1> DEFINE x == session[s]
<1>1. x \in Running /\ Knows(x, 12, source, toolchain) /\ x.at = 12
  BY AtState, Positions DEF W!Publish
<1>2. /\ cache' = [k \in DOMAIN cache \union {x.input} |->
                     IF k \in DOMAIN cache THEN cache[k] ELSE x.built]
      /\ W!Step(s, x) /\ UNCHANGED W!world
  BY DEF W!Publish
<1>3. x.input.policy = W!Portable  BY <1>1 DEF Running, Inputs
<1>4. x.built.source = x.input.source /\ x.built.toolchain = x.input.toolchain
  BY <1>1 DEF Knows
<1>5. \A k \in DOMAIN cache' :
        k.policy = W!Portable /\ cache'[k].source = k.source /\ cache'[k].toolchain = k.toolchain
  BY <1>2, <1>3, <1>4 DEF BuildInv
<1> DEFINE next == [x EXCEPT !.at = @ + 1]
<1>6. /\ next \in Running /\ next.at = 13 /\ next.input = x.input /\ next.seen = x.seen
      /\ next.verified = x.verified /\ next.launched = x.launched
      /\ next.record = x.record /\ next.built = x.built
  BY <1>1, Moved
<1>7. session' = [session EXCEPT ![s] = next]  BY <1>2 DEF W!Step
<1> HIDE DEF x, next
<1>8. Fits(next, source, toolchain)  BY <1>1, <1>6 DEF Fits, Knows
<1>9. UNCHANGED <<source, toolchain, worker, lacking, host>>  BY <1>2 DEF W!world
<1>10. session' = [t \in Sessions |-> IF t = s THEN next ELSE session[t]]  BY <1>7 DEF BuildInv
<1>11. \A t \in Sessions : session'[t] # None => Fits(session'[t], source, toolchain)
  BY <1>8, <1>10 DEF BuildInv
<1>12. session' = [t \in Sessions |-> session'[t]]  BY <1>10
<1> QED  BY <1>5, <1>9, <1>11, <1>12 DEF BuildInv

LEMMA WorldStep ==
    ASSUME BuildInv,
           \/ W!ChangeSource \/ W!ChangeToolchain \/ W!ReplaceWorker
           \/ \E l \in SUBSET Mandatory, h \in SUBSET W!Conditional : W!HostChanges(l, h)
           \/ UNCHANGED buildVars
    PROVE  BuildInv'
<1>1. /\ session' = session /\ cache' = cache
      /\ lacking' \subseteq Mandatory /\ host' \subseteq W!Conditional
      /\ source' \in Nat /\ toolchain' \in Nat /\ worker' \in Nat
      /\ source =< source' /\ toolchain =< toolchain'
      /\ source' + toolchain' + worker' =< MaxChanges
  BY PartsAssumption
  DEF BuildInv, W!ChangeSource, W!ChangeToolchain, W!ReplaceWorker, W!HostChanges, W!Changes,
      buildVars, W!BuildAssumption
<1>2. ASSUME NEW s \in Sessions, session[s] # None PROVE Fits(session[s], source', toolchain')
  BY <1>1, <1>2, StillFits DEF BuildInv
<1> QED  BY <1>1, <1>2 DEF BuildInv

LEMMA BuildNext == BuildInv /\ (W!Next \/ UNCHANGED buildVars) => BuildInv'
<1> SUFFICES ASSUME BuildInv, W!Next PROVE BuildInv'  BY WorldStep
<1>1. ASSUME NEW s \in Sessions, NEW n \in DOMAIN Native, NEW e \in W!Entries,
             \E r \in W!Garbled(W!Honest(session[s].seen), n, e) : W!Evidence(s, r)
      PROVE  BuildInv'
  BY <1>1, EvidenceStep
<1>2. ASSUME NEW s \in Sessions, \E m \in {"expected", "unexpected", "program"} : W!Exchange(s, m)
      PROVE  BuildInv'
  BY <1>2, ExchangeStep
<1>3. ASSUME NEW s \in Sessions, \E p \in W!Policies : W!Begin(s, p) PROVE BuildInv'
  BY <1>3, BeginStep
<1> QED
  BY <1>1, <1>2, <1>3, WorldStep, ProbeStep, WorkerStep, CompileStep, CheckStep, PublishBuild
  DEF W!Next

\* What is published for a build input was built of exactly that input, by the worker
\* that was verified and on honest evidence, for any sessions side by side.
THEOREM BuildSafety == SpecAll => []BuildsAreTheirKeys
<1> DEFINE Inv == part = "build" => BuildInv
<1>1. InitAll => Inv
  <2>1. W!Init => BuildInv
    BY PartsAssumption DEF W!Init, BuildInv, W!BuildAssumption
  <2> QED  BY <2>1, PartSteps
<1>2. Inv /\ [NextAll]_<<part, vars, buildVars, rangeVars, flowVars>> => Inv'
  BY PartSteps, BuildNext
<1>3. Inv => BuildsAreTheirKeys
  <2> SUFFICES ASSUME BuildInv PROVE W!TypeOK /\ W!CachedIsItsKey /\ W!EvidenceIsHonest
    BY DEF BuildsAreTheirKeys
  <2>1. {source, toolchain, worker} \subseteq W!Versions
    BY PartsAssumption DEF BuildInv, W!Versions, W!BuildAssumption
  <2>2. W!TypeOK  BY <2>1, Positions DEF BuildInv, Fits, Running, W!TypeOK
  <2>3. W!CachedIsItsKey  BY DEF BuildInv, W!CachedIsItsKey
  <2>4. W!EvidenceIsHonest  BY DEF BuildInv, Fits, Knows, W!EvidenceIsHonest
  <2> QED  BY <2>2, <2>3, <2>4
<1> QED  BY <1>1, <1>2, <1>3, PTL DEF SpecAll

--------------------------------------------------------------------------------
(* Version ranges.                                                                *)

Cores == [1 .. 3 -> Nat]

\* The first n components decide.
Before3(a, b, n) ==
    \/ n >= 1 /\ a[1] < b[1]
    \/ n >= 2 /\ a[1] = b[1] /\ a[2] < b[2]
    \/ n >= 3 /\ a[1] = b[1] /\ a[2] = b[2] /\ a[3] < b[3]
Same3(a, b, n) ==
    /\ n >= 1 => a[1] = b[1]
    /\ n >= 2 => a[2] = b[2]
    /\ n >= 3 => a[3] = b[3]

LEMMA CoreIsSequence == ASSUME NEW a \in Cores PROVE a \in Seq(Nat) /\ Len(a) = 3
<1>1. Seq(Nat) = UNION {[1 .. n -> Nat] : n \in Nat}  BY SeqDef
<1>2. a \in Seq(Nat)  BY <1>1 DEF Cores
<1>3. Len(a) = 3  BY DEF Cores
<1> QED  BY <1>2, <1>3

LEMMA PrefixOf ==
    ASSUME NEW a \in Cores, NEW n \in 0 .. 3
    PROVE  /\ Len(R!Prefix(a, n)) = n /\ DOMAIN R!Prefix(a, n) = 1 .. n
           /\ \A i \in 1 .. n : R!Prefix(a, n)[i] = a[i]
           /\ R!Prefix(a, n) \in Seq(Nat)
BY CoreIsSequence DEF R!Prefix

LEMMA Steps3 ==
    ASSUME NEW a, NEW b, NEW n \in 0 .. 3, \A i \in 1 .. n : a[i] \in Nat /\ b[i] \in Nat
    PROVE  /\ (\E i \in 1 .. n : (\A j \in 1 .. (i - 1) : a[j] = b[j]) /\ a[i] < b[i])
                <=> Before3(a, b, n)
           /\ (\A i \in 1 .. n : a[i] = b[i]) <=> Same3(a, b, n)
<1>1. CASE n = 0  BY <1>1 DEF Before3, Same3
<1>2. CASE n = 1
  <2>1. 1 .. n = {1} /\ 1 .. (1 - 1) = {}  BY <1>2
  <2> QED  BY <1>2, <2>1 DEF Before3, Same3
<1>3. CASE n = 2
  <2>1. 1 .. n = {1, 2} /\ 1 .. (1 - 1) = {} /\ 1 .. (2 - 1) = {1}  BY <1>3
  <2> QED  BY <1>3, <2>1 DEF Before3, Same3
<1>4. CASE n = 3
  <2>1. 1 .. n = {1, 2, 3} /\ 1 .. (1 - 1) = {} /\ 1 .. (2 - 1) = {1} /\ 1 .. (3 - 1) = {1, 2}
    BY <1>4
  <2> QED  BY <1>4, <2>1 DEF Before3, Same3
<1> QED  BY <1>1, <1>2, <1>3, <1>4

LEMMA OrderOfSequences ==
    ASSUME NEW a, NEW b, NEW n \in Nat, Len(a) = n, Len(b) = n
    PROVE  R!NumbersBefore(a, b) <=>
             \E i \in 1 .. n : (\A j \in 1 .. (i - 1) : a[j] = b[j]) /\ a[i] < b[i]
BY DEF R!NumbersBefore, R!SeqBefore

LEMMA PrefixOrder ==
    ASSUME NEW a \in Cores, NEW b \in Cores, NEW n \in 0 .. 3
    PROVE  /\ R!NumbersBefore(R!Prefix(a, n), R!Prefix(b, n)) <=> Before3(a, b, n)
           /\ R!Prefix(a, n) = R!Prefix(b, n) <=> Same3(a, b, n)
<1> DEFINE p == R!Prefix(a, n)
           q == R!Prefix(b, n)
<1>1. /\ Len(p) = n /\ Len(q) = n /\ p \in Seq(Nat) /\ q \in Seq(Nat)
      /\ \A i \in 1 .. n : p[i] = a[i] /\ q[i] = b[i]
  BY PrefixOf
<1> HIDE DEF p, q
<1>2. \A i \in 1 .. n : i \in 1 .. 3 /\ a[i] \in Nat /\ b[i] \in Nat  BY DEF Cores
<1>3. \A i \in 1 .. n : p[i] \in Nat /\ q[i] \in Nat  BY <1>1, <1>2
<1>4. R!NumbersBefore(p, q) <=>
        \E i \in 1 .. n : (\A j \in 1 .. (i - 1) : p[j] = q[j]) /\ p[i] < q[i]
  <2>1. n \in Nat /\ Len(p) = n /\ Len(q) = n  BY <1>1
  <2> QED  BY ONLY <2>1, OrderOfSequences
<1>5. (p = q) <=> \A i \in 1 .. n : p[i] = q[i]
  <2>1. ASSUME \A i \in 1 .. n : p[i] = q[i] PROVE p = q
    <3>1. Len(p) = Len(q) /\ \A i \in 1 .. Len(p) : p[i] = q[i]  BY <1>1, <2>1
    <3> QED  BY ONLY <1>1, <3>1, SeqEqual
  <2> QED  BY <2>1
<1>6. (R!NumbersBefore(p, q) <=> Before3(p, q, n)) /\ ((p = q) <=> Same3(p, q, n))
  BY <1>3, <1>4, <1>5, Steps3
<1>7. (Before3(p, q, n) <=> Before3(a, b, n)) /\ (Same3(p, q, n) <=> Same3(a, b, n))
  BY <1>1 DEF Before3, Same3
<1> QED  BY <1>6, <1>7 DEF p, q

\* The order of full cores is that of all three components.
LEMMA CoreOrder ==
    ASSUME NEW a \in Cores, NEW b \in Cores
    PROVE  (R!NumbersBefore(a, b) <=> Before3(a, b, 3)) /\ ((a = b) <=> Same3(a, b, 3))
<1>1. \A i \in 1 .. 3 : a[i] \in Nat /\ b[i] \in Nat  BY DEF Cores
<1>2. R!NumbersBefore(a, b) <=>
        \E i \in 1 .. 3 : (\A j \in 1 .. (i - 1) : a[j] = b[j]) /\ a[i] < b[i]
  BY CoreIsSequence, OrderOfSequences
<1>3. (a = b) <=> \A i \in 1 .. 3 : a[i] = b[i]  BY DEF Cores
<1> QED  BY <1>1, <1>2, <1>3, Steps3

--------------------------------------------------------------------------------
\* A text that the gate can read: its components, the others as zeros.
Readings == [n : 0 .. 3, core : Cores, pre : Seq(Nat \X Nat)]
Fitting(q) ==
    /\ q \in Readings
    /\ \A i \in 1 .. 3 : i > q.n => q.core[i] = 0
    /\ q.pre # <<>> => q.n = 3

LEMMA WrittenIs ==
    ASSUME NEW t \in R!Texts, R!Legible(t)
    PROVE  /\ R!Written(t.parts) \in 0 .. 3 /\ R!Written(t.parts) =< Len(t.parts)
           /\ \A i \in 1 .. R!Written(t.parts) : t.parts[i] \in Nat
<1> DEFINE s == t.parts
           Ends(n) == /\ \A i \in 1 .. n : s[i] # wild
                      /\ n < Len(s) => s[n + 1] = wild
<1>1. s \in Seq(Nat \union {wild, junk}) /\ Len(s) \in 1 .. 3  BY DEF R!Texts, R!Legible
<1>a. Len(s) \in 1 .. 3 /\ \A n \in 1 .. 3 : 0 \in 0 .. n /\ 1 \in 0 .. n  BY <1>1
<1>b. 1 .. 0 = {} /\ 1 .. 1 = {1} /\ 1 .. 2 = {1, 2} /\ 1 .. 3 = {1, 2, 3}  OBVIOUS
<1>2. \E n \in 0 .. Len(s) : Ends(n)
  <2>1. CASE s[1] = wild
    <3>1. 0 \in 0 .. Len(s) /\ 1 .. 0 = {} /\ 0 + 1 = 1  BY ONLY <1>a, <1>b
    <3>2. Ends(0)  BY <2>1, <3>1
    <3> QED  BY <3>1, <3>2
  <2>2. CASE s[1] # wild /\ (Len(s) = 1 \/ s[2] = wild)
    <3>1. 1 \in 0 .. Len(s)  BY ONLY <1>a
    <3>2. Ends(1)  BY <1>1, <1>b, <2>2
    <3> QED  BY <3>1, <3>2
  <2>3. CASE s[1] # wild /\ Len(s) >= 2 /\ s[2] # wild /\ (Len(s) = 2 \/ s[3] = wild)
    <3>1. 2 \in 0 .. Len(s) /\ 1 .. 2 = {1, 2}  BY ONLY <1>a, <1>b, <2>3
    <3>2. Ends(2)  BY <1>1, <2>3, <3>1
    <3> QED  BY <3>1, <3>2
  <2>4. CASE s[1] # wild /\ Len(s) = 3 /\ s[2] # wild /\ s[3] # wild
    <3>1. 3 \in 0 .. Len(s) /\ 1 .. 3 = {1, 2, 3}  BY ONLY <1>a, <1>b, <2>4
    <3>2. Ends(3)  BY <1>1, <2>4, <3>1
    <3> QED  BY <3>1, <3>2
  <2>5. Len(s) = 1 \/ Len(s) = 2 \/ Len(s) = 3  BY <1>1
  <2> QED  BY <2>1, <2>2, <2>3, <2>4, <2>5
<1>3. R!Written(s) = CHOOSE n \in 0 .. Len(s) : Ends(n)  BY DEF R!Written
<1>4. R!Written(s) \in 0 .. Len(s) /\ Ends(R!Written(s))  BY <1>2, <1>3
<1>5. \A i \in 1 .. R!Written(s) : s[i] # junk  BY DEF R!Legible
<1>6. \A i \in 1 .. Len(s) : s[i] \in Nat \union {wild, junk}  BY <1>1
<1> HIDE DEF s
<1> QED  BY <1>1, <1>4, <1>5, <1>6 DEF s

LEMMA PartialFits ==
    ASSUME NEW t \in R!Texts, R!Legible(t)
    PROVE  Fitting(R!Partial(t)) /\ (t.pre = nopre => R!Partial(t).pre = <<>>)
<1> DEFINE w == R!Written(t.parts)
           core == [i \in 1 .. 3 |-> IF i =< w THEN t.parts[i] ELSE 0]
           pre == IF t.pre = nopre THEN <<>> ELSE t.pre
<1>1. w \in 0 .. 3 /\ \A i \in 1 .. w : t.parts[i] \in Nat  BY WrittenIs
<1>2. R!Partial(t) = [n |-> w, core |-> core, pre |-> pre]  BY DEF R!Partial
<1>3. core \in Cores /\ \A i \in 1 .. 3 : i > w => core[i] = 0  BY <1>1 DEF Cores
<1>4. pre \in Seq(Nat \X Nat)  BY DEF R!Texts
<1>5. pre # <<>> => w = 3  BY DEF R!Legible
<1> HIDE DEF w, core
<1>6. t.pre = nopre => pre = <<>>  OBVIOUS
<1> HIDE DEF pre
<1> QED  BY <1>1, <1>2, <1>3, <1>4, <1>5, <1>6 DEF Fitting, Readings

--------------------------------------------------------------------------------
\* What a comparator says of a release.
Releases == [core : Cores, pre : {<<>>}]
Bounds == [core : Cores, pre : Seq(Nat \X Nat)]

LEMMA ReleaseBefore ==
    ASSUME NEW v \in Releases, NEW b \in Bounds
    PROVE  /\ R!Before(v, b) <=> Before3(v.core, b.core, 3)
           /\ R!Before(b, v) <=>
                 Before3(b.core, v.core, 3) \/ (Same3(v.core, b.core, 3) /\ b.pre # <<>>)
           /\ (v = b) <=> (Same3(v.core, b.core, 3) /\ b.pre = <<>>)
<1>1. v.core \in Cores /\ b.core \in Cores /\ v.pre = <<>>  BY DEF Releases, Bounds
<1>2. ~R!PreBefore(v.pre, b.pre) /\ (R!PreBefore(b.pre, v.pre) <=> b.pre # <<>>)
  BY <1>1 DEF R!PreBefore
<1>3. (v = b) <=> (v.core = b.core /\ b.pre = <<>>)  BY <1>1 DEF Releases, Bounds
<1>4. (v.core = b.core) <=> Same3(v.core, b.core, 3)  BY <1>1, CoreOrder
<1>5. /\ R!NumbersBefore(v.core, b.core) <=> Before3(v.core, b.core, 3)
      /\ R!NumbersBefore(b.core, v.core) <=> Before3(b.core, v.core, 3)
  BY <1>1, CoreOrder
<1> QED  BY <1>2, <1>3, <1>4, <1>5 DEF R!Before

LEMMA ReleaseMatches ==
    ASSUME NEW v \in Releases, NEW b \in Bounds
    PROVE  /\ R!Matches(R!Comparator("=", b), v) <=> (Same3(v.core, b.core, 3) /\ b.pre = <<>>)
           /\ R!Matches(R!Comparator(">", b), v) <=>
                Before3(b.core, v.core, 3) \/ (Same3(v.core, b.core, 3) /\ b.pre # <<>>)
           /\ R!Matches(R!Comparator(">=", b), v) <=> ~Before3(v.core, b.core, 3)
           /\ R!Matches(R!Comparator("<", b), v) <=> Before3(v.core, b.core, 3)
           /\ R!Matches(R!Comparator("<=", b), v) <=>
                ~(Before3(b.core, v.core, 3) \/ (Same3(v.core, b.core, 3) /\ b.pre # <<>>))
BY ReleaseBefore DEF R!Matches, R!Comparator

LEMMA BumpedCore ==
    ASSUME NEW a \in Cores, NEW i \in 1 .. 3
    PROVE  /\ R!Bump(a, i) \in Cores
           /\ i = 1 => R!Bump(a, i)[1] = a[1] + 1 /\ R!Bump(a, i)[2] = 0 /\ R!Bump(a, i)[3] = 0
           /\ i = 2 => R!Bump(a, i)[1] = a[1] /\ R!Bump(a, i)[2] = a[2] + 1 /\ R!Bump(a, i)[3] = 0
           /\ i = 3 => R!Bump(a, i)[1] = a[1] /\ R!Bump(a, i)[2] = a[2] /\ R!Bump(a, i)[3] = a[3] + 1
BY DEF R!Bump, Cores

\* From a reading to the next value of its component i: the releases at or above it
\* that agree with it up to that component.
LEMMA UptoIs ==
    ASSUME NEW v \in Releases, NEW q, Fitting(q), NEW i \in 1 .. 3
    PROVE  (\A c \in R!Upto(q, i) : R!Matches(c, v)) <=>
             ~Before3(v.core, q.core, 3)
             /\ Before3(v.core, R!Bump(q.core, i), 3)
<1>1. R!Full(q) \in Bounds /\ R!Full(q).core = q.core
  BY DEF R!Full, R!Version, Fitting, Readings, Bounds
<1>2. R!Lowest(R!Bump(q.core, i)) \in Bounds /\ R!Lowest(R!Bump(q.core, i)).core = R!Bump(q.core, i)
  BY BumpedCore DEF R!Lowest, R!Version, R!Zero, Fitting, Readings, Bounds
<1> QED  BY <1>1, <1>2, ReleaseMatches DEF R!Upto

--------------------------------------------------------------------------------
\* The reference reading, by components.
LEMMA Reading ==
    ASSUME NEW v \in Releases, NEW q, Fitting(q), NEW n \in 0 .. 3
    PROVE  /\ R!Agree(v, q, n) <=> Same3(v.core, q.core, n)
           /\ R!Above(v, q) <=> Before3(q.core, v.core, q.n)
           /\ R!Below(v, q) <=> Before3(v.core, q.core, q.n)
<1>1. v.core \in Cores /\ q.core \in Cores /\ q.n \in 0 .. 3
  BY DEF Releases, Fitting, Readings
<1> QED  BY <1>1, PrefixOrder DEF R!Agree, R!Above, R!Below

\* The component a caret keeps: the first that is not zero, or the last written.
FirstOf(q) ==
    IF q.core[1] # 0 THEN 1 ELSE IF q.core[2] # 0 THEN 2 ELSE IF q.core[3] # 0 THEN 3 ELSE q.n

LEMMA LeadingIs ==
    ASSUME NEW q, Fitting(q), q.n # 0
    PROVE  R!Leading(q) = FirstOf(q)
<1> DEFINE L(i) == q.core[i] > 0 /\ \A j \in 1 .. (i - 1) : q.core[j] = 0
<1>1. /\ q.n \in 1 .. 3 /\ q.core[1] \in Nat /\ q.core[2] \in Nat /\ q.core[3] \in Nat
      /\ 2 > q.n => q.core[2] = 0
      /\ 3 > q.n => q.core[3] = 0
  BY DEF Fitting, Readings, Cores
<1>2. /\ L(1) <=> q.core[1] # 0
      /\ L(2) <=> q.core[1] = 0 /\ q.core[2] # 0
      /\ L(3) <=> q.core[1] = 0 /\ q.core[2] = 0 /\ q.core[3] # 0
  <2>1. 1 .. (1 - 1) = {} /\ 1 .. (2 - 1) = {1} /\ 1 .. (3 - 1) = {1, 2}  OBVIOUS
  <2> QED  BY <1>1, <2>1
<1>3. R!Leading(q) = IF \E i \in 1 .. q.n : q.core[i] > 0 THEN CHOOSE i \in 1 .. q.n : L(i) ELSE q.n
  BY DEF R!Leading
<1>4. \A i \in 1 .. q.n : i = 1 \/ i = 2 \/ i = 3  BY <1>1
<1> HIDE DEF L
<1>5. CASE q.core[1] # 0
  <2>1. 1 \in 1 .. q.n /\ L(1) /\ q.core[1] > 0  BY <1>1, <1>2, <1>5
  <2>2. \A i \in 1 .. q.n : L(i) => i = 1  BY <1>2, <1>4, <1>5
  <2>3. (CHOOSE i \in 1 .. q.n : L(i)) = 1  BY <2>1, <2>2
  <2> QED  BY <1>3, <1>5, <2>1, <2>3 DEF FirstOf
<1>6. CASE q.core[1] = 0 /\ q.core[2] # 0
  <2>1. 2 \in 1 .. q.n /\ L(2) /\ q.core[2] > 0  BY <1>1, <1>2, <1>6
  <2>2. \A i \in 1 .. q.n : L(i) => i = 2  BY <1>2, <1>4, <1>6
  <2>3. (CHOOSE i \in 1 .. q.n : L(i)) = 2  BY <2>1, <2>2
  <2> QED  BY <1>3, <1>6, <2>1, <2>3 DEF FirstOf
<1>7. CASE q.core[1] = 0 /\ q.core[2] = 0 /\ q.core[3] # 0
  <2>1. 3 \in 1 .. q.n /\ L(3) /\ q.core[3] > 0  BY <1>1, <1>2, <1>7
  <2>2. \A i \in 1 .. q.n : L(i) => i = 3  BY <1>2, <1>4, <1>7
  <2>3. (CHOOSE i \in 1 .. q.n : L(i)) = 3  BY <2>1, <2>2
  <2> QED  BY <1>3, <1>7, <2>1, <2>3 DEF FirstOf
<1>8. CASE q.core[1] = 0 /\ q.core[2] = 0 /\ q.core[3] = 0
  <2>1. \A i \in 1 .. q.n : ~(q.core[i] > 0)  BY <1>4, <1>8
  <2> QED  BY <1>3, <1>8, <2>1 DEF FirstOf
<1> QED  BY <1>5, <1>6, <1>7, <1>8

LEMMA KeptIs ==
    ASSUME NEW q, Fitting(q), q.n # 0
    PROVE  R!Kept(q) = FirstOf(q)
<1> DEFINE zeros == <<0, 0, 0>>
           L(i) == q.core[i] # 0 /\ R!Prefix(q.core, i - 1) = R!Prefix(zeros, i - 1)
<1>1. /\ q.n \in 1 .. 3 /\ q.core[1] \in Nat /\ q.core[2] \in Nat /\ q.core[3] \in Nat
      /\ 2 > q.n => q.core[2] = 0
      /\ 3 > q.n => q.core[3] = 0
  BY DEF Fitting, Readings, Cores
<1>2. q.core \in Cores /\ zeros \in Cores /\ zeros[1] = 0 /\ zeros[2] = 0
  BY DEF Fitting, Readings, Cores
<1> HIDE DEF zeros
<1>3. /\ L(1) <=> q.core[1] # 0
      /\ L(2) <=> q.core[1] = 0 /\ q.core[2] # 0
      /\ L(3) <=> q.core[1] = 0 /\ q.core[2] = 0 /\ q.core[3] # 0
  <2>1. /\ R!Prefix(q.core, 0) = R!Prefix(zeros, 0) <=> Same3(q.core, zeros, 0)
        /\ R!Prefix(q.core, 1) = R!Prefix(zeros, 1) <=> Same3(q.core, zeros, 1)
        /\ R!Prefix(q.core, 2) = R!Prefix(zeros, 2) <=> Same3(q.core, zeros, 2)
    BY <1>2, PrefixOrder
  <2>2. 1 - 1 = 0 /\ 2 - 1 = 1 /\ 3 - 1 = 2  OBVIOUS
  <2> QED  BY <1>2, <2>1, <2>2 DEF Same3
<1>4. R!Kept(q) = IF \A i \in 1 .. q.n : q.core[i] = 0 THEN q.n ELSE CHOOSE i \in 1 .. q.n : L(i)
  BY DEF R!Kept, zeros
<1>5. \A i \in 1 .. q.n : i = 1 \/ i = 2 \/ i = 3  BY <1>1
<1> HIDE DEF L
<1>6. CASE q.core[1] # 0
  <2>1. 1 \in 1 .. q.n /\ L(1)  BY <1>1, <1>3, <1>6
  <2>2. \A i \in 1 .. q.n : L(i) => i = 1  BY <1>3, <1>5, <1>6
  <2>3. (CHOOSE i \in 1 .. q.n : L(i)) = 1  BY <2>1, <2>2
  <2> QED  BY <1>4, <1>6, <2>1, <2>3 DEF FirstOf
<1>7. CASE q.core[1] = 0 /\ q.core[2] # 0
  <2>1. 2 \in 1 .. q.n /\ L(2)  BY <1>1, <1>3, <1>7
  <2>2. \A i \in 1 .. q.n : L(i) => i = 2  BY <1>3, <1>5, <1>7
  <2>3. (CHOOSE i \in 1 .. q.n : L(i)) = 2  BY <2>1, <2>2
  <2> QED  BY <1>4, <1>7, <2>1, <2>3 DEF FirstOf
<1>8. CASE q.core[1] = 0 /\ q.core[2] = 0 /\ q.core[3] # 0
  <2>1. 3 \in 1 .. q.n /\ L(3)  BY <1>1, <1>3, <1>8
  <2>2. \A i \in 1 .. q.n : L(i) => i = 3  BY <1>3, <1>5, <1>8
  <2>3. (CHOOSE i \in 1 .. q.n : L(i)) = 3  BY <2>1, <2>2
  <2> QED  BY <1>4, <1>8, <2>1, <2>3 DEF FirstOf
<1>9. CASE q.core[1] = 0 /\ q.core[2] = 0 /\ q.core[3] = 0
  <2>1. \A i \in 1 .. q.n : q.core[i] = 0  BY <1>5, <1>9
  <2> QED  BY <1>4, <1>9, <2>1 DEF FirstOf
<1> QED  BY <1>6, <1>7, <1>8, <1>9

--------------------------------------------------------------------------------
\* Between a triple and the one that follows in a component are those that agree with
\* it that far and are not before it.
LEMMA Between ==
    ASSUME NEW a \in Nat, NEW b \in Nat, NEW c \in Nat, NEW x \in Nat, NEW y \in Nat, NEW z \in Nat
    PROVE  LET least == x < a \/ (x = a /\ y < b) \/ (x = a /\ y = b /\ z < c) IN
           /\ ~least /\ (x < a + 1 \/ (x = a + 1 /\ y < 0) \/ (x = a + 1 /\ y = 0 /\ z < 0))
                <=> ~least /\ x = a
           /\ ~least /\ (x < a \/ (x = a /\ y < b + 1) \/ (x = a /\ y = b + 1 /\ z < 0))
                <=> ~least /\ x = a /\ y = b
           /\ ~least /\ (x < a \/ (x = a /\ y < b) \/ (x = a /\ y = b /\ z < c + 1))
                <=> ~least /\ x = a /\ y = b /\ z = c
OBVIOUS

\* What is not written does not matter.
LEMMA FullBefore ==
    ASSUME NEW v \in Releases, NEW q, Fitting(q)
    PROVE  Before3(v.core, q.core, 3) <=> Before3(v.core, q.core, q.n)
<1>1. v.core[1] \in Nat /\ v.core[2] \in Nat /\ v.core[3] \in Nat  BY DEF Releases, Cores
<1>2. /\ q.n \in 0 .. 3
      /\ 1 > q.n => q.core[1] = 0
      /\ 2 > q.n => q.core[2] = 0
      /\ 3 > q.n => q.core[3] = 0
  BY DEF Fitting, Readings
<1> QED  BY <1>1, <1>2 DEF Before3

LEMMA UptoReads ==
    ASSUME NEW v \in Releases, NEW q, Fitting(q), NEW k \in 1 .. 3
    PROVE  (\A c \in R!Upto(q, k) : R!Matches(c, v))
             <=> (~Before3(v.core, q.core, q.n) /\ Same3(v.core, q.core, k))
<1>1. /\ v.core[1] \in Nat /\ v.core[2] \in Nat /\ v.core[3] \in Nat
      /\ q.core[1] \in Nat /\ q.core[2] \in Nat /\ q.core[3] \in Nat /\ q.core \in Cores
  <2>1. v.core \in Cores /\ q.core \in Cores  BY DEF Releases, Fitting, Readings
  <2> QED  BY <2>1 DEF Cores
<1> DEFINE b == R!Bump(q.core, k)
<1>2. /\ k = 1 => b[1] = q.core[1] + 1 /\ b[2] = 0 /\ b[3] = 0
      /\ k = 2 => b[1] = q.core[1] /\ b[2] = q.core[2] + 1 /\ b[3] = 0
      /\ k = 3 => b[1] = q.core[1] /\ b[2] = q.core[2] /\ b[3] = q.core[3] + 1
  BY <1>1, BumpedCore
<1>3. (\A c \in R!Upto(q, k) : R!Matches(c, v)) <=>
        ~Before3(v.core, q.core, 3) /\ Before3(v.core, b, 3)
  BY UptoIs
<1> HIDE DEF b
<1>4. ~Before3(v.core, q.core, 3) /\ Before3(v.core, b, 3)
        <=> ~Before3(v.core, q.core, 3) /\ Same3(v.core, q.core, k)
  <2>1. CASE k = 1  BY <1>1, <1>2, <2>1, Between DEF Before3, Same3
  <2>2. CASE k = 2  BY <1>1, <1>2, <2>2, Between DEF Before3, Same3
  <2>3. CASE k = 3  BY <1>1, <1>2, <2>3, Between DEF Before3, Same3
  <2> QED  BY <2>1, <2>2, <2>3
<1> QED  BY <1>3, <1>4, FullBefore

\* Before the triple that follows in component k is what does not come after it in
\* the first k.
LEMMA BeforeNext ==
    ASSUME NEW v \in Releases, NEW q, Fitting(q), NEW k \in 1 .. 3
    PROVE  /\ Before3(v.core, R!Bump(q.core, k), 3)
                <=> Before3(v.core, q.core, k) \/ Same3(v.core, q.core, k)
           /\ Before3(q.core, v.core, k)
                <=> ~(Before3(v.core, q.core, k) \/ Same3(v.core, q.core, k))
<1>1. /\ v.core[1] \in Nat /\ v.core[2] \in Nat /\ v.core[3] \in Nat
      /\ q.core[1] \in Nat /\ q.core[2] \in Nat /\ q.core[3] \in Nat /\ q.core \in Cores
  <2>1. v.core \in Cores /\ q.core \in Cores  BY DEF Releases, Fitting, Readings
  <2> QED  BY <2>1 DEF Cores
<1> DEFINE b == R!Bump(q.core, k)
<1>2. /\ k = 1 => b[1] = q.core[1] + 1 /\ b[2] = 0 /\ b[3] = 0
      /\ k = 2 => b[1] = q.core[1] /\ b[2] = q.core[2] + 1 /\ b[3] = 0
      /\ k = 3 => b[1] = q.core[1] /\ b[2] = q.core[2] /\ b[3] = q.core[3] + 1
  BY <1>1, BumpedCore
<1> HIDE DEF b
<1>3. Before3(q.core, v.core, k) <=> ~(Before3(v.core, q.core, k) \/ Same3(v.core, q.core, k))
  BY <1>1 DEF Before3, Same3
<1>4. Before3(v.core, b, 3) <=> Before3(v.core, q.core, k) \/ Same3(v.core, q.core, k)
  <2>1. CASE k = 1  BY <1>1, <1>2, <2>1 DEF Before3, Same3
  <2>2. CASE k = 2  BY <1>1, <1>2, <2>2 DEF Before3, Same3
  <2>3. CASE k = 3  BY <1>1, <1>2, <2>3 DEF Before3, Same3
  <2> QED  BY <2>1, <2>2, <2>3
<1> QED  BY <1>3, <1>4 DEF b

LEMMA NotBoth ==
    ASSUME NEW v \in Releases, NEW a \in Cores, NEW n \in 0 .. 3, Same3(v.core, a, n)
    PROVE  ~Before3(v.core, a, n)
<1>1. /\ v.core[1] \in Nat /\ v.core[2] \in Nat /\ v.core[3] \in Nat  BY DEF Releases, Cores
<1> QED  BY <1>1 DEF Before3, Same3

\* A primitive admits the releases that its text reads, whatever it is desugared to.
LEMMA DesugaredReads ==
    ASSUME NEW op \in R!Operators, NEW t \in R!Texts, R!Legible(t), NEW v \in Releases
    PROVE  (\A c \in R!Desugar(op, t) : R!Matches(c, v)) <=> R!Reads(op, R!Partial(t), v)
<1> DEFINE q == R!Partial(t)
           Says == \A c \in R!Desugar(op, t) : R!Matches(c, v)
<1>1. Fitting(q)  BY PartialFits
<1> SUFFICES Says <=> R!Reads(op, q, v)  OBVIOUS
<1> HIDE DEF q
<1>2. /\ q.n \in 0 .. 3 /\ q.core \in Cores /\ R!Full(q) \in Bounds /\ R!Full(q).core = q.core
      /\ R!Full(q).pre = q.pre
      /\ q.pre # <<>> => q.n = 3
  BY <1>1 DEF R!Full, R!Version, Fitting, Readings, Bounds
<1>3. \A a \in Cores : /\ R!Lowest(a) \in Bounds /\ R!Lowest(a).core = a
                       /\ R!Release(a) \in Bounds /\ R!Release(a).core = a
  BY DEF R!Lowest, R!Release, R!Version, R!Zero, Bounds
<1>4. /\ R!Below(v, q) <=> Before3(v.core, q.core, 3)
      /\ R!Below(v, q) <=> Before3(v.core, q.core, q.n)
      /\ R!Above(v, q) <=> Before3(q.core, v.core, q.n)
      /\ \A n \in 0 .. 3 : R!Agree(v, q, n) <=> Same3(v.core, q.core, n)
  BY <1>1, <1>2, Reading, FullBefore
<1>5. CASE q.n = 0
  <2>1. CASE op \in {"<", ">"}
    <3>1. R!Desugar(op, t) = {R!Comparator("<", R!Lowest(q.core))}  BY <1>5, <2>1 DEF R!Desugar, q
    <3>2. ~Before3(v.core, q.core, q.n)  BY <1>5 DEF Before3
    <3>3. ~R!Matches(R!Comparator("<", R!Lowest(q.core)), v)
      BY <1>2, <1>3, <1>4, <3>2, ReleaseMatches
    <3> QED  BY <1>5, <2>1, <3>1, <3>3 DEF R!Reads, q
  <2>2. CASE op \notin {"<", ">"}
    <3>1. R!Desugar(op, t) = R!Any  BY <1>5, <2>2 DEF R!Desugar, q
    <3> QED  BY <1>5, <2>2, <3>1 DEF R!Reads, R!Any, R!Matches, q
  <2> QED  BY <2>1, <2>2
<1> DEFINE Said == R!ReadsRelease(op, q, v)
<1> HIDE DEF Said
<1>6. ASSUME q.n # 0, Says <=> Said PROVE Says <=> R!Reads(op, q, v)  BY <1>6 DEF R!Reads, Said
<1>7. CASE q.n # 0 /\ op = "^"
  <2>1. R!Desugar(op, t) = R!Upto(q, R!Leading(q))  BY <1>2, <1>7 DEF R!Desugar, q
  <2>2. R!Leading(q) = FirstOf(q) /\ R!Kept(q) = FirstOf(q)  BY <1>1, <1>7, LeadingIs, KeptIs
  <2>3. FirstOf(q) \in 1 .. 3  BY <1>2, <1>7 DEF FirstOf
  <2>4. Says <=> ~R!Below(v, q) /\ R!Agree(v, q, R!Kept(q))
    BY <1>1, <1>4, <2>1, <2>2, <2>3, UptoReads
  <2>5. Said <=> ~R!Below(v, q) /\ R!Agree(v, q, R!Kept(q))  BY <1>7 DEF R!ReadsRelease, Said
  <2> QED  BY <1>6, <1>7, <2>4, <2>5
<1>8. CASE q.n # 0 /\ op = "~"
  <2> DEFINE k == IF q.n = 1 THEN 1 ELSE 2
  <2>1. k \in 1 .. 3  OBVIOUS
  <2>2. R!Desugar(op, t) = R!Upto(q, k)  BY <1>2, <1>8 DEF R!Desugar, q
  <2>3. Said <=> ~R!Below(v, q) /\ R!Agree(v, q, k)  BY <1>8 DEF R!ReadsRelease, Said
  <2> HIDE DEF k
  <2>4. Says <=> ~R!Below(v, q) /\ R!Agree(v, q, k)  BY <1>1, <1>4, <2>1, <2>2, UptoReads
  <2> QED  BY <1>6, <1>8, <2>3, <2>4
<1>9. CASE q.n # 0 /\ op = ">="
  <2>1. R!Desugar(op, t) = {R!Comparator(">=", R!Full(q))}  BY <1>2, <1>9 DEF R!Desugar, q
  <2>2. Says <=> ~R!Below(v, q)  BY <1>2, <1>4, <2>1, ReleaseMatches
  <2>3. Said <=> ~R!Below(v, q)  BY <1>9 DEF R!ReadsRelease, Said
  <2> QED  BY <1>6, <1>9, <2>2, <2>3
<1> DEFINE within == R!Agree(v, q, q.n) /\ q.pre = <<>>
<1>m. /\ R!Matches(R!Comparator("=", R!Full(q)), v) <=> (Same3(v.core, q.core, 3) /\ q.pre = <<>>)
      /\ R!Matches(R!Comparator(">", R!Full(q)), v) <=>
            Before3(q.core, v.core, 3) \/ (Same3(v.core, q.core, 3) /\ q.pre # <<>>)
      /\ R!Matches(R!Comparator("<", R!Full(q)), v) <=> Before3(v.core, q.core, 3)
      /\ R!Matches(R!Comparator("<=", R!Full(q)), v) <=>
            ~(Before3(q.core, v.core, 3) \/ (Same3(v.core, q.core, 3) /\ q.pre # <<>>))
  BY <1>2, ReleaseMatches
<1>10. CASE q.n = 3 /\ op \in {"=", ">", "<", "<="}
  <2>1. R!Desugar(op, t) = {R!Comparator(op, R!Full(q))}  BY <1>10 DEF R!Desugar, q
  <2>2. Says <=> R!Matches(R!Comparator(op, R!Full(q)), v)  BY <2>1
  <2>3. R!Agree(v, q, q.n) <=> Same3(v.core, q.core, 3)  BY <1>4, <1>10
  <2>4. Before3(q.core, v.core, 3) <=>
          ~(Before3(v.core, q.core, 3) \/ Same3(v.core, q.core, 3))
    BY <1>1, BeforeNext
  <2>5. CASE op = "="
    <3>1. Said <=> within  BY <2>5 DEF R!ReadsRelease, Said
    <3> QED  BY <1>m, <1>6, <1>10, <2>2, <2>3, <2>5, <3>1
  <2>6. CASE op = ">"
    <3>1. Said <=> R!Above(v, q) \/ (R!Agree(v, q, q.n) /\ q.pre # <<>>)
      BY <2>6 DEF R!ReadsRelease, Said
    <3> QED  BY <1>4, <1>m, <1>6, <1>10, <2>2, <2>3, <2>6, <3>1
  <2>7. CASE op = "<"
    <3>1. Said <=> R!Below(v, q)  BY <2>7 DEF R!ReadsRelease, Said
    <3> QED  BY <1>4, <1>m, <1>6, <1>10, <2>2, <2>7, <3>1
  <2>8. CASE op = "<="
    <3>1. Said <=> R!Below(v, q) \/ within  BY <2>8 DEF R!ReadsRelease, Said
    <3>2. Same3(v.core, q.core, 3) => ~Before3(v.core, q.core, 3)  BY <1>2, NotBoth
    <3>3. Says <=> R!Matches(R!Comparator("<=", R!Full(q)), v)  BY <2>2, <2>8
    <3>4. q.n # 0  BY <1>10
    <3>5. R!Below(v, q) <=> Before3(v.core, q.core, 3)  BY <1>4
    <3>6. Says <=> Said  BY <1>m, <2>3, <2>4, <3>1, <3>2, <3>3, <3>5
    <3> QED  BY <1>6, <3>4, <3>6
  <2> QED  BY <1>10, <2>5, <2>6, <2>7, <2>8
<1>11. CASE q.n \in {1, 2} /\ op \in {"=", ">", "<", "<="}
  <2>a. q.pre = <<>> /\ q.n \in 1 .. 3 /\ q.n \in 0 .. 3  BY <1>2, <1>11
  <2>b. R!Agree(v, q, q.n) <=> Same3(v.core, q.core, q.n)  BY <1>4, <2>a
  <2>c. R!Bump(q.core, q.n) \in Cores  BY <1>2, <2>a, BumpedCore
  <2>1. /\ q.pre = <<>> /\ q.n \in 1 .. 3
        /\ R!Agree(v, q, q.n) <=> Same3(v.core, q.core, q.n)
        /\ R!Bump(q.core, q.n) \in Cores
    BY ONLY <2>a, <2>b, <2>c
  <2>2. /\ Before3(v.core, R!Bump(q.core, q.n), 3)
              <=> Before3(v.core, q.core, q.n) \/ Same3(v.core, q.core, q.n)
        /\ Before3(q.core, v.core, q.n)
              <=> ~(Before3(v.core, q.core, q.n) \/ Same3(v.core, q.core, q.n))
    BY <1>1, <2>1, BeforeNext
  <2>3. CASE op = "="
    <3>1. R!Desugar(op, t) = R!Upto(q, q.n)  BY <1>11, <2>3 DEF R!Desugar, q
    <3>2. Says <=> ~R!Below(v, q) /\ R!Agree(v, q, q.n)  BY <1>1, <1>4, <2>1, <3>1, UptoReads
    <3>3. Said <=> within  BY <2>3 DEF R!ReadsRelease, Said
    <3> QED  BY <1>2, <1>4, <1>6, <1>11, <2>1, <3>2, <3>3, NotBoth
  <2>4. CASE op = ">"
    <3>1. R!Desugar(op, t) = {R!Comparator(">=", R!Release(R!Bump(q.core, q.n)))}
      BY <1>11, <2>4 DEF R!Desugar, q
    <3>2. Says <=> ~Before3(v.core, R!Bump(q.core, q.n), 3)
      BY <1>3, <2>1, <3>1, ReleaseMatches
    <3>3. Said <=> R!Above(v, q) \/ (R!Agree(v, q, q.n) /\ q.pre # <<>>)
      BY <2>4 DEF R!ReadsRelease, Said
    <3> QED  BY <1>4, <1>6, <1>11, <2>1, <2>2, <3>2, <3>3
  <2>5. CASE op = "<"
    <3>1. R!Desugar(op, t) = {R!Comparator("<", R!Lowest(q.core))}
      BY <1>11, <2>5 DEF R!Desugar, q
    <3>2. Says <=> R!Below(v, q)  BY <1>2, <1>3, <1>4, <3>1, ReleaseMatches
    <3>3. Said <=> R!Below(v, q)  BY <2>5 DEF R!ReadsRelease, Said
    <3> QED  BY <1>6, <1>11, <3>2, <3>3
  <2>6. CASE op = "<="
    <3>1. R!Desugar(op, t) = {R!Comparator("<", R!Lowest(R!Bump(q.core, q.n)))}
      BY <1>11, <2>6 DEF R!Desugar, q
    <3>2. Says <=> Before3(v.core, R!Bump(q.core, q.n), 3)
      BY <1>3, <2>1, <3>1, ReleaseMatches
    <3>3. Said <=> R!Below(v, q) \/ within  BY <2>6 DEF R!ReadsRelease, Said
    <3> QED  BY <1>4, <1>6, <1>11, <2>1, <2>2, <3>2, <3>3
  <2> QED  BY <1>11, <2>3, <2>4, <2>5, <2>6
<1>12. op \in {"^", "~", ">=", "=", ">", "<", "<="}  BY DEF R!Operators
<1>13. q.n = 0 \/ q.n = 3 \/ q.n \in {1, 2}  BY <1>2
<1> QED  BY <1>5, <1>7, <1>8, <1>9, <1>10, <1>11, <1>12, <1>13

--------------------------------------------------------------------------------
\* The lowest prerelease of a core is above no version of that core.
LEMMA LowestIsLowest ==
    ASSUME NEW v \in Bounds, v.pre # <<>>
    PROVE  ~R!Before(v, R!Lowest(v.core))
<1>1. v.core \in Cores /\ v.pre \in Seq(Nat \X Nat)  BY DEF Bounds
<1>2. ~R!NumbersBefore(v.core, v.core)
  <2>1. ~Before3(v.core, v.core, 3)  BY <1>1 DEF Before3, Cores
  <2> QED  BY <1>1, <2>1, CoreOrder
<1>3. ASSUME NEW x \in Nat \X Nat PROVE ~R!NumbersBefore(x, <<0, 0>>)
  <2>1. /\ Len(x) = 2 /\ Len(<<0, 0>>) = 2 /\ x[1] \in Nat /\ x[2] \in Nat  OBVIOUS
  <2>2. R!NumbersBefore(x, <<0, 0>>) <=>
          \E i \in 1 .. 2 : (\A j \in 1 .. (i - 1) : x[j] = <<0, 0>>[j]) /\ x[i] < <<0, 0>>[i]
    BY <2>1, OrderOfSequences
  <2>3. \A i \in 1 .. 2 : (i = 1 \/ i = 2) /\ <<0, 0>>[i] = 0  OBVIOUS
  <2>4. \A i \in 1 .. 2 : ~(x[i] < <<0, 0>>[i])  BY <2>1, <2>3
  <2> QED  BY <2>2, <2>4
<1>4. ~R!PreBefore(v.pre, <<<<0, 0>>>>)
  <2> DEFINE p == v.pre
             z == <<0, 0>>
  <2>1. Len(p) \in Nat /\ Len(p) >= 1 /\ p[1] \in Nat \X Nat  BY <1>1
  <2>2. ~R!NumbersBefore(p[1], z)  BY <1>3, <2>1
  <2>3. <<z>> # <<>> /\ Len(<<z>>) = 1 /\ <<z>>[1] = z  OBVIOUS
  <2> HIDE DEF p, z
  <2>4. R!PreBefore(p, <<z>>) =>
          \E i \in 1 .. 1 : i =< Len(p) => R!NumbersBefore(p[i], <<z>>[i])
    BY <2>3 DEF R!PreBefore, R!SeqBefore
  <2> QED  BY <2>1, <2>2, <2>3, <2>4 DEF p, z
<1>5. R!Lowest(v.core).core = v.core /\ R!Lowest(v.core).pre = <<<<0, 0>>>>
  BY DEF R!Lowest, R!Version, R!Zero
<1> QED  BY <1>2, <1>4, <1>5 DEF R!Before

\* What comparators there are.
LEMMA DesugaredForms ==
    ASSUME NEW op \in R!Operators, NEW t \in R!Texts, R!Legible(t), NEW c \in R!Desugar(op, t)
    PROVE  \/ c.op = "*"
           \/ c.bound = R!Full(R!Partial(t))
           \/ \E a \in Cores : c = R!Comparator("<", R!Lowest(a))
           \/ \E a \in Cores : c.bound = R!Release(a)
<1> DEFINE q == R!Partial(t)
<1>1. q.n \in 0 .. 3 /\ q.core \in Cores  BY PartialFits DEF Fitting, Readings
<1>2. ASSUME NEW i \in 1 .. 3, c \in R!Upto(q, i)
      PROVE  c.bound = R!Full(q) \/ \E a \in Cores : c = R!Comparator("<", R!Lowest(a))
  BY <1>1, <1>2, BumpedCore DEF R!Upto, R!Comparator
<1>3. q.n # 0 => R!Leading(q) \in 1 .. 3
  BY <1>1, LeadingIs, PartialFits DEF FirstOf
<1>4. \A i \in 1 .. 3 : R!Bump(q.core, i) \in Cores  BY <1>1, BumpedCore
<1>5. op \in {"^", "~", ">=", "=", ">", "<", "<="}  BY DEF R!Operators
<1>6. \/ c.op = "*"
      \/ \E i \in 1 .. 3 : c \in R!Upto(q, i)
      \/ \E o \in R!Operators : c = R!Comparator(o, R!Full(q))
      \/ \E a \in Cores : c = R!Comparator("<", R!Lowest(a))
      \/ \E a \in Cores : c = R!Comparator(">=", R!Release(a))
  <2>1. CASE q.n = 0  BY <1>1, <2>1 DEF R!Desugar, R!Any
  <2>2. CASE q.n # 0 /\ op \in {"^", "~"}  BY <1>1, <1>3, <2>2 DEF R!Desugar
  <2>3. CASE q.n = 3 /\ op \notin {"^", "~"}  BY <1>5, <2>3 DEF R!Desugar, R!Operators
  <2>4. CASE q.n \in {1, 2} /\ op \notin {"^", "~"}
    BY <1>1, <1>4, <1>5, <2>4 DEF R!Desugar, R!Operators
  <2> QED  BY <1>1, <2>1, <2>2, <2>3, <2>4
<1> QED  BY <1>2, <1>6 DEF R!Comparator

\* A range is of primitives that parse, and a version is full.
RangeInv == range \subseteq Primitives \union Beside /\ range # {} /\ version \in RangeVersions

LEMMA RangeTyped ==
    ASSUME RangeInv
    PROVE  /\ \A p \in range : p.op \in R!Operators /\ p.text \in R!Texts /\ R!Legible(p.text)
           /\ version \in Bounds
BY PartsAssumption DEF RangeInv, R!RangeAssumption, Bounds, Cores

LEMMA ReadAsWrittenHolds == RangeInv => R!ReadAsWritten
<1> SUFFICES ASSUME RangeInv, version.pre = <<>>
             PROVE  R!Satisfies({range}, version) <=>
                      \A p \in range : R!Reads(p.op, R!Partial(p.text), version)
  BY DEF R!ReadAsWritten
<1>1. version \in Releases  BY RangeTyped DEF Bounds, Releases
<1>2. R!Satisfies({range}, version) <=> R!Admits(range, version)  BY DEF R!Satisfies
<1>3. R!Admits(range, version) <=>
        \A p \in range : \A c \in R!Desugar(p.op, p.text) : R!Matches(c, version)
  BY DEF R!Admits, R!Comparators
<1>4. \A p \in range : (\A c \in R!Desugar(p.op, p.text) : R!Matches(c, version))
                        <=> R!Reads(p.op, R!Partial(p.text), version)
  BY <1>1, RangeTyped, DesugaredReads
<1> QED  BY <1>2, <1>3, <1>4

LEMMA PrereleaseHolds == RangeInv => R!PrereleaseIsAskedFor
<1> SUFFICES ASSUME RangeInv, version.pre # <<>>, R!Satisfies({range}, version)
             PROVE  \E p \in range : R!Spells(p, version)
  BY DEF R!PrereleaseIsAskedFor
<1>1. PICK c \in R!Comparators(range) :
        c.op # "*" /\ c.bound.pre # <<>> /\ c.bound.core = version.core
  BY DEF R!Satisfies
<1>2. R!Matches(c, version)  BY <1>1 DEF R!Satisfies, R!Admits
<1>3. PICK p \in range : c \in R!Desugar(p.op, p.text)  BY <1>1 DEF R!Comparators
<1>4. p.op \in R!Operators /\ p.text \in R!Texts /\ R!Legible(p.text) /\ version \in Bounds
  BY RangeTyped
<1> DEFINE q == R!Partial(p.text)
<1>5. c.bound = R!Full(q)
  <2>1. ASSUME NEW a \in Cores, c = R!Comparator("<", R!Lowest(a)) PROVE FALSE
    <3>1. a = version.core
      BY <1>1, <2>1 DEF R!Comparator, R!Lowest, R!Version
    <3>2. ~R!Before(version, R!Lowest(version.core))  BY <1>4, LowestIsLowest
    <3>3. R!Before(version, R!Lowest(a))  BY <1>2, <2>1 DEF R!Matches, R!Comparator
    <3> QED  BY <3>1, <3>2, <3>3
  <2>2. ASSUME NEW a \in Cores, c.bound = R!Release(a) PROVE FALSE
    BY <1>1, <2>2 DEF R!Release, R!Version
  <2> QED  BY <1>1, <1>3, <1>4, <2>1, <2>2, DesugaredForms
<1>6. q.pre # <<>> /\ q.core = version.core  BY <1>1, <1>5 DEF R!Full, R!Version
<1>7. q.n = 3 /\ p.text.pre # nopre  BY <1>4, <1>6, PartialFits DEF Fitting
<1> QED  BY <1>6, <1>7 DEF R!Spells

\* A range admits the releases that its text reads, and a prerelease only where a
\* prerelease of its core is spelled, for all numbers.
THEOREM RangeSafety == SpecAll => []RangesReadAsWritten
<1> DEFINE Inv == part = "range" => RangeInv
<1>1. InitAll => Inv
  <2>1. R!Init => RangeInv  BY DEF R!Init, RangeInv
  <2> QED  BY <2>1, PartSteps
<1>2. Inv /\ [NextAll]_<<part, vars, buildVars, rangeVars, flowVars>> => Inv'
  <2> SUFFICES ASSUME RangeInv, R!Next \/ UNCHANGED rangeVars PROVE RangeInv'  BY PartSteps
  <2>1. CASE UNCHANGED rangeVars  BY <2>1 DEF rangeVars, RangeInv
  <2>2. CASE \E p \in Beside : R!AddPrimitive(p)  BY <2>2 DEF R!AddPrimitive, RangeInv
  <2>3. CASE \E p \in range : R!RemovePrimitive(p)  BY <2>3 DEF R!RemovePrimitive, RangeInv
  <2>4. CASE \E v \in RangeVersions : R!WriteVersion(v)  BY <2>4 DEF R!WriteVersion, RangeInv
  <2> QED  BY <2>1, <2>2, <2>3, <2>4 DEF R!Next
<1>3. Inv => RangesReadAsWritten
  <2> SUFFICES ASSUME RangeInv PROVE R!TypeOK  BY ReadAsWrittenHolds, PrereleaseHolds DEF RangesReadAsWritten
  <2>1. version.core \in Seq(Nat)  BY RangeTyped, CoreIsSequence DEF Bounds
  <2>2. R!Readable({range})  BY RangeTyped DEF RangeInv, R!Readable
  <2> QED  BY <2>1, <2>2 DEF R!TypeOK
<1> QED  BY <1>1, <1>2, <1>3, PTL DEF SpecAll

--------------------------------------------------------------------------------
\* What the repository releases and what its drivers build, as one specification.
COROLLARY ReleaseProgramsSafety ==
    SpecAll => [](ReleasesStandAsReviewed /\ BuildsAreTheirKeys /\ RangesReadAsWritten /\ FlowsAreOneRun)
BY PipelineRuns, ReleaseSafety, BuildSafety, RangeSafety, FlowSafety, PTL
================================================================================
