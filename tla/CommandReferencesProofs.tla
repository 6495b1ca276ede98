------------------------ MODULE CommandReferencesProofs ------------------------
(* Theorems about CommandReferences, for every set of resources, generations, *)
(* requests and installers and every cap.                                     *)
(*                                                                            *)
(* The argument.  A reference is numbered once (Born) and is never both live  *)
(* and released (Apart), so a release is final.  Selections and displaced     *)
(* references are live (Serving), and the root of a live reference is on disk *)
(* (Held), which gc preserves because it keeps the generation of every live   *)
(* reference.  Revisions only grow, so a reading whose revision is still the  *)
(* current one has seen every change of role (AllSound).                          *)
EXTENDS CommandReferences, TLAPS

\* Only numbers already given out are in use.
Born == \A i \in Ids : (refs[i] # None \/ i \in terminal) => i <= serial

Apart == \A i \in terminal : refs[i] = None

Serving ==
    /\ \A r \in Resources :
          active[r] # 0 => /\ refs[active[r]] # None
                           /\ refs[active[r]].resource = r
    /\ \A i \in rollback : refs[i] # None /\ i \notin Selected

Held == /\ roots[current] # "absent"
        /\ \A i \in Ids : refs[i] # None => roots[refs[i].generation] # "absent"

\* A reading never runs ahead of the store, and one of the current revision
\* still tells the truth about the reference's role.
Sound(rd) ==
    /\ rd.revision <= revisions[rd.reference]
    /\ rd.revision = revisions[rd.reference] =>
          \/ Role(rd.reference) = rd.role
          \/ rd.role = "active" /\ Role(rd.reference) = "prepared"
    /\ refs[rd.reference] # None \/ rd.reference \in terminal

AllSound == \A c \in Installers, rd \in Readings : reading[c] = rd => Sound(rd)

IInv == TypeOK /\ Born /\ Apart /\ Serving /\ Held

--------------------------------------------------------------------------------
\* The roles a step can tell apart, as facts about the store.
LEMMA RoleIsRole == ASSUME NEW i PROVE Role(i) \in Roles
BY DEF Role, Roles

\* Every initial state satisfies the invariant.
LEMMA InitIInv == Init => IInv
<1>1. Init => TypeOK
  BY Bounds, NoneIsNothing DEF Init, TypeOK, Ids, Keys, Answers, Readings, Roles
<1>2. Init => Born /\ Apart /\ Serving /\ Held
  BY Bounds DEF Init, Born, Apart, Serving, Held, Ids
<1> QED BY <1>1, <1>2 DEF IInv

LEMMA InitRead == Init => AllSound
BY NoneIsNothing DEF Init, AllSound

--------------------------------------------------------------------------------
\* One lemma per kind of step: it keeps the invariant.

\* Installing and altering roots, collecting them, and listing references
\* leave every reference where it was.
LEMMA RootStep ==
    ASSUME IInv, \/ \E g \in Generations : Install(g) \/ Tamper(g)
                 \/ Gc
    PROVE  IInv'
<1>1. CASE \E g \in Generations : Install(g)
  <2> PICK g \in Generations : Install(g)
    BY <1>1
  <2>1. TypeOK'
    BY DEF IInv, TypeOK, Install
  <2>2. (Born /\ Apart /\ Serving)'
    BY DEF IInv, Born, Apart, Serving, Selected, Install
  <2>3. Held'
    BY DEF IInv, TypeOK, Held, Install, Keys
  <2> QED BY <2>1, <2>2, <2>3 DEF IInv
<1>2. CASE \E g \in Generations : Tamper(g)
  <2> PICK g \in Generations : Tamper(g)
    BY <1>2
  <2>1. TypeOK'
    BY DEF IInv, TypeOK, Tamper
  <2>2. (Born /\ Apart /\ Serving)'
    BY DEF IInv, Born, Apart, Serving, Selected, Tamper
  <2>3. Held'
    BY DEF IInv, TypeOK, Held, Tamper, Keys
  <2> QED BY <2>1, <2>2, <2>3 DEF IInv
<1>3. CASE Gc
  <2>1. TypeOK'
    BY <1>3 DEF IInv, TypeOK, Gc
  <2>2. (Born /\ Apart /\ Serving)'
    BY <1>3 DEF IInv, Born, Apart, Serving, Selected, Gc
  <2>3. \A i \in Ids : refs[i] # None => refs[i].generation \in Generations \cap Kept
    BY DEF IInv, TypeOK, Keys, Kept, Live
  <2>4. Held'
    BY <1>3, <2>3 DEF IInv, TypeOK, Held, Gc, Kept
  <2> QED BY <2>1, <2>2, <2>4 DEF IInv
<1> QED BY <1>1, <1>2, <1>3

\* A new reference takes a number nobody has and names the current root, which
\* is on disk; a shared one changes no reference at all.
LEMMA RetainStep ==
    ASSUME IInv, NEW r \in Resources, NEW q \in Requests,
           RetainExisting(r, q) \/ RetainNew(r, q)
    PROVE  IInv'
<1> DEFINE key == [resource |-> r, generation |-> current]
<1>1. key \in Keys
  BY DEF IInv, TypeOK, Keys
<1>2. CASE RetainExisting(r, q)
  <2>1. TypeOK'
    BY <1>1, <1>2 DEF IInv, TypeOK, RetainExisting, Holders, Answers, Ids
  <2>2. (Born /\ Apart /\ Serving /\ Held)'
    BY <1>2 DEF IInv, Born, Apart, Serving, Held, Selected, RetainExisting
  <2> QED BY <2>1, <2>2 DEF IInv
<1>3. CASE RetainNew(r, q)
  <2> DEFINE n == serial + 1
  <2>1. /\ n \in Ids
        /\ refs[n] = None /\ n \notin terminal
    BY <1>3, Bounds DEF IInv, TypeOK, Born, RetainNew, Ids
  <2>2. /\ refs' = [refs EXCEPT ![n] = key]
        /\ serial' = n
        /\ UNCHANGED <<terminal, active, rollback, roots, current>>
    BY <1>3 DEF RetainNew, Fresh
  <2>3. key # None
    BY <1>1, NoneIsNothing
  <2>4. TypeOK'
    <3>1. serial' \in 0 .. MaxSerial
      BY <2>1, <2>2, Bounds DEF Ids
    <3>3. refs' \in [Ids -> Keys \union {None}]
      BY <1>1, <2>1, <2>2 DEF IInv, TypeOK
    <3>2. /\ revisions' \in [Ids -> Nat]
          /\ requests' \in [Requests -> Answers \union {None}]
      BY <1>1, <1>3, <2>1 DEF IInv, TypeOK, RetainNew, Answers, Fresh
    <3> QED BY <1>3, <3>1, <3>2, <3>3 DEF IInv, TypeOK, RetainNew
  <2>5. Born'
    BY <2>1, <2>2 DEF IInv, TypeOK, Born, Ids
  <2>6. Apart'
    BY <2>1, <2>2 DEF IInv, TypeOK, Apart
  <2>7. Serving'
    BY <2>1, <2>2, <2>3 DEF IInv, TypeOK, Serving, Selected, Ids
  <2>8. Held'
    BY <1>1, <2>1, <2>2 DEF IInv, TypeOK, Held
  <2> QED BY <2>4, <2>5, <2>6, <2>7, <2>8 DEF IInv
<1> QED BY <1>2, <1>3

LEMMA ListStep ==
    ASSUME IInv, NEW c \in Installers, NEW i \in Ids, List(c, i)
    PROVE  IInv'
<1>1. [reference |-> i, revision |-> revisions[i], role |-> Role(i)] \in Readings
  BY RoleIsRole DEF IInv, TypeOK, Readings
<1>2. TypeOK'
  BY <1>1 DEF IInv, TypeOK, List, store
<1>3. (Born /\ Apart /\ Serving /\ Held)'
  BY DEF IInv, Born, Apart, Serving, Held, Selected, List, store
<1> QED BY <1>2, <1>3 DEF IInv

LEMMA ReplyType ==
    ASSUME TypeOK, NEW c \in Installers, Reply(c)
    PROVE  reading' \in [Installers -> Readings \union {None}]
BY DEF TypeOK, Reply

\* The activated reference is live and leaves the displaced ones; the one it
\* displaces joins them and is selected no longer.
LEMMA ActivateStep ==
    ASSUME IInv, NEW c \in Installers, NEW i \in Ids, Activate(c, i)
    PROVE  IInv'
<1> DEFINE r == refs[i].resource
           previous == active[r]
<1>1. /\ refs[i] # None
      /\ r \in Resources
      /\ previous \in 0 .. MaxSerial
  BY DEF IInv, TypeOK, Activate, Live, Keys
<1>2. /\ active' = [active EXCEPT ![r] = i]
      /\ rollback' = (rollback \union ({previous} \ {0})) \ {i}
      /\ UNCHANGED <<refs, terminal, serial, roots, current>>
  BY DEF Activate, Displaced
<1>3. previous # 0 => previous \in Ids
  BY <1>1, Bounds DEF Ids
<1>4. TypeOK'
  <2>1. revisions' \in [Ids -> Nat]
    <3>1. revisions' = [j \in Ids |-> IF j \in Changed(i, previous)
                                     THEN revisions[j] + 1 ELSE revisions[j]]
      BY DEF Activate
    <3> QED BY <3>1 DEF IInv, TypeOK
  <2>2. reading' \in [Installers -> Readings \union {None}]
    BY ReplyType DEF IInv, Activate
  <2>3. i \in 0 .. MaxSerial
    BY Bounds DEF Ids
  <2>4. active' \in [Resources -> 0 .. MaxSerial]
    BY <1>1, <1>2, <2>3 DEF IInv, TypeOK
  <2>5. rollback' \subseteq Ids
    BY <1>2, <1>3 DEF IInv, TypeOK
  <2> QED BY <2>1, <2>2, <2>4, <2>5 DEF IInv, TypeOK, Activate
<1>5. (Born /\ Apart /\ Held)'
  BY <1>2 DEF IInv, Born, Apart, Held
<1>6. Serving'
  <2>1. \A s \in Resources : active'[s] # 0 =>
            refs'[active'[s]] # None /\ refs'[active'[s]].resource = s
    BY <1>1, <1>2 DEF IInv, TypeOK, Serving
  <2>2. ASSUME NEW j \in rollback' PROVE refs'[j] # None /\ j \notin Selected'
    <3>1. j # i
      BY <1>2
    <3>2. CASE j \in rollback
      BY <1>1, <1>2, <3>1, <3>2 DEF IInv, TypeOK, Serving, Selected
    <3>3. CASE j = previous /\ j # 0
      BY <1>1, <1>2, <3>1, <3>3 DEF IInv, TypeOK, Serving, Selected
    <3> QED BY <1>2, <3>2, <3>3
  <2> QED BY <2>1, <2>2 DEF Serving
<1> QED BY <1>4, <1>5, <1>6 DEF IInv

LEMMA DetachStep ==
    ASSUME IInv, NEW r \in Resources, Detach(r)
    PROVE  IInv'
<1>1. TypeOK'
  BY Bounds DEF IInv, TypeOK, Detach
<1>2. (Born /\ Apart /\ Held)'
  BY DEF IInv, Born, Apart, Held, Detach
<1>3. Serving'
  BY DEF IInv, TypeOK, Serving, Selected, Detach
<1> QED BY <1>1, <1>2, <1>3 DEF IInv

\* Only a reference nobody selects is released.
LEMMA ReleaseStep ==
    ASSUME IInv, NEW c \in Installers, NEW i \in Ids, Release(c, i)
    PROVE  IInv'
<1>1. /\ refs[i] # None /\ i \notin Selected
      /\ refs' = [refs EXCEPT ![i] = None]
      /\ terminal' = terminal \union {i}
      /\ rollback' = rollback \ {i}
      /\ UNCHANGED <<active, serial, roots, current>>
  BY DEF Release, Releasable, Live
<1>2. TypeOK'
  <2>1. reading' \in [Installers -> Readings \union {None}]
    BY ReplyType DEF IInv, Release
  <2>2. /\ revisions' \in [Ids -> Nat] /\ releasedAt' \in [Ids -> Nat]
    BY DEF IInv, TypeOK, Release
  <2>3. refs' \in [Ids -> Keys \union {None}]
    BY <1>1 DEF IInv, TypeOK
  <2> QED BY <1>1, <2>1, <2>2, <2>3 DEF IInv, TypeOK, Release
<1>3. (Born /\ Apart /\ Held)'
  BY <1>1 DEF IInv, TypeOK, Born, Apart, Held
<1>4. Serving'
  BY <1>1 DEF IInv, TypeOK, Serving, Selected
<1> QED BY <1>2, <1>3, <1>4 DEF IInv

LEMMA RepeatStep ==
    ASSUME IInv, NEW c \in Installers, NEW i \in Ids, RepeatRelease(c, i)
    PROVE  IInv'
<1>1. TypeOK'
  BY DEF IInv, TypeOK, RepeatRelease, store
<1>2. (Born /\ Apart /\ Serving /\ Held)'
  BY DEF IInv, Born, Apart, Serving, Held, Selected, RepeatRelease, store
<1> QED BY <1>1, <1>2 DEF IInv

LEMMA StutterStep == IInv /\ UNCHANGED vars => IInv'
<1> SUFFICES ASSUME IInv, UNCHANGED vars PROVE IInv'
  OBVIOUS
<1>1. TypeOK'
  BY DEF IInv, TypeOK, vars, store
<1>2. (Born /\ Apart /\ Serving /\ Held)'
  BY DEF IInv, Born, Apart, Serving, Held, Selected, vars, store
<1> QED BY <1>1, <1>2 DEF IInv

\* The invariant is inductive.
LEMMA NextIInv == IInv /\ [Next]_vars => IInv'
<1> SUFFICES ASSUME IInv, [Next]_vars PROVE IInv'
  OBVIOUS
<1>1. CASE \E g \in Generations : Install(g) \/ Tamper(g)
  BY <1>1, RootStep
<1>2. CASE \E r \in Resources, q \in Requests : RetainExisting(r, q) \/ RetainNew(r, q)
  BY <1>2, RetainStep
<1>3. CASE \E c \in Installers, i \in Ids : List(c, i)
  BY <1>3, ListStep
<1>4. CASE \E c \in Installers, i \in Ids : Activate(c, i) \/ RestoreRollback(c, i)
  BY <1>4, ActivateStep DEF RestoreRollback
<1>5. CASE \E c \in Installers, i \in Ids : Release(c, i)
  BY <1>5, ReleaseStep
<1>6. CASE \E c \in Installers, i \in Ids : RepeatRelease(c, i)
  BY <1>6, RepeatStep
<1>7. CASE \E r \in Resources : Detach(r)
  BY <1>7, DetachStep
<1>8. CASE Gc
  BY <1>8, RootStep
<1>9. CASE UNCHANGED vars
  BY <1>9, StutterStep
<1> QED BY <1>1, <1>2, <1>3, <1>4, <1>5, <1>6, <1>7, <1>8, <1>9 DEF Next

--------------------------------------------------------------------------------
\* The reading of an installer.

\* A role is decided by membership, before and after a step.
LEMMA RoleKept ==
    ASSUME NEW i \in Ids, i \in terminal' <=> i \in terminal,
           i \in Selected' <=> i \in Selected, i \in rollback' <=> i \in rollback,
           i \in Live' <=> i \in Live
    PROVE  Role(i)' = Role(i)
BY DEF Role

LEMMA RoleDetached ==
    ASSUME NEW i \in Ids, IInv, i \in Selected, i \notin Selected',
           UNCHANGED <<terminal, rollback, refs>>
    PROVE  Role(i) = "active" /\ Role(i)' = "prepared"
<1>1. i \notin terminal /\ i \notin rollback /\ i \in Live
  BY DEF IInv, TypeOK, Apart, Serving, Selected, Live, Ids
<1>2. i \in Live' /\ i \notin terminal' /\ i \notin rollback'
  BY <1>1 DEF Live
<1>3. Role(i) = "active"
  BY <1>1 DEF Role
<1>4. Role(i)' = "prepared"
  BY <1>2 DEF Role
<1> QED BY <1>3, <1>4

\* What a step may do to reference i without invalidating a sound reading: it
\* keeps the role, or drops the selection, or advances the revision.
Moves(i) ==
    /\ revisions'[i] \in Nat /\ revisions'[i] >= revisions[i]
    /\ revisions'[i] = revisions[i] =>
          \/ Role(i)' = Role(i)
          \/ Role(i) = "active" /\ Role(i)' = "prepared"
    /\ (refs[i] # None \/ i \in terminal) => (refs'[i] # None \/ i \in terminal')

LEMMA SoundKept ==
    ASSUME TypeOK, NEW rd \in Readings, Sound(rd), Moves(rd.reference)
    PROVE  Sound(rd)'
<1> DEFINE i == rd.reference
<1>1. i \in Ids /\ rd.revision \in Nat /\ revisions[i] \in Nat
  BY DEF TypeOK, Readings
<1>2. rd.revision <= revisions[i] /\ revisions'[i] \in Nat /\ revisions'[i] >= revisions[i]
  BY DEF Sound, Moves
<1>3. rd.revision <= revisions'[i]
  BY <1>1, <1>2
<1>4. rd.revision = revisions'[i] =>
          rd.revision = revisions[i] /\ revisions'[i] = revisions[i]
  BY <1>1, <1>2
<1>5. rd.revision = revisions'[i] =>
          \/ Role(i)' = rd.role
          \/ rd.role = "active" /\ Role(i)' = "prepared"
  BY <1>4, Zenon DEF Sound, Moves
<1>6. refs'[i] # None \/ i \in terminal'
  BY DEF Sound, Moves
<1> QED BY <1>3, <1>5, <1>6 DEF Sound

LEMMA ReadKept ==
    ASSUME TypeOK, AllSound, \A i \in Ids : Moves(i),
           \A c \in Installers : reading'[c] \in {reading[c], None}
    PROVE  AllSound'
<1> SUFFICES ASSUME NEW c \in Installers, NEW rd \in Readings, reading'[c] = rd
             PROVE  Sound(rd)'
  BY DEF AllSound
<1>1. reading[c] = rd
  BY NoneIsNothing
<1>2. rd.reference \in Ids
  BY DEF Readings
<1> QED BY <1>1, <1>2, SoundKept DEF AllSound

\* Steps on roots and requests, and repeated releases, move no reference.
LEMMA ReadUnmoved ==
    ASSUME TypeOK, AllSound,
           UNCHANGED <<refs, terminal, active, rollback, revisions>>,
           \A c \in Installers : reading'[c] \in {reading[c], None}
    PROVE  AllSound'
<1>1. ASSUME NEW i \in Ids PROVE Moves(i)
  <2>1. Role(i)' = Role(i)
    BY RoleKept DEF Selected, Live
  <2>2. revisions[i] \in Nat
    BY DEF TypeOK
  <2> QED BY <2>1, <2>2 DEF Moves
<1> QED BY <1>1, ReadKept

\* A fresh reading is sound.
LEMMA ReadList ==
    ASSUME TypeOK, AllSound, NEW c \in Installers, NEW i \in Ids, List(c, i)
    PROVE  AllSound'
<1> DEFINE new == [reference |-> i, revision |-> revisions[i], role |-> Role(i)]
<1>1. \A j \in Ids : Role(j)' = Role(j)
  BY RoleKept DEF Selected, Live, List, store
<1>2. \A rd \in Readings : Sound(rd) => Sound(rd)'
  BY <1>1 DEF Sound, List, store, Readings
<1>3. Sound(new)
  BY DEF Sound, List, Live, TypeOK
<1> SUFFICES ASSUME NEW d \in Installers, NEW rd \in Readings, reading'[d] = rd
             PROVE  Sound(rd)'
  BY DEF AllSound
<1>4. CASE d = c
  BY <1>2, <1>3, <1>4 DEF List, TypeOK
<1>5. CASE d # c
  BY <1>2, <1>5 DEF List, TypeOK, AllSound
<1> QED BY <1>4, <1>5

\* Whatever an activation does to the role of a reference, it advances its
\* revision: the reference is the activated or the displaced one.
LEMMA ReadActivate ==
    ASSUME IInv, AllSound, NEW c \in Installers, NEW i \in Ids, Activate(c, i)
    PROVE  AllSound'
<1> DEFINE r == refs[i].resource
           previous == active[r]
<1>0. TypeOK /\ r \in Resources /\ previous \in 0 .. MaxSerial
  BY DEF IInv, TypeOK, Activate, Live, Keys
<1>1. /\ active' = [active EXCEPT ![r] = i]
      /\ rollback' = (rollback \union ({previous} \ {0})) \ {i}
      /\ revisions' = [j \in Ids |-> IF j \in {i} \union ({previous} \ {0})
                                     THEN revisions[j] + 1 ELSE revisions[j]]
      /\ UNCHANGED <<refs, terminal>>
  BY Zenon DEF Activate, Displaced, Changed
<1>2. ASSUME NEW j \in Ids PROVE Moves(j)
  <2>1. revisions[j] \in Nat
    BY <1>0 DEF TypeOK
  <2>2. revisions'[j] \in Nat /\ revisions'[j] >= revisions[j]
    BY <1>1, <2>1
  <2>3. (revisions'[j] = revisions[j]) => j # i /\ j # previous
    <3>1. j # 0
      BY DEF Ids
    <3>2. revisions'[j] = IF j \in {i} \union ({previous} \ {0})
                          THEN revisions[j] + 1 ELSE revisions[j]
      BY <1>1
    <3> QED BY <2>1, <3>1, <3>2
  <2>4. j # i /\ j # previous => /\ j \in Selected' <=> j \in Selected
                                 /\ j \in rollback' <=> j \in rollback
    BY <1>0, <1>1 DEF Selected, TypeOK
  <2>5. ASSUME j # i, j # previous PROVE Role(j)' = Role(j)
    <3>1. /\ j \in Selected' <=> j \in Selected
          /\ j \in rollback' <=> j \in rollback
      BY <2>4, <2>5
    <3>2. j \in terminal' <=> j \in terminal
      BY <1>1
    <3>3. j \in Live' <=> j \in Live
      BY <1>1 DEF Live
    <3> QED BY <3>1, <3>2, <3>3, RoleKept
  <2> QED BY <1>1, <2>2, <2>3, <2>5 DEF Moves
<1>3. \A d \in Installers : reading'[d] \in {reading[d], None}
  BY <1>0 DEF Activate, Reply, TypeOK
<1> QED BY <1>0, <1>2, <1>3, ReadKept

LEMMA ReadRelease ==
    ASSUME IInv, AllSound, NEW c \in Installers, NEW i \in Ids, Release(c, i)
    PROVE  AllSound'
<1>0. TypeOK
  BY DEF IInv
<1>1. /\ terminal' = terminal \union {i}
      /\ rollback' = rollback \ {i}
      /\ refs' = [refs EXCEPT ![i] = None]
      /\ revisions' = [revisions EXCEPT ![i] = @ + 1]
      /\ active' = active
  BY DEF Release
<1>2. ASSUME NEW j \in Ids PROVE Moves(j)
  <2>1. revisions[j] \in Nat
    BY <1>0 DEF TypeOK
  <2>2. revisions'[j] = IF j = i THEN revisions[j] + 1 ELSE revisions[j]
    BY <1>0, <1>1 DEF TypeOK
  <2>3. j # i => refs'[j] = refs[j]
    BY <1>0, <1>1 DEF TypeOK
  <2>4. j # i => Role(j)' = Role(j)
    BY <1>1, <2>3, RoleKept DEF Live, Selected
  <2>5. (refs[j] # None \/ j \in terminal) => (refs'[j] # None \/ j \in terminal')
    BY <1>1, <2>3
  <2>6. revisions'[j] \in Nat /\ revisions'[j] >= revisions[j]
    BY <2>1, <2>2
  <2>7. revisions'[j] = revisions[j] => j # i
    BY <2>1, <2>2
  <2> QED BY <2>4, <2>5, <2>6, <2>7 DEF Moves
<1>3. \A d \in Installers : reading'[d] \in {reading[d], None}
  BY <1>0 DEF Release, Reply, TypeOK
<1> QED BY <1>0, <1>2, <1>3, ReadKept

LEMMA ReadDetach ==
    ASSUME IInv, AllSound, NEW r \in Resources, Detach(r)
    PROVE  AllSound'
<1>0. TypeOK
  BY DEF IInv
<1>1. /\ active' = [active EXCEPT ![r] = 0]
      /\ UNCHANGED <<refs, terminal, rollback, revisions, reading>>
  BY DEF Detach
<1>2. ASSUME NEW j \in Ids PROVE Moves(j)
  <2>1. revisions[j] \in Nat
    BY <1>0 DEF TypeOK
  <2>2. CASE j \in Selected /\ j \notin Selected'
    <3>1. Role(j) = "active" /\ Role(j)' = "prepared"
      BY <1>1, <2>2, RoleDetached
    <3> QED BY <1>1, <2>1, <3>1 DEF Moves
  <2>3. j \in Selected' => j \in Selected
    BY <1>0, <1>1 DEF Selected, TypeOK, Ids
  <2>4. CASE j \in Selected' <=> j \in Selected
    <3>1. Role(j)' = Role(j)
      BY <1>1, <2>4, RoleKept DEF Live
    <3> QED BY <1>1, <2>1, <3>1 DEF Moves
  <2> QED BY <2>2, <2>3, <2>4
<1> QED BY <1>0, <1>1, <1>2, ReadKept

\* A new reference has not been read yet: nothing sound speaks of it.
LEMMA ReadRetain ==
    ASSUME IInv, AllSound, NEW r \in Resources, NEW q \in Requests, RetainNew(r, q)
    PROVE  AllSound'
<1> DEFINE n == serial + 1
           key == [resource |-> r, generation |-> current]
<1>0. TypeOK /\ key \in Keys
  BY DEF IInv, TypeOK, Keys
<1>1. /\ n \in Ids /\ refs[n] = None /\ n \notin terminal
      /\ refs' = [refs EXCEPT ![n] = key]
      /\ revisions' = [revisions EXCEPT ![n] = 1]
      /\ UNCHANGED <<terminal, active, rollback, reading>>
  BY <1>0, Bounds DEF IInv, TypeOK, Born, RetainNew, Ids, Fresh
<1>2. ASSUME NEW c \in Installers, NEW rd \in Readings, reading'[c] = rd
      PROVE  Sound(rd)'
  <2>1. Sound(rd)
    BY <1>1, <1>2 DEF AllSound
  <2>2. rd.reference # n /\ rd.reference \in Ids
    BY <1>1, <2>1 DEF Sound, Readings
  <2>3. /\ refs'[rd.reference] = refs[rd.reference]
        /\ revisions'[rd.reference] = revisions[rd.reference]
    BY <1>0, <1>1, <2>2 DEF TypeOK
  <2>4. Role(rd.reference)' = Role(rd.reference)
    BY <1>1, <2>2, <2>3, RoleKept DEF Live, Selected
  <2> QED BY <1>1, <2>1, <2>3, <2>4 DEF Sound
<1> QED BY <1>2 DEF AllSound

LEMMA NextRead == IInv /\ AllSound /\ [Next]_vars => AllSound'
<1> SUFFICES ASSUME IInv, AllSound, [Next]_vars PROVE AllSound'
  OBVIOUS
<1>0. TypeOK
  BY DEF IInv
<1>1. CASE \E g \in Generations : Install(g) \/ Tamper(g)
  BY <1>0, <1>1, ReadUnmoved DEF Install, Tamper
<1>2. CASE \E r \in Resources, q \in Requests : RetainExisting(r, q)
  BY <1>0, <1>2, ReadUnmoved DEF RetainExisting
<1>3. CASE \E r \in Resources, q \in Requests : RetainNew(r, q)
  BY <1>3, ReadRetain
<1>4. CASE \E c \in Installers, i \in Ids : List(c, i)
  BY <1>0, <1>4, ReadList
<1>5. CASE \E c \in Installers, i \in Ids : Activate(c, i) \/ RestoreRollback(c, i)
  BY <1>5, ReadActivate DEF RestoreRollback
<1>6. CASE \E c \in Installers, i \in Ids : Release(c, i)
  BY <1>6, ReadRelease
<1>7. CASE \E c \in Installers, i \in Ids : RepeatRelease(c, i)
  BY <1>0, <1>7, ReadUnmoved DEF RepeatRelease, store, TypeOK
<1>8. CASE \E r \in Resources : Detach(r)
  BY <1>8, ReadDetach
<1>9. CASE Gc \/ UNCHANGED vars
  BY <1>0, <1>9, ReadUnmoved DEF Gc, vars, store
<1> QED BY <1>1, <1>2, <1>3, <1>4, <1>5, <1>6, <1>7, <1>8, <1>9 DEF Next

--------------------------------------------------------------------------------
\* The whole invariant, readings included, holds of every behaviour.
THEOREM Inductive == Spec => [](IInv /\ AllSound)
<1>1. Init => IInv /\ AllSound
  BY InitIInv, InitRead
<1>2. (IInv /\ AllSound) /\ [Next]_vars => (IInv /\ AllSound)'
  BY NextIInv, NextRead
<1> QED BY <1>1, <1>2, PTL DEF Spec

\* Every variable keeps its type.
THEOREM TypeCorrect == Spec => []TypeOK
<1>1. IInv => TypeOK
  BY DEF IInv
<1> QED BY <1>1, Inductive, PTL

\* A hook's selection is never left without its reference or its root, and
\* what was displaced can be restored.
THEOREM HooksServe == Spec => []HooksAreServed
<1>1. IInv => SelectionServes
  <2> SUFFICES ASSUME IInv, NEW r \in Resources, active[r] # 0
               PROVE  /\ Invoke(r) \in {"runs", "hook-root"}
                      /\ refs[active[r]].resource = r
    BY DEF SelectionServes
  <2> DEFINE i == active[r]
  <2>1. i \in Ids
    BY Bounds DEF IInv, TypeOK, Ids
  <2>2. refs[i] # None /\ refs[i].resource = r
    BY DEF IInv, Serving
  <2>3. refs[i].generation \in Generations /\ roots[refs[i].generation] # "absent"
    BY <2>1, <2>2 DEF IInv, TypeOK, Held, Keys
  <2>4. roots[refs[i].generation] \in {"intact", "tampered"}
    BY <2>3 DEF IInv, TypeOK
  <2>5. i \in Live
    BY <2>1, <2>2 DEF Live
  <2>6. Invoke(r) \in {"runs", "hook-root"}
    BY <2>4, <2>5 DEF Invoke, Verifies
  <2> QED BY <2>2, <2>6
<1>2. IInv => RollbackServes
  BY DEF IInv, TypeOK, Serving, Held, RollbackServes, Live
<1>3. IInv => HooksAreServed
  BY <1>1, <1>2 DEF HooksAreServed
<1> QED BY <1>3, Inductive, PTL

\* What an installer read is true for as long as its revision is current.
THEOREM ReadingSafety == Spec => []ReadingIsCurrent
<1>1. IInv /\ AllSound => ReadingIsCurrent
  <2> SUFFICES ASSUME IInv, AllSound, NEW c \in Installers, reading[c] # None
               PROVE  LET i == reading[c].reference IN
                      reading[c].revision = revisions[i] =>
                         \/ Role(i) = reading[c].role
                         \/ reading[c].role = "active" /\ Role(i) = "prepared"
    BY DEF ReadingIsCurrent
  <2>1. reading[c] \in Readings
    BY DEF IInv, TypeOK
  <2>2. Sound(reading[c])
    BY <2>1 DEF AllSound
  <2> QED BY <2>2, Zenon DEF Sound
<1> QED BY <1>1, Inductive, PTL

\* Of two installers who race, the one whose reading is stale changes nothing.
THEOREM RaceSafety == Spec => ActsOnItsReading
<1>1. IInv /\ AllSound /\ [Next]_vars =>
        [\A c \in Installers :
            (reading[c] # None /\ reading'[c] = None /\ revisions' # revisions) =>
                \/ Role(reading[c].reference) = reading[c].role
                \/ /\ reading[c].role = "active"
                   /\ Role(reading[c].reference) = "prepared"]_vars
  <2> SUFFICES ASSUME IInv, AllSound, Next, NEW c \in Installers,
                      reading[c] # None, reading'[c] = None, revisions' # revisions
               PROVE  \/ Role(reading[c].reference) = reading[c].role
                      \/ /\ reading[c].role = "active"
                         /\ Role(reading[c].reference) = "prepared"
    BY DEF vars
  <2>1. PICK d \in Installers, i \in Ids :
            \/ Activate(d, i) \/ Release(d, i)
    <3>1. ~ \E g \in Generations : Install(g) \/ Tamper(g)
      BY DEF Install, Tamper
    <3>2. ~ \E r \in Resources, q \in Requests : RetainExisting(r, q) \/ RetainNew(r, q)
      BY DEF RetainExisting, RetainNew
    <3>3. ~ \E e \in Installers, j \in Ids : List(e, j) \/ RepeatRelease(e, j)
      BY DEF List, RepeatRelease, store
    <3>4. ~ \E r \in Resources : Detach(r)
      BY DEF Detach
    <3>5. ~ Gc
      BY DEF Gc
    <3> QED BY <3>1, <3>2, <3>3, <3>4, <3>5 DEF Next, RestoreRollback
  <2>2. d = c /\ reading[c].reference = i /\ reading[c].revision = revisions[i]
    <3>1. Names(d, i) /\ Reply(d)
      BY <2>1 DEF Activate, Release
    <3>2. d = c
      BY <3>1 DEF Reply, IInv, TypeOK
    <3> QED BY <3>1, <3>2 DEF Names
  <2>3. Sound(reading[c])
    BY DEF IInv, TypeOK, AllSound
  <2> QED BY <2>2, <2>3, Zenon DEF Sound
<1> QED BY <1>1, Inductive, PTL DEF Spec, ActsOnItsReading

\* What a step may do to the references and to what is released.
LEMMA TerminalGrows ==
    ASSUME [Next]_vars PROVE terminal \subseteq terminal'
<1>1. CASE UNCHANGED vars  BY <1>1 DEF vars, store
<1>2. CASE \E g \in Generations : Install(g) \/ Tamper(g)  BY <1>2 DEF Install, Tamper
<1>3. CASE \E r \in Resources, q \in Requests : RetainExisting(r, q) \/ RetainNew(r, q)
  BY <1>3 DEF RetainExisting, RetainNew
<1>4. ASSUME NEW c \in Installers, NEW i \in Ids, Activate(c, i) PROVE terminal \subseteq terminal'
  BY <1>4 DEF Activate
<1>5. CASE \E c \in Installers, i \in Ids : List(c, i) \/ Activate(c, i) \/ RestoreRollback(c, i)
  BY <1>4, <1>5 DEF List, RestoreRollback, store
<1>6. CASE \E c \in Installers, i \in Ids : Release(c, i) \/ RepeatRelease(c, i)
  BY <1>6 DEF Release, RepeatRelease, store
<1>7. CASE Gc \/ \E r \in Resources : Detach(r)  BY <1>7 DEF Detach, Gc
<1> QED  BY <1>1, <1>2, <1>3, <1>5, <1>6, <1>7 DEF Next

LEMMA RefsChange ==
    ASSUME [Next]_vars
    PROVE  \/ refs' = refs
           \/ \E i \in Ids : refs' = [refs EXCEPT ![i] = None]
           \/ \E r \in Resources, q \in Requests : RetainNew(r, q)
<1>1. CASE UNCHANGED vars  BY <1>1 DEF vars, store
<1>2. CASE \E g \in Generations : Install(g) \/ Tamper(g)  BY <1>2 DEF Install, Tamper
<1>3. CASE \E r \in Resources, q \in Requests : RetainExisting(r, q)  BY <1>3 DEF RetainExisting
<1>4. ASSUME NEW c \in Installers, NEW i \in Ids, Activate(c, i) PROVE refs' = refs
  BY <1>4 DEF Activate
<1>5. CASE \E c \in Installers, i \in Ids : List(c, i) \/ Activate(c, i) \/ RestoreRollback(c, i)
  BY <1>4, <1>5 DEF List, RestoreRollback, store
<1>6. CASE \E c \in Installers, i \in Ids : RepeatRelease(c, i)  BY <1>6 DEF RepeatRelease, store
<1>7. CASE \E c \in Installers, i \in Ids : Release(c, i)
  <2>1. PICK c \in Installers, i \in Ids : Release(c, i)  BY <1>7
  <2>2. refs' = [refs EXCEPT ![i] = None]  BY <2>1 DEF Release
  <2> QED  BY <2>2
<1>8. CASE Gc \/ \E r \in Resources : Detach(r)  BY <1>8 DEF Detach, Gc
<1>9. \/ UNCHANGED vars \/ \E g \in Generations : Install(g) \/ Tamper(g)
      \/ \E r \in Resources, q \in Requests : RetainExisting(r, q)
      \/ \E r \in Resources, q \in Requests : RetainNew(r, q)
      \/ \E c \in Installers, i \in Ids : List(c, i) \/ Activate(c, i) \/ RestoreRollback(c, i)
      \/ \E c \in Installers, i \in Ids : Release(c, i)
      \/ \E c \in Installers, i \in Ids : RepeatRelease(c, i)
      \/ Gc \/ \E r \in Resources : Detach(r)
  BY Zenon DEF Next
<1> QED  BY <1>1, <1>2, <1>3, <1>5, <1>6, <1>7, <1>8, <1>9

\* A released reference never serves again.
THEOREM ReleaseSafety == Spec => ReleaseIsFinal
<1>1. IInv /\ [Next]_vars =>
        [\A i \in terminal : i \in terminal' /\ i \notin Live' /\ i \notin Selected']_vars
  <2> SUFFICES ASSUME IInv, [Next]_vars, NEW i \in terminal
               PROVE  i \in terminal' /\ i \notin Live' /\ i \notin Selected'
    BY DEF vars
  <2>1. IInv'
    BY NextIInv
  <2>2. i \in terminal'
    BY TerminalGrows
  <2>3. i \in Ids /\ i # 0
    BY DEF IInv, TypeOK, Ids
  <2>4. refs'[i] = None
    BY <2>1, <2>2 DEF IInv, Apart
  <2> QED BY <2>1, <2>2, <2>3, <2>4 DEF IInv, Serving, Live, Selected
<1> QED BY <1>1, Inductive, PTL DEF Spec, ReleaseIsFinal

\* A key is given to one live reference at a time.
THEOREM KeysDistinct == Spec => []OneReferencePerKey
<1>1. Init => OneReferencePerKey
  BY DEF Init, OneReferencePerKey, Live
<1>2. IInv /\ OneReferencePerKey /\ [Next]_vars => OneReferencePerKey'
  <2> SUFFICES ASSUME IInv, OneReferencePerKey, [Next]_vars PROVE OneReferencePerKey'
    OBVIOUS
  <2>1. CASE refs' = refs
    BY <2>1 DEF OneReferencePerKey, Live
  <2>2. CASE \E i \in Ids : refs' = [refs EXCEPT ![i] = None]
    BY <2>2 DEF OneReferencePerKey, Live, IInv, TypeOK
  <2>3. CASE \E r \in Resources, q \in Requests : RetainNew(r, q)
    <3> PICK r \in Resources, q \in Requests : RetainNew(r, q)
      BY <2>3
    <3> DEFINE key == [resource |-> r, generation |-> current]
    <3>1. refs' = [refs EXCEPT ![serial + 1] = key]
      BY DEF RetainNew, Fresh
    <3>2. \A i \in Ids : refs[i] # key
      BY DEF RetainNew, Holders
    <3> QED BY <3>1, <3>2 DEF OneReferencePerKey, Live, IInv, TypeOK
  <2> QED
    BY <2>1, <2>2, <2>3, RefsChange
<1> QED BY <1>1, <1>2, Inductive, PTL DEF Spec
================================================================================
