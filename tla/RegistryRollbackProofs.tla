------------------------- MODULE RegistryRollbackProofs -------------------------
(* Machine-checked proofs about what the manager takes in from outside: rollback *)
(* protection, for logs of any length, any records and any number of overlapping  *)
(* operations; the vectors that pin it, for any versions; and a profile, for any    *)
(* configurations, offers and harms.                                               *)
EXTENDS MCRegistryRollback, SequenceTheorems, TLAPS

\* The highest boundary accepted is the one persisted.
HighestAccepted ==
    /\ highWater = None => accepted = {}
    /\ highWater # None =>
        highWater \in accepted /\ \A s \in accepted : Version(s) =< Version(highWater)

ClientInv == TypeOK /\ HighestAccepted /\ OneBodyPerVersion

IInv == ClientInv /\ ServesPastCheckpoint

--------------------------------------------------------------------------------
(* Logs.                                                                      *)

LEMMA LogFacts ==
    ASSUME NEW b \in Logs
    PROVE  Version(b) \in Nat /\ b # None
BY NoneIsNoLog DEF Logs, Version

LEMMA ReproducesItself ==
    ASSUME NEW b \in Logs
    PROVE  Reproduces(b, b)
<1>1. SubSeq(b, 1, Len(b)) = b
  BY SubSeqFull DEF Logs
<1>2. Len(b) \in Nat
  BY DEF Logs
<1> QED BY <1>1, <1>2 DEF Reproduces

\* Appending keeps everything a log reproduces.
LEMMA AppendReproduces ==
    ASSUME NEW l \in Logs, NEW b \in Logs, NEW r \in Records, Reproduces(l, b)
    PROVE  Reproduces(Append(l, r), b)
<1> DEFINE k == Append(l, r)
<1>1. k \in Seq(Records) /\ Len(k) = Len(l) + 1 /\ Len(b) \in Nat /\ Len(l) \in Nat
  BY DEF Logs
<1>2. Len(b) =< Len(k)
  BY <1>1 DEF Reproduces
<1>3. \A i \in 1 .. Len(b) : k[i] = l[i]
  BY <1>1 DEF Logs, Reproduces
<1>4. SubSeq(l, 1, Len(b)) = b /\ Len(b) =< Len(l)
  BY DEF Reproduces
<1>5. /\ SubSeq(k, 1, Len(b)) \in Seq(Records)
      /\ Len(SubSeq(k, 1, Len(b))) = Len(b)
      /\ \A i \in 1 .. Len(b) : SubSeq(k, 1, Len(b))[i] = k[i]
  BY <1>1, <1>2
<1>6. \A i \in 1 .. Len(b) : b[i] = l[i]
  BY <1>1, <1>4 DEF Logs
<1>7. SubSeq(k, 1, Len(b)) = b
  BY <1>3, <1>5, <1>6, SeqEqual DEF Logs
<1> QED BY <1>2, <1>7 DEF Reproduces

\* Of two logs of one length only the log itself is reproduced.
LEMMA SameLength ==
    ASSUME NEW l \in Logs, NEW b \in Logs, Reproduces(l, b), Version(l) = Version(b)
    PROVE  l = b
<1>1. SubSeq(l, 1, Len(l)) = l
  BY SubSeqFull DEF Logs
<1> QED BY <1>1 DEF Reproduces, Version

--------------------------------------------------------------------------------
(* The client: whoever persists a boundary persists one above the old.        *)

LEMMA PersistKeeps ==
    ASSUME ClientInv, NEW b \in Logs, Persist(b),
           highWater # None => Version(b) > Version(highWater)
    PROVE  /\ highWater' \in Logs \union {None} /\ accepted' \subseteq Logs
           /\ HighestAccepted' /\ OneBodyPerVersion'
<1>1. highWater' = b /\ accepted' = accepted \union {b}
  BY DEF Persist
<1>2. accepted \subseteq Logs /\ highWater \in Logs \union {None}
  BY DEF ClientInv, TypeOK
<1>3. \A s \in accepted : Version(s) < Version(b)
  <2> SUFFICES ASSUME NEW s \in accepted
               PROVE  Version(s) < Version(b)
    OBVIOUS
  <2>1. highWater # None
    BY DEF ClientInv, HighestAccepted
  <2>2. Version(s) =< Version(highWater) /\ Version(highWater) < Version(b)
    BY <2>1 DEF ClientInv, HighestAccepted
  <2>3. Version(s) \in Nat /\ Version(highWater) \in Nat /\ Version(b) \in Nat
    BY <1>2, <2>1, LogFacts
  <2> QED BY <2>2, <2>3
<1>4. Version(b) \in Nat /\ b # None /\ \A s \in accepted : Version(s) \in Nat
  BY <1>2, LogFacts
<1>5. HighestAccepted'
  <2>1. \A s \in accepted' : Version(s) =< Version(b)
    BY <1>1, <1>3, <1>4
  <2> QED BY <1>1, <1>4, <2>1 DEF HighestAccepted, Version
<1>6. OneBodyPerVersion'
  <2> SUFFICES ASSUME NEW s \in accepted', NEW t \in accepted', Version(s) = Version(t)
               PROVE  s = t
    BY DEF OneBodyPerVersion, Version
  <2>1. CASE s \in accepted /\ t \in accepted
    BY <2>1 DEF ClientInv, OneBodyPerVersion
  <2>2. CASE s = b /\ t \in accepted
    BY <2>2, <1>3, <1>4
  <2>3. CASE s \in accepted /\ t = b
    BY <2>3, <1>3, <1>4
  <2> QED BY <1>1, <2>1, <2>2, <2>3
<1> QED BY <1>1, <1>2, <1>5, <1>6

LEMMA AcceptKeeps ==
    ASSUME ClientInv, NEW o \in Operations, NEW b \in Logs, ~Stale(b), Accept(o, b)
    PROVE  ClientInv'
<1>1. /\ live' = live /\ ready' = ready /\ checkpoint' = checkpoint
      /\ signed' = signed /\ pinned' = pinned
  BY DEF Accept, service
<1>2. chain' \in [Operations -> Logs \union {None}]
  BY DEF Accept, ClientInv, TypeOK
<1>3. /\ highWater' \in Logs \union {None} /\ accepted' \subseteq Logs
      /\ HighestAccepted' /\ OneBodyPerVersion'
  <2>1. CASE Advances(b)
    <3>1. Persist(b)
      BY <2>1 DEF Accept, Persist
    <3> QED BY <2>1, <3>1, PersistKeeps DEF Advances
  <2>2. CASE ~Advances(b)
    <3>1. highWater # None /\ ~(Version(b) > Version(highWater))
      BY <2>2 DEF Advances
    <3>2. Version(b) \in Nat /\ Version(highWater) \in Nat
      BY <3>1, LogFacts DEF ClientInv, TypeOK
    <3>3. b = highWater
      BY <3>1, <3>2 DEF Stale
    <3>4. highWater' = highWater /\ accepted' = accepted
      BY <2>2, <3>1, <3>3 DEF Accept, ClientInv, HighestAccepted
    <3> QED BY <3>4 DEF ClientInv, TypeOK, HighestAccepted, OneBodyPerVersion, Version
  <2> QED BY <2>1, <2>2
<1>4. TypeOK'
  BY <1>1, <1>2, <1>3 DEF ClientInv, TypeOK
<1> QED BY <1>3, <1>4 DEF ClientInv

LEMMA ExcludeKeeps ==
    ASSUME ClientInv, NEW o \in Operations, Exclude(o)
    PROVE  ClientInv'
<1>1. chain' \in [Operations -> Logs \union {None}]
  BY DEF Exclude, ClientInv, TypeOK
<1> QED BY <1>1 DEF Exclude, service, ClientInv, TypeOK, HighestAccepted, OneBodyPerVersion, Version

\* The service changes nothing of the client's.
LEMMA ServiceKeeps ==
    ASSUME ClientInv, live' \in Logs, ready' \in BOOLEAN, checkpoint' \in Logs \union {None},
           signed' \subseteq Logs, pinned' \in Logs \union {None},
           UNCHANGED <<highWater, chain, accepted>>
    PROVE  ClientInv'
BY DEF ClientInv, TypeOK, HighestAccepted, OneBodyPerVersion, Version

LEMMA ClientStep ==
    ASSUME ClientInv, [Next]_vars
    PROVE  ClientInv'
<1>0. TypeOK
  BY DEF ClientInv
<1>1. ASSUME NEW r \in Records, AppendRecord(r)
      PROVE  ClientInv'
  <2>1. Append(live, r) \in Logs
    BY <1>0 DEF TypeOK, Logs
  <2> QED BY <1>0, <1>1, <2>1, ServiceKeeps DEF AppendRecord, TypeOK
<1>2. ASSUME TakeCheckpoint PROVE ClientInv'
  BY <1>0, <1>2, ServiceKeeps DEF TakeCheckpoint, TypeOK
<1>3. ASSUME Start PROVE ClientInv'
  BY <1>0, <1>3, ServiceKeeps DEF Start, TypeOK
<1>4. ASSUME NEW b \in signed, Restore(b) PROVE ClientInv'
  BY <1>0, <1>4, ServiceKeeps DEF Restore, TypeOK
<1>5. ASSUME NEW b \in signed, Configure(b) PROVE ClientInv'
  BY <1>0, <1>5, ServiceKeeps DEF Configure, service, TypeOK
<1>6. ASSUME Bootstrap \/ Rebootstrap PROVE ClientInv'
  <2>1. pinned \in Logs
    BY <1>0, <1>6 DEF Bootstrap, Rebootstrap, TypeOK
  <2>2. Persist(pinned) /\ UNCHANGED <<service, pinned, chain>>
    BY <1>6 DEF Bootstrap, Rebootstrap
  <2>3. highWater # None => Version(pinned) > Version(highWater)
    BY <1>6 DEF Bootstrap, Rebootstrap, Supersedes
  <2>4. /\ highWater' \in Logs \union {None} /\ accepted' \subseteq Logs
        /\ HighestAccepted' /\ OneBodyPerVersion'
    BY <2>1, <2>2, <2>3, PersistKeeps
  <2> QED BY <1>0, <2>2, <2>4 DEF ClientInv, TypeOK, service
<1>7. ASSUME NEW o \in Operations, NEW b \in signed, FirstPage(o, b) \/ LaterPage(o, b)
      PROVE  ClientInv'
  <2>1. b \in Logs
    BY <1>0 DEF TypeOK
  <2>2. Exclude(o) \/ (~Stale(b) /\ Accept(o, b))
    BY <1>7 DEF FirstPage, LaterPage
  <2> QED BY <2>1, <2>2, AcceptKeeps, ExcludeKeeps
<1>8. ASSUME NEW o \in Operations, LastPage(o) PROVE ClientInv'
  BY <1>8, ExcludeKeeps DEF LastPage
<1>9. ASSUME UNCHANGED vars PROVE ClientInv'
  BY <1>9 DEF vars, ClientInv, TypeOK, HighestAccepted, OneBodyPerVersion, Version
<1> QED BY <1>1, <1>2, <1>3, <1>4, <1>5, <1>6, <1>7, <1>8, <1>9 DEF Next

--------------------------------------------------------------------------------
(* The service.                                                               *)

LEMMA ServiceStep ==
    ASSUME TypeOK, ServesPastCheckpoint, [Next]_vars
    PROVE  ServesPastCheckpoint'
<1>1. ASSUME NEW r \in Records, AppendRecord(r)
      PROVE  ServesPastCheckpoint'
  <2> SUFFICES ASSUME checkpoint # None
               PROVE  Reproduces(live', checkpoint)
    BY <1>1 DEF ServesPastCheckpoint, AppendRecord
  <2>1. Reproduces(live, checkpoint) /\ live' = Append(live, r)
    BY <1>1 DEF ServesPastCheckpoint, AppendRecord
  <2>2. live \in Logs /\ checkpoint \in Logs
    BY DEF TypeOK
  <2> QED BY <2>1, <2>2, AppendReproduces
<1>2. ASSUME TakeCheckpoint PROVE ServesPastCheckpoint'
  <2>1. Reproduces(live, live)
    BY ReproducesItself DEF TypeOK
  <2> QED BY <1>2, <2>1 DEF TakeCheckpoint, ServesPastCheckpoint
<1>3. ASSUME Start PROVE ServesPastCheckpoint'
  <2> SUFFICES ASSUME checkpoint # None
               PROVE  Reproduces(live, checkpoint)
    BY <1>3 DEF Start, ServesPastCheckpoint
  <2>1. live = checkpoint \/ Reproduces(live, checkpoint)
    BY <1>3 DEF Start, Starts
  <2>2. Reproduces(live, live)
    BY ReproducesItself DEF TypeOK
  <2> QED BY <2>1, <2>2
<1>4. ASSUME NEW b \in signed, Restore(b) PROVE ServesPastCheckpoint'
  BY <1>4 DEF Restore, ServesPastCheckpoint
<1>5. ASSUME UNCHANGED <<live, ready, checkpoint>> PROVE ServesPastCheckpoint'
  BY <1>5 DEF ServesPastCheckpoint
<1>6. ASSUME NEW b \in signed, Configure(b) PROVE UNCHANGED <<live, ready, checkpoint>>
  BY <1>6 DEF Configure, service
<1>7. ASSUME Bootstrap \/ Rebootstrap PROVE UNCHANGED <<live, ready, checkpoint>>
  BY <1>7 DEF Bootstrap, Rebootstrap, service
<1>8. ASSUME NEW o \in Operations, NEW b \in signed, FirstPage(o, b) \/ LaterPage(o, b)
      PROVE  UNCHANGED <<live, ready, checkpoint>>
  BY <1>8 DEF FirstPage, LaterPage, Accept, Exclude, service
<1>9. ASSUME NEW o \in Operations, LastPage(o) PROVE UNCHANGED <<live, ready, checkpoint>>
  BY <1>9 DEF LastPage, Exclude, service
<1>10. ASSUME UNCHANGED vars PROVE UNCHANGED <<live, ready, checkpoint>>
  BY <1>10 DEF vars
<1> QED BY <1>1, <1>2, <1>3, <1>4, <1>5, <1>6, <1>7, <1>8, <1>9, <1>10 DEF Next

LEMMA InitInv == Init => IInv
<1> SUFFICES ASSUME Init PROVE IInv
  OBVIOUS
<1>1. <<>> \in Logs
  BY DEF Logs
<1>2. TypeOK
  BY <1>1 DEF Init, TypeOK
<1>3. HighestAccepted /\ OneBodyPerVersion /\ ServesPastCheckpoint
  BY DEF Init, HighestAccepted, OneBodyPerVersion, ServesPastCheckpoint
<1> QED BY <1>2, <1>3 DEF IInv, ClientInv

\* The inductive invariant.
THEOREM Invariance == Spec => []IInv
<1>1. IInv /\ [Next]_vars => IInv'
  BY ClientStep, ServiceStep DEF IInv, ClientInv
<1> QED BY <1>1, InitInv, PTL DEF Spec

--------------------------------------------------------------------------------
\* Every boundary is a log or None, in every state.
THEOREM TypeCorrect == Spec => []TypeOK
<1>1. IInv => TypeOK
  BY DEF IInv, ClientInv
<1> QED BY <1>1, Invariance, PTL

\* A client never accepts two views of one version, however its operations
\* overlap and whatever history the service is restored to.
THEOREM ViewSafety == Spec => []OneBodyPerVersion
<1>1. IInv => OneBodyPerVersion
  BY DEF IInv, ClientInv
<1> QED BY <1>1, Invariance, PTL

\* A service that serves holds everything its operator's checkpoint covers.
THEOREM RestoreSafety == Spec => []ServesPastCheckpoint
<1>1. IInv => ServesPastCheckpoint
  BY DEF IInv
<1> QED BY <1>1, Invariance, PTL

\* A client whose high-water the checkpoint covers is served after any restore.
THEOREM CoveredSafety == Spec => []CoveredClientServed
<1>1. IInv => CoveredClientServed
  <2> SUFFICES ASSUME IInv, ready, checkpoint # None, highWater # None,
                      Reproduces(checkpoint, highWater), Stale(live)
               PROVE  FALSE
    BY DEF CoveredClientServed
  <2>1. live \in Logs /\ checkpoint \in Logs /\ highWater \in Logs
    BY DEF IInv, ClientInv, TypeOK
  <2>2. Reproduces(live, checkpoint)
    BY DEF IInv, ServesPastCheckpoint
  <2>3. Version(highWater) =< Version(checkpoint) /\ Version(checkpoint) =< Version(live)
    BY <2>2 DEF Reproduces, Version
  <2>4. /\ Version(live) \in Nat /\ Version(checkpoint) \in Nat
        /\ Version(highWater) \in Nat
    BY <2>1, LogFacts
  <2>5. Version(live) = Version(highWater) /\ live # highWater
    BY <2>3, <2>4 DEF Stale
  <2>6. Version(live) = Version(checkpoint) /\ Version(checkpoint) = Version(highWater)
    BY <2>3, <2>4, <2>5
  <2>7. live = checkpoint
    BY <2>1, <2>2, <2>6, SameLength
  <2>8. checkpoint = highWater
    BY <2>1, <2>6, SameLength
  <2> QED BY <2>5, <2>7, <2>8
<1> QED BY <1>1, Invariance, PTL

\* A persisted high-water is only ever replaced by a higher one.
THEOREM AdvanceSafety == Spec => HighWaterAdvances
<1> DEFINE Up == highWater # None =>
        /\ highWater' # None
        /\ highWater' = highWater \/ Version(highWater') > Version(highWater)
<1>1. TypeOK /\ [Next]_vars => [Up]_vars
  <2> SUFFICES ASSUME TypeOK, [Next]_vars, highWater # None
               PROVE  /\ highWater' # None
                      /\ highWater' = highWater \/ Version(highWater') > Version(highWater)
    OBVIOUS
  <2>1. CASE highWater' = highWater
    BY <2>1
  <2>2. CASE Rebootstrap
    BY <2>2, LogFacts DEF Rebootstrap, Supersedes, Persist, TypeOK
  <2>3. ASSUME NEW o \in Operations, NEW b \in signed, Accept(o, b)
        PROVE  highWater' = highWater \/ (highWater' = b /\ Version(b) > Version(highWater))
    BY <2>3 DEF Accept, Advances
  <2>4. ASSUME NEW o \in Operations, NEW b \in signed, FirstPage(o, b) \/ LaterPage(o, b)
        PROVE  /\ highWater' # None
               /\ highWater' = highWater \/ Version(highWater') > Version(highWater)
    <3>1. b # None
      BY LogFacts DEF TypeOK
    <3>2. highWater' = highWater \/ Accept(o, b)
      BY <2>4 DEF FirstPage, LaterPage, Exclude
    <3> QED BY <2>3, <3>1, <3>2
  <2>5. ASSUME NEW o \in Operations, LastPage(o) PROVE highWater' = highWater
    BY <2>5 DEF LastPage, Exclude
  <2>6. CASE UNCHANGED vars
    BY <2>1, <2>6 DEF vars
  <2>7. CASE \E r \in Records : AppendRecord(r)
    BY <2>1, <2>7 DEF AppendRecord
  <2>8. CASE TakeCheckpoint \/ Start \/ \E b \in signed : Restore(b) \/ Configure(b)
    BY <2>1, <2>8 DEF TakeCheckpoint, Start, Restore, Configure
  <2>9. CASE Bootstrap
    BY <2>9 DEF Bootstrap
  <2> QED BY <2>1, <2>2, <2>4, <2>5, <2>6, <2>7, <2>8, <2>9 DEF Next
<1> QED BY <1>1, TypeCorrect, PTL DEF Spec, HighWaterAdvances

--------------------------------------------------------------------------------
(* The parts side by side.                                                    *)

LEMMA PartSteps ==
    /\ InitAll => part \in Parts /\ Init
    /\ InitAll /\ part = "vectors" => V!Init
    /\ InitAll /\ part = "profile" => E!Init
    /\ [NextAll]_<<part, vars, vectorVars, profileVars>> =>
        /\ part' = part /\ [Next]_vars
        /\ part = "vectors" => V!Next \/ UNCHANGED vectorVars
        /\ part = "profile" => E!Next \/ UNCHANGED profileVars
BY DEF InitAll, NextAll

\* The rollback protection is a part, so what holds of it alone holds.
LEMMA RollbackRuns == SpecAll => Spec
BY PartSteps, PTL DEF SpecAll, Spec

--------------------------------------------------------------------------------
(* The vectors.                                                               *)

LEMMA VersionFacts == \A v \in Versions : v \in Nat
BY PartsAssumption DEF V!VersionsAssumption

LEMMA CheckpointMeaning ==
    ASSUME NEW n \in V!CheckpointNames, NEW c \in V!Cases, V!CheckpointPin(n, c)
    PROVE  V!Verdict(c) = V!Meaning(n)
BY VersionFacts
DEF V!CheckpointNames, V!Cases, V!CheckpointPin, V!Verdict, V!Startup, V!Meaning

LEMMA FirstUseMeaning ==
    ASSUME NEW n \in V!FirstUseNames, NEW c \in V!Cases, V!FirstUsePin(n, c)
    PROVE  V!Verdict(c) = V!Meaning(n)
BY VersionFacts
DEF V!FirstUseNames, V!Cases, V!FirstUsePin, V!Verdict, V!FirstUse, V!Meaning

LEMMA RebootstrapMeaning ==
    ASSUME NEW n \in V!RebootstrapNames, NEW c \in V!Cases, V!RebootstrapPin(n, c)
    PROVE  V!Verdict(c) = V!Meaning(n)
BY VersionFacts
DEF V!RebootstrapNames, V!Cases, V!RebootstrapPin, V!Verdict, V!Again, V!Meaning

LEMMA DivergenceMeaning ==
    ASSUME NEW n \in V!DivergenceNames, NEW c \in V!Cases, V!DivergencePin(n, c)
    PROVE  V!Verdict(c) = V!Meaning(n)
BY DEF V!DivergenceNames, V!Cases, V!DivergencePin, V!Verdict, V!Compared, V!Meaning

LEMMA AdmittedMeaning ==
    ASSUME V!TypeOK
    PROVE  V!NamesKeepTheirMeaning
<1> SUFFICES ASSUME V!Admits(name, case) PROVE V!Verdict(case) = V!Meaning(name)
  BY DEF V!NamesKeepTheirMeaning
<1> USE DEF V!TypeOK
<1>1. CASE name \in V!CheckpointNames
  BY <1>1, CheckpointMeaning
  DEF V!Admits, V!CheckpointNames, V!FirstUseNames, V!RebootstrapNames, V!DivergenceNames
<1>2. CASE name \in V!FirstUseNames
  BY <1>2, FirstUseMeaning
  DEF V!Admits, V!CheckpointNames, V!FirstUseNames, V!RebootstrapNames, V!DivergenceNames
<1>3. CASE name \in V!RebootstrapNames
  BY <1>3, RebootstrapMeaning
  DEF V!Admits, V!CheckpointNames, V!FirstUseNames, V!RebootstrapNames, V!DivergenceNames
<1>4. CASE name \in V!DivergenceNames
  BY <1>4, DivergenceMeaning
  DEF V!Admits, V!CheckpointNames, V!FirstUseNames, V!RebootstrapNames, V!DivergenceNames
<1> QED  BY <1>1, <1>2, <1>3, <1>4 DEF V!Names

LEMMA VectorStep ==
    ASSUME V!TypeOK, V!Next
    PROVE  V!TypeOK'
<1> SUFFICES case' \in V!Cases
  BY DEF V!TypeOK, V!Next, V!Rewrite
<1> case \in V!Cases  BY DEF V!TypeOK
<1>1. ASSUME NEW p \in V!Phases PROVE [case EXCEPT !.phase = p] \in V!Cases
  BY DEF V!Cases
<1>2. ASSUME NEW f \in {"configured", "signed", "agrees", "sameSize"}, NEW b \in BOOLEAN
      PROVE  [case EXCEPT ![f] = b] \in V!Cases
  <2>1. /\ [case EXCEPT !.configured = b] \in V!Cases /\ [case EXCEPT !.signed = b] \in V!Cases
        /\ [case EXCEPT !.agrees = b] \in V!Cases /\ [case EXCEPT !.sameSize = b] \in V!Cases
    BY DEF V!Cases
  <2> QED  BY <1>2, <2>1
<1>3. ASSUME NEW f \in {"ours", "theirs"}, NEW v \in Versions PROVE [case EXCEPT ![f] = v] \in V!Cases
  BY DEF V!Cases
<1>4. ASSUME NEW g \in 0 .. 2 PROVE [case EXCEPT !.group = g] \in V!Cases
  BY DEF V!Cases
<1>5. ASSUME NEW p \in {"advisory", "strict"} PROVE [case EXCEPT !.policy = p] \in V!Cases
  BY DEF V!Cases
<1> QED  BY <1>1, <1>2, <1>3, <1>4, <1>5 DEF V!Next, V!Rewrite

\* A vector that is admitted under its name has the outcome the name promises,
\* however its inputs are rewritten and whatever the versions.
THEOREM VectorSafety == SpecAll => []NamesKeepTheirMeaning
<1> DEFINE Inv == part = "vectors" => V!TypeOK
<1>1. InitAll => Inv
  BY PartSteps DEF V!Init, V!TypeOK
<1>2. Inv /\ [NextAll]_<<part, vars, vectorVars, profileVars>> => Inv'
  <2> SUFFICES ASSUME part = "vectors", V!TypeOK, [NextAll]_<<part, vars, vectorVars, profileVars>>
               PROVE  V!TypeOK'
    BY PartSteps
  <2> QED  BY PartSteps, VectorStep DEF vectorVars, V!TypeOK
<1>3. Inv => NamesKeepTheirMeaning
  BY AdmittedMeaning DEF NamesKeepTheirMeaning
<1> QED  BY <1>1, <1>2, <1>3, PTL DEF SpecAll

--------------------------------------------------------------------------------
(* The profile.                                                               *)

Releases == {"A", "B"}

\* A home says of its seed what it was seeded with, unless it was before the rule.
SeedIsRecorded ==
    seed # None =>
        \E r \in Releases, n \in Native :
            /\ seed.config = E!B!Seeded(r, n)
            /\ seed.record = None \/ seed.record = E!B!SeedRecord(r, n)

ProfileInv == E!TypeOK /\ E!NothingNewUnseen /\ SeedIsRecorded /\ applied = "pinned"

LEMMA NativeShape ==
    ASSUME NEW n \in Native
    PROVE  /\ E!B!Seeded("A", n) = n
           /\ E!B!Seeded("B", n).servers = None
BY PartsAssumption DEF E!ProfileAssumption, E!B!Seeded

LEMMA ProfileInit ==
    ASSUME E!Init
    PROVE  ProfileInv
<1>1. DOMAIN lock = {}  BY DEF E!Init
<1>2. E!B!PathShape({}) /\ directory = {}  BY DEF E!Init, E!B!PathShape
<1>3. ASSUME seed # None
      PROVE  \E n \in Native : seed.config = E!B!Seeded("A", n) /\ seed.record = None
  BY <1>3, NativeShape DEF E!Init
<1>4. E!TypeOK
  BY <1>1, <1>2, <1>3 DEF E!Init, E!TypeOK, E!B!HomeStates
<1>5. E!NothingNewUnseen  BY <1>1 DEF E!NothingNewUnseen
<1>6. SeedIsRecorded  BY <1>3 DEF SeedIsRecorded, Releases
<1> QED  BY <1>4, <1>5, <1>6 DEF ProfileInv, E!Init

\* What a trigger leaves out was in the lock before, with the same surface.
LEMMA Untriggered ==
    ASSUME NEW old, NEW new, NEW k \in DOMAIN new, k \notin E!Trigger(old, new),
           k.kind = "mcp" \/ (k.kind = "context" /\ E!Surface(k, new[k]) # {})
    PROVE  k \in DOMAIN old /\ E!Surface(k, old[k]) = E!Surface(k, new[k])
<1>1. k \in DOMAIN old  BY DEF E!Trigger, E!Added
<1>2. CASE E!Same(old[k], new[k])
  BY <1>1, <1>2 DEF E!Same, E!Surface
<1>3. CASE ~E!Same(old[k], new[k])
  BY <1>1, <1>3 DEF E!Trigger, E!Moved
<1> QED  BY <1>1, <1>2, <1>3

LEMMA PublishStep ==
    ASSUME ProfileInv, NEW new, NEW flag, E!Publish(new, flag),
           DOMAIN new \subseteq {o.key : o \in Offers},
           \A k \in DOMAIN new : E!SnapshotShape(k.kind, Snapshot[new[k].pin])
    PROVE  ProfileInv'
<1>1. /\ lock' = new
      /\ named' = named \union {<<k, E!Surface(k, new[k])>> : k \in E!Trigger(lock, new)}
      /\ home' \in {home, "stale-old-marker"}
      /\ UNCHANGED <<knobs, shipped, harm, directory, seed, applied>>
  BY DEF E!Publish
<1>2. E!TypeOK'  BY <1>1 DEF ProfileInv, E!TypeOK, E!B!HomeStates, E!B!PathShape
<1>3. E!NothingNewUnseen'
  <2> SUFFICES ASSUME NEW k \in DOMAIN new,
                      k.kind = "mcp" \/ (k.kind = "context" /\ E!Surface(k, new[k]) # {})
               PROVE  <<k, E!Surface(k, new[k])>> \in named'
    BY <1>1 DEF E!NothingNewUnseen, E!Surface
  <2>1. CASE k \in E!Trigger(lock, new)  BY <1>1, <2>1
  <2>2. CASE k \notin E!Trigger(lock, new)
    BY <1>1, <2>2, Untriggered DEF ProfileInv, E!NothingNewUnseen
  <2> QED  BY <2>1, <2>2
<1> QED  BY <1>1, <1>2, <1>3 DEF ProfileInv, SeedIsRecorded

\* What is accepted is the top candidate.
LEMMA AcceptedIsTop ==
    ASSUME NEW o \in Offers, NEW list, NEW c \in Configurations,
           E!Verification(o.kind, list, c.require, o.candidates).verdict = "accepted"
    PROVE  E!Verification(o.kind, list, c.require, o.candidates).selected = o.candidates[1]
BY PartsAssumption
DEF E!ProfileAssumption, E!SignerShapes, E!Verification, E!Accepted, E!Refused

LEMMA UpdateStep ==
    ASSUME ProfileInv, NEW o \in Offers, NEW flag, E!Update(o, flag)
    PROVE  ProfileInv'
<1> DEFINE v == E!Verification(o.kind, E!AllowlistOf(E!InForce.map, o.source), knobs.require, o.candidates)
           member == [version |-> v.selected.version, form |-> v.selected.form, pin |-> v.selected.pin]
           new == [k \in DOMAIN lock \union {o.key} |-> IF k = o.key THEN member ELSE lock[k]]
<1>1. v.verdict = "accepted" /\ E!Publish(new, flag)  BY DEF E!Update
<1>2. knobs \in Configurations  BY DEF ProfileInv, E!TypeOK
<1>3. member.pin = o.candidates[1].pin  BY <1>1, <1>2, AcceptedIsTop
<1>4. E!SnapshotShape(o.key.kind, Snapshot[member.pin])
  BY <1>3, PartsAssumption DEF E!ProfileAssumption, E!Snapshots, E!SignerShapes
<1> HIDE DEF v, member
<1>5. /\ DOMAIN new \subseteq {x.key : x \in Offers}
      /\ \A k \in DOMAIN new : E!SnapshotShape(k.kind, Snapshot[new[k].pin])
  BY <1>4 DEF ProfileInv, E!TypeOK
<1> HIDE DEF new
<1> QED  BY <1>1, <1>5, PublishStep

LEMMA DropStep ==
    ASSUME ProfileInv, NEW k \in DOMAIN lock, E!Drop(k)
    PROVE  ProfileInv'
<1> DEFINE new == E!Restrict(lock, DOMAIN lock \ {k})
<1>1. /\ DOMAIN new \subseteq DOMAIN lock
      /\ \A x \in DOMAIN new : new[x] = lock[x]
  BY DEF E!Restrict
<1>2. E!Publish(new, FALSE)  BY DEF E!Drop
<1> HIDE DEF new
<1>3. /\ DOMAIN new \subseteq {x.key : x \in Offers}
      /\ \A x \in DOMAIN new : E!SnapshotShape(x.kind, Snapshot[new[x].pin])
  BY <1>1 DEF ProfileInv, E!TypeOK
<1> QED  BY <1>2, <1>3, PublishStep

\* Only what can be rebuilt is applied again, so a home is always of pinned bytes.
LEMMA RepairStep ==
    ASSUME ProfileInv, NEW native \in Native, E!RepairHome(native)
    PROVE  ProfileInv'
<1> DEFINE rebuilt == E!B!Repair(harm.object, harm.kind, harm.failing).fragment
<1>1. /\ UNCHANGED <<knobs, shipped, lock, named, directory>>
      /\ rebuilt => /\ harm' = E!Intact /\ home' = "current" /\ seed' = E!NewHome(shipped, native)
                    /\ applied' = IF harm.failing = {} \/ (harm.object \notin E!B!Enclosing /\ harm.kind = "git")
                                  THEN "pinned" ELSE "harmed"
      /\ ~rebuilt => UNCHANGED <<harm, home, seed, applied>>
  BY DEF E!RepairHome
<1>2. rebuilt => harm.failing = {} \/ (harm.object \notin E!B!Enclosing /\ harm.kind = "git")
  BY DEF E!B!Repair, E!B!Trusted
<1>3. applied' = "pinned"  BY <1>1, <1>2 DEF ProfileInv
<1>4. shipped \in Releases  BY DEF ProfileInv, E!TypeOK, Releases
<1>5. rebuilt => /\ seed'.config = E!B!Seeded(shipped, native)
                /\ seed'.record = E!B!SeedRecord(shipped, native)
  BY <1>1 DEF E!NewHome
<1> HIDE DEF rebuilt
<1>6. SeedIsRecorded'
  <2>1. CASE rebuilt
    <3>1. \E r \in Releases, n \in Native :
            seed'.config = E!B!Seeded(r, n) /\ seed'.record = E!B!SeedRecord(r, n)
      BY <1>4, <1>5, <2>1
    <3> QED  BY <3>1 DEF SeedIsRecorded
  <2>2. CASE ~rebuilt
    BY <1>1, <2>2 DEF SeedIsRecorded, ProfileInv
  <2> QED  BY <2>1, <2>2
<1>7. E!TypeOK'
  BY <1>1, <1>3, <1>4, <1>5 DEF ProfileInv, E!TypeOK, Releases, E!B!HomeStates, E!B!PathShape
<1>8. E!NothingNewUnseen'  BY <1>1 DEF ProfileInv, E!NothingNewUnseen, E!Surface
<1> QED  BY <1>3, <1>6, <1>7, <1>8 DEF ProfileInv

\* What happens to the machine and to the files, from outside.
LEMMA OutsideStep ==
    ASSUME ProfileInv,
           \/ \E c \in Configurations : E!Configure(c)
           \/ E!Ship \/ E!Secure \/ E!Garble
           \/ \E h \in Harms : E!Harm(h)
           \/ \E c \in Exposures : E!Expose(c)
    PROVE  ProfileInv'
<1>1. /\ UNCHANGED <<lock, named, seed, applied>>
      /\ knobs' \in Configurations \union {knobs} /\ shipped' \in {"B", shipped}
      /\ harm' \in Harms \union {harm} /\ home' \in {"unreadable-marker", home}
  BY DEF E!Configure, E!Ship, E!Secure, E!Garble, E!Harm, E!Expose
<1>2. directory' = directory \/ directory' = {} \/ \E c \in Exposures : directory' = {c}
  BY DEF E!Configure, E!Ship, E!Secure, E!Garble, E!Harm, E!Expose
<1>3. E!B!PathShape(directory)'
  BY <1>2, PartsAssumption
  DEF E!ProfileAssumption, E!HarmShapes, E!B!PathShape, ProfileInv, E!TypeOK
<1>4. E!TypeOK'
  BY <1>1, <1>3 DEF ProfileInv, E!TypeOK, E!B!HomeStates
<1> QED  BY <1>1, <1>4 DEF ProfileInv, E!NothingNewUnseen, E!Surface, SeedIsRecorded

LEMMA ProfileNext ==
    ASSUME ProfileInv, E!Next
    PROVE  ProfileInv'
BY OutsideStep, UpdateStep, DropStep, RepairStep DEF E!Next

--------------------------------------------------------------------------------
(* What the state of a profile says.                                          *)

\* Under the identities the code compares, two signers are the same or not.
LEMMA SameIdentity ==
    ASSUME NEW s, NEW t, s.type \in E!SignerTypes, t.type \in E!SignerTypes
    PROVE  E!SignerIdentity(s) = E!SignerIdentity(t) <=> E!SameSigner(s, t)
BY DEF E!SignerTypes, E!SignerIdentity, E!SameSigner

LEMMA LockedListWins ==
    ASSUME ProfileInv, knobs.locked, NEW source \in DOMAIN SystemMap
    PROVE  E!AllowlistOf(E!InForce.map, source) = SystemMap[source]
<1>1. CASE knobs.machine = None
  BY <1>1 DEF E!InForce, E!Effective, E!AllowlistOf
<1>2. CASE knobs.machine # None
  BY <1>2 DEF E!InForce, E!Effective, E!AllowlistOf
<1> QED  BY <1>1, <1>2

LEMMA LockedListIsHeld ==
    ASSUME ProfileInv
    PROVE  E!LockedListHolds
<1> SUFFICES ASSUME NEW o \in Offers, knobs.locked, o.kind = "git", o.source \in DOMAIN SystemMap
             PROVE  E!Verification(o.kind, E!AllowlistOf(E!InForce.map, o.source),
                                   knobs.require, o.candidates).verdict = "accepted" <=>
                        \E g \in E!Signatures(o.candidates[1]), s \in SystemMap[o.source] :
                            g.valid /\ E!SameSigner(g.signer, s)
  BY DEF E!LockedListHolds
<1> DEFINE list == SystemMap[o.source]
           top == o.candidates[1]
<1>1. E!AllowlistOf(E!InForce.map, o.source) = list /\ list # None
  BY LockedListWins, PartsAssumption DEF E!ProfileAssumption, E!SignerShapes
<1>2. E!Verification(o.kind, list, knobs.require, o.candidates).verdict = "accepted"
        <=> E!Signatures(top) # {} /\ E!Vouched(o.candidates, list)
  BY <1>1 DEF E!Verification, E!Accepted, E!Refused
<1>3. E!Vouched(o.candidates, list)
        <=> \E g \in E!Signatures(top), s \in list :
                g.valid /\ E!SignerIdentity(g.signer) = E!SignerIdentity(s)
  BY DEF E!Vouched, E!SignedBy, E!Identities
<1>4. /\ \A g \in E!Signatures(top) : g.signer.type \in E!SignerTypes
      /\ \A s \in list : s.type \in E!SignerTypes
  BY PartsAssumption DEF E!ProfileAssumption, E!SignerShapes
<1> HIDE DEF list, top
<1>5. E!Vouched(o.candidates, list)
        <=> \E g \in E!Signatures(top), s \in list : g.valid /\ E!SameSigner(g.signer, s)
  BY <1>3, <1>4, SameIdentity
<1> QED  BY <1>1, <1>2, <1>5 DEF list, top

\* The row of a source and the verdict on an update of it.
LEMMA SourceRowForetells ==
    ASSUME ProfileInv, NEW o \in Offers, o.kind = "git"
    PROVE  LET row == E!PostureRow(o.source, E!InForce.map, knobs.require,
                                   [verdict |-> "unknown", signer |-> "unknown"])
               v == E!Verification(o.kind, E!AllowlistOf(E!InForce.map, o.source),
                                   knobs.require, o.candidates)
           IN  /\ row.state = "required-missing" => v.why = "context_source_signers_missing"
               /\ row.state = "unconfigured" => v.verdict = "accepted"
               /\ row.state = "enforced" =>
                      v.verdict = "accepted" \/ v.why # "context_source_signers_missing"
<1> DEFINE map == E!InForce.map
<1>1. knobs \in Configurations  BY DEF ProfileInv, E!TypeOK
<1>2. knobs.require \in BOOLEAN /\ knobs.locked \in BOOLEAN
  BY <1>1, PartsAssumption DEF E!ProfileAssumption, E!KnobShapes
<1>3. \A s \in DOMAIN map : map[s] # None
  <2>1. /\ \A s \in DOMAIN SystemMap : SystemMap[s] # None
        /\ knobs.machine # None => \A s \in DOMAIN knobs.machine : knobs.machine[s] # None
    BY <1>1, PartsAssumption DEF E!ProfileAssumption, E!SignerShapes, E!KnobShapes
  <2>2. CASE knobs.machine = None
    BY <1>2, <2>1, <2>2 DEF E!InForce, E!Effective
  <2>3. CASE knobs.machine # None /\ knobs.locked
    BY <2>1, <2>3 DEF E!InForce, E!Effective
  <2>4. CASE knobs.machine # None /\ ~knobs.locked
    BY <2>1, <2>4 DEF E!InForce, E!Effective
  <2> QED  BY <1>2, <2>2, <2>3, <2>4
<1> HIDE DEF map
<1>4. CASE o.source \in DOMAIN map
  <2>1. E!AllowlistOf(map, o.source) # None  BY <1>3, <1>4 DEF E!AllowlistOf
  <2>2. E!PostureRow(o.source, map, knobs.require, [verdict |-> "unknown", signer |-> "unknown"]).state
            = "enforced"
    BY <1>4 DEF E!PostureRow
  <2> QED  BY <2>1, <2>2 DEF E!Verification, E!Accepted, E!Refused, map
<1>5. CASE o.source \notin DOMAIN map
  <2>1. E!AllowlistOf(map, o.source) = None  BY <1>5 DEF E!AllowlistOf
  <2>2. E!PostureRow(o.source, map, knobs.require, [verdict |-> "unknown", signer |-> "unknown"]).state
            = IF knobs.require THEN "required-missing" ELSE "unconfigured"
    BY <1>5 DEF E!PostureRow
  <2> QED  BY <1>2, <2>1, <2>2 DEF E!Verification, E!Accepted, E!Refused, map
<1> QED  BY <1>4, <1>5

\* What the status says of a seed, and what the home was made from.
LEMMA SeedRowForetells ==
    ASSUME ProfileInv, seed # None
    PROVE  LET row == E!B!SeedPosture(shipped, "codex_cli", seed.record)
           IN  /\ seed.record # None /\ E!B!Servers(seed.config) # {} =>
                      E!B!SeedWarning(seed.record.revision, seed.config) \in row.diagnostics
               /\ \/ row.as = "unknown" /\ row.repair
                  \/ row.as = "ungoverned" /\ E!B!Servers(seed.config) = row.names
                  \/ row.as \in {"not-inherited", "none"} /\ E!B!Servers(seed.config) = {}
<1>1. PICK r \in Releases, n \in Native :
        /\ seed.config = E!B!Seeded(r, n)
        /\ seed.record = None \/ seed.record = E!B!SeedRecord(r, n)
  BY DEF ProfileInv, SeedIsRecorded
<1>2. CASE seed.record = None
  BY <1>2 DEF E!B!SeedPosture
<1>3. CASE seed.record # None /\ r = "A"
  <2>1. seed.config = n /\ seed.record.revision = "A" /\ seed.record.names = E!B!Servers(n)
    BY <1>1, <1>3, NativeShape DEF E!B!SeedRecord
  <2> QED  BY <1>3, <2>1 DEF E!B!SeedPosture, E!B!SeedWarning
<1>4. CASE seed.record # None /\ r = "B"
  <2>1. /\ E!B!Servers(seed.config) = {} /\ seed.record.revision = "B"
    BY <1>1, <1>4, NativeShape DEF E!B!SeedRecord, E!B!Servers
  <2> QED  BY <1>4, <2>1 DEF E!B!SeedPosture
<1> QED  BY <1>2, <1>3, <1>4 DEF Releases

LEMMA StoreRowForetells ==
    ASSUME ProfileInv
    PROVE  /\ E!B!StoreStatus(harm.failing).current
                <=> E!B!Resolve(harm.failing, home).diagnostic # "environment_store_untrusted"
           /\ E!B!Repair(harm.object, harm.kind, harm.failing).rebuilt
                => E!B!DryRun(harm.object, harm.failing) = "would-rebuild-untrusted-store"
           /\ E!B!PathDryRun(directory).check = E!B!PathResolve(directory, FALSE, TRUE, "drop").check
<1>1. home \in E!B!HomeStates  BY DEF ProfileInv, E!TypeOK
<1>2. None # "environment_store_untrusted"  BY PartsAssumption DEF E!ProfileAssumption
<1>3. E!B!StoreStatus(harm.failing).current
        <=> E!B!Resolve(harm.failing, home).diagnostic # "environment_store_untrusted"
  BY <1>1, <1>2 DEF E!B!HomeStates, E!B!StoreStatus, E!B!Resolve, E!B!Answer
<1>4. E!B!Repair(harm.object, harm.kind, harm.failing).rebuilt
        => E!B!DryRun(harm.object, harm.failing) = "would-rebuild-untrusted-store"
  BY DEF E!B!Repair, E!B!DryRun
<1>5. E!B!PathDryRun(directory).check = E!B!PathResolve(directory, FALSE, TRUE, "drop").check
  BY DEF E!B!PathDryRun, E!B!PathResolve, E!B!Answer
<1> QED  BY <1>3, <1>4, <1>5

LEMMA PassedOn ==
    ASSUME ProfileInv
    PROVE
    E!B!Passable(knobs.knob, knobs.profile, Requested) \subseteq
        (IF knobs.knob.kind = "null"
            \/ E!B!PassDiagnostic(knobs.knob, knobs.profile, Requested) = "mcp_env_passthrough_unlisted"
         THEN Requested ELSE knobs.knob.names)
<1>1. knobs.knob.kind \in {"absent", "null", "list"}
  BY PartsAssumption DEF ProfileInv, E!TypeOK, E!ProfileAssumption, E!KnobShapes
<1> QED  BY <1>1 DEF E!B!Passable, E!B!PassDiagnostic

LEMMA FragmentIsPinned ==
    ASSUME ProfileInv
    PROVE  E!LaunchesWhatIsPinned
<1> SUFFICES ASSUME E!Resolves
             PROVE  harm.failing = {} /\ (Overlay \in DOMAIN lock => directory = {})
  BY DEF E!LaunchesWhatIsPinned, ProfileInv
<1>1. E!B!Resolve(harm.failing, home).fragment /\ E!OverlayAnswer.fragment
  BY DEF E!Resolves
<1>2. home \in E!B!HomeStates  BY DEF ProfileInv, E!TypeOK
<1>3. harm.failing = {}
  BY <1>1, <1>2 DEF E!B!HomeStates, E!B!Resolve, E!B!Answer, E!B!Trusted
<1>4. Overlay \in DOMAIN lock => directory = {}
  BY <1>1 DEF E!OverlayAnswer, E!B!PathResolve, E!B!Answer
<1> QED  BY <1>3, <1>4

--------------------------------------------------------------------------------
LEMMA ProfileInvariance ==
    /\ InitAll /\ part = "profile" => ProfileInv
    /\ part = "profile" /\ ProfileInv /\ [NextAll]_<<part, vars, vectorVars, profileVars>>
        => part' = "profile" /\ ProfileInv'
<1>1. ASSUME ProfileInv, UNCHANGED profileVars PROVE ProfileInv'
  BY <1>1 DEF profileVars, ProfileInv, E!TypeOK, E!NothingNewUnseen, E!Surface, SeedIsRecorded
<1> QED  BY <1>1, PartSteps, ProfileInit, ProfileNext

\* Whatever a lock brings to the agent was named when it came in, and a source whose
\* list the system locks takes only what that list vouches for, for any
\* configurations, offers and order of updates.
THEOREM SourceSafety == SpecAll => []NothingNewUnseen
<1> DEFINE Inv == part = "profile" => ProfileInv
<1>1. Inv => NothingNewUnseen
  BY LockedListIsHeld DEF ProfileInv, NothingNewUnseen
<1>2. InitAll => Inv
  BY ProfileInvariance
<1>3. Inv /\ [NextAll]_<<part, vars, vectorVars, profileVars>> => Inv'
  BY ProfileInvariance, PartSteps
<1> QED  BY <1>1, <1>2, <1>3, PTL DEF SpecAll

\* What the status says of a profile is what its operations do, and a launch gets a
\* fragment only of bytes its lock pins, for any harms, repairs and native documents.
THEOREM ProfileSafety == SpecAll => []ProfileKeepsItsWord
<1> DEFINE Inv == part = "profile" => ProfileInv
<1>1. Inv => ProfileKeepsItsWord
  <2> SUFFICES ASSUME ProfileInv PROVE E!RowsForetell /\ E!LaunchesWhatIsPinned
    BY DEF ProfileKeepsItsWord
  <2> QED  BY SourceRowForetells, SeedRowForetells, StoreRowForetells, PassedOn, FragmentIsPinned
    DEF E!RowsForetell
<1>2. InitAll => Inv
  BY ProfileInvariance
<1>3. Inv /\ [NextAll]_<<part, vars, vectorVars, profileVars>> => Inv'
  BY ProfileInvariance, PartSteps
<1> QED  BY <1>1, <1>2, <1>3, PTL DEF SpecAll
================================================================================
