------------------------ MODULE FixtureSupervisionProofs ------------------------
(***************************************************************************)
(* Proofs about FixtureSupervision, for every set of body statuses, both   *)
(* platforms and every combination of faults.                              *)
(***************************************************************************)
EXTENDS FixtureSupervision, TLAPS

\* The owner has put its pipes down, or never had a provider.
Unwinding == {"release", "grace", "kill", "reap", "sweep", "done"}

\* Nothing runs, is announced or is verified before the child is spawned.
BeforeSpawn ==
  /\ provider \in {"none", "boot", "spawn"} => child = "none" /\ told = "nothing"
  /\ child = "none" => kin = "none"
  /\ ready \/ observer # "off" => told # "nothing"

\* Once the provider has sent SIGKILL to the group, nothing in it runs.
ProviderStopped ==
  /\ provider \in {"reap", "rmtree", "report", "exit"} => GroupQuiet
  /\ told = "completed" => GroupQuiet
  /\ told = "completed" => provider \in {"exit", "doomed", "gone"}

\* A result is only taken from a completed record.
ResultReported ==
  /\ reader \in {"teardown", "ok"} => told = "completed"
  /\ result # Pending => told = "completed"
  /\ clean => result # Pending
  /\ owner \in {"prepare", "setup", "select"} => ~clean

\* A verified run that is being unwound on Unix has had its group stopped.
VerifiedStopped ==
  ready /\ platform # "windows" /\ owner \in Unwinding => GroupQuiet

\* On Windows the provider's end is the group's.
JobStopped == platform = "windows" /\ provider = "gone" => GroupQuiet

\* The owner may only remove the root when nobody can run in it again.
CleanupSafe ==
  /\ allowed => owner \in {"prepare", "sweep", "done", "killed"}
  /\ owner = "prepare" => provider = "none" /\ root = "present"
  /\ allowed => provider \in {"none", "gone"} /\ GroupQuiet

\* Nothing is dispatched into a root that has been removed.
RemovedSafe ==
  /\ root = "gone" => GroupQuiet
  /\ root = "gone" => provider \notin {"boot", "spawn"}

\* A provider the owner is done with dispatches nothing.
Retired ==
  /\ owner = "reap" => provider \in {"doomed", "gone"}
  /\ owner \in {"sweep", "done"} => provider \in {"none", "doomed", "gone"}

Safe ==
  /\ BeforeSpawn
  /\ ProviderStopped
  /\ ResultReported
  /\ VerifiedStopped
  /\ JobStopped
  /\ CleanupSafe
  /\ RemovedSafe
  /\ Retired

IInv == TypeOK /\ Safe
-----------------------------------------------------------------------------
(* Types, one step per action.                                             *)

LEMMA GroupStepType ==
  ASSUME IInv, GroupStep
  PROVE  TypeOK'
<1> USE FixtureAssumption DEF IInv, TypeOK, Places, Flags, Codes, ResultReported, LiveChild, Status,
      Refused, Killed, Signalled, Aborted, Pending,
      ownerVars, watchVars, providerVars, groupVars
<1>1. CASE ChildGranted
  BY <1>1 DEF ChildGranted
<1>2. CASE ChildRefusesGrant
  BY <1>2 DEF ChildRefusesGrant, ChildExits
<1>3. CASE ChildDials
  BY <1>3 DEF ChildDials
<1>4. CASE ChildSaysHello
  BY <1>4 DEF ChildSaysHello
<1>5. CASE ChildPhaseFails
  BY <1>5 DEF ChildPhaseFails, ChildExits
<1>6. CASE ChildLeaseLost
  BY <1>6 DEF ChildLeaseLost, ChildExits
<1>7. CASE BodyStartsKin
  BY <1>7 DEF BodyStartsKin
<1>8. CASE KinEnds
  BY <1>8 DEF KinEnds
<1>9. ASSUME NEW s \in BodyStatus, BodyEnds(s) PROVE TypeOK'
  BY <1>9 DEF BodyEnds, ChildExits
<1> QED
  BY <1>1, <1>2, <1>3, <1>4, <1>5, <1>6, <1>7, <1>8, <1>9 DEF GroupStep

LEMMA KernelStepType ==
  ASSUME IInv, KernelStep \/ ProviderDies
  PROVE  TypeOK'
<1> USE FixtureAssumption DEF IInv, TypeOK, Places, Flags, Codes, ResultReported, LiveChild, Status,
      Refused, Killed, Signalled, Aborted, Pending,
      ownerVars, watchVars, providerVars, groupVars
<1>1. CASE ChildDies
  BY <1>1 DEF ChildDies, ChildExits
<1>2. CASE KinDies
  BY <1>2 DEF KinDies
<1>3. CASE ProviderDies
  BY <1>3 DEF ProviderDies, KillGroup, ProviderEnds
<1> QED
  BY <1>1, <1>2, <1>3 DEF KernelStep

LEMMA ProviderStepType ==
  ASSUME IInv, ProviderStep
  PROVE  TypeOK'
<1> USE FixtureAssumption DEF IInv, TypeOK, Places, Flags, Codes, ResultReported, LiveChild, Status,
      Refused, Killed, Signalled, Aborted, Pending,
      ownerVars, watchVars, providerVars, groupVars
<1>1. CASE ProviderBoots
  BY <1>1 DEF ProviderBoots
<1>2. CASE LeaseRevoked
  BY <1>2 DEF LeaseRevoked
<1>3. CASE ProviderSpawns
  BY <1>3 DEF ProviderSpawns
<1>4. CASE ProviderAnnounces
  <2>1. Places' /\ Codes'
    BY <1>4, SMT DEF ProviderAnnounces
  <2>2. Flags'
    BY <1>4, Zenon DEF ProviderAnnounces
  <2> QED
    BY <2>1, <2>2
<1>5. CASE ProviderGrants
  <2>1. Places' /\ Codes'
    BY <1>5, SMT DEF ProviderGrants
  <2>2. Flags'
    BY <1>5, Zenon DEF ProviderGrants
  <2> QED
    BY <2>1, <2>2
<1>6. CASE ProviderSeesExit
  BY <1>6 DEF ProviderSeesExit
<1>7. CASE ProviderSeesLoss
  BY <1>7 DEF ProviderSeesLoss
<1>8. CASE ProviderStopsGroup
  BY <1>8 DEF ProviderStopsGroup, KillGroup
<1>9. CASE ProviderReaps
  BY <1>9 DEF ProviderReaps
<1>10. CASE ProviderReapExpires
  BY <1>10 DEF ProviderReapExpires
<1>11. CASE ProviderRemovesRoot
  BY <1>11 DEF ProviderRemovesRoot
<1>12. CASE ProviderReports
  <2>1. Places' /\ Codes'
    BY <1>12, SMT DEF ProviderReports
  <2>2. Flags'
    BY <1>12, Zenon DEF ProviderReports
  <2> QED
    BY <2>1, <2>2
<1>13. CASE ProviderExits
  BY <1>13 DEF ProviderExits, KillGroup, ProviderEnds
<1> QED
  BY <1>1, <1>2, <1>3, <1>4, <1>5, <1>6, <1>7, <1>8, <1>9, <1>10, <1>11, <1>12, <1>13 DEF ProviderStep

LEMMA ProviderFaultType ==
  ASSUME IInv, ProviderFault
  PROVE  TypeOK'
<1> USE FixtureAssumption DEF IInv, TypeOK, Places, Flags, Codes, ResultReported, LiveChild, Status,
      Refused, Killed, Signalled, Aborted, Pending,
      ownerVars, watchVars, providerVars, groupVars
<1>1. CASE ProviderBootFails
  BY <1>1 DEF ProviderBootFails
<1>2. CASE ProviderSpawnFails
  BY <1>2 DEF ProviderSpawnFails
<1>3. CASE ProviderSignalled
  BY <1>3 DEF ProviderSignalled
<1>4. CASE ProviderRemoveFails
  BY <1>4 DEF ProviderRemoveFails
<1>5. CASE ProviderKilled
  BY <1>5 DEF ProviderKilled, KillGroup, ProviderEnds
<1> QED
  BY <1>1, <1>2, <1>3, <1>4, <1>5 DEF ProviderFault

LEMMA WatchStepType ==
  ASSUME IInv, WatchStep
  PROVE  TypeOK'
<1> USE FixtureAssumption DEF IInv, TypeOK, Places, Flags, Codes, ResultReported, LiveChild, Status,
      Refused, Killed, Signalled, Aborted, Pending,
      ownerVars, watchVars, providerVars, groupVars
<1>1. CASE ObserveIdentity
  BY <1>1 DEF ObserveIdentity
<1>2. CASE ObserveRefusal
  BY <1>2 DEF ObserveRefusal
<1>3. CASE ObserveClose
  BY <1>3 DEF ObserveClose
<1>4. CASE ReadCompletion
  BY <1>4 DEF ReadCompletion
<1>5. CASE ReadPrematureEOF
  BY <1>5 DEF ReadPrematureEOF
<1>6. CASE ConfirmExit
  BY <1>6 DEF ConfirmExit
<1>7. CASE TeardownExpires
  BY <1>7 DEF TeardownExpires
<1> QED
  BY <1>1, <1>2, <1>3, <1>4, <1>5, <1>6, <1>7 DEF WatchStep

\* Receiving an event leaves every flag a Boolean.
LEMMA SettleClean ==
  ASSUME clean \in BOOLEAN, Settle
  PROVE  clean' \in BOOLEAN
BY Zenon DEF Settle, Return

LEMMA ReceiveFlags ==
  ASSUME Flags, ReceiveReady \/ ReceiveExit \/ ReceiveResult
  PROVE  Flags'
<1>1. clean' \in BOOLEAN
  <2>1. clean \in BOOLEAN  BY Zenon DEF Flags
  <2>2. CASE ReceiveReady  BY <2>1, <2>2, SettleClean, Zenon DEF ReceiveReady
  <2>3. CASE ReceiveExit  BY <2>1, <2>3, SettleClean, Zenon DEF ReceiveExit
  <2>4. CASE ReceiveResult
    <3>1. clean' = clean \/ Settle  BY <2>4, Zenon DEF ReceiveResult
    <3> QED  BY <2>1, <3>1, SettleClean, Zenon
  <2> QED  BY <2>2, <2>3, <2>4, Zenon
<1>2. allowed' = allowed /\ pipes' = pipes /\ failing' = failing /\ granted' = granted
  BY Zenon DEF ReceiveReady, ReceiveExit, ReceiveResult, providerVars, groupVars
<1>3. (ready' = TRUE \/ ready' = ready) /\ (exited' = TRUE \/ exited' = exited)
  BY Zenon DEF ReceiveReady, ReceiveExit, ReceiveResult
<1>4. /\ ready \in BOOLEAN /\ exited \in BOOLEAN /\ allowed \in BOOLEAN
      /\ pipes \in BOOLEAN /\ failing \in BOOLEAN /\ granted \in BOOLEAN
  BY Zenon DEF Flags
<1>5. ready' \in BOOLEAN  BY <1>3, <1>4, Zenon
<1>6. exited' \in BOOLEAN  BY <1>3, <1>4, Zenon
<1>7. allowed' \in BOOLEAN /\ pipes' \in BOOLEAN /\ failing' \in BOOLEAN /\ granted' \in BOOLEAN
  BY <1>2, <1>4, Zenon
<1> QED  BY <1>1, <1>5, <1>6, <1>7, Zenon DEF Flags

LEMMA OwnerStepType ==
  ASSUME IInv, OwnerStep
  PROVE  TypeOK'
<1> USE FixtureAssumption DEF IInv, TypeOK, Places, Flags, Codes, ResultReported, LiveChild, Status,
      Refused, Killed, Signalled, Aborted, Pending,
      ownerVars, watchVars, providerVars, groupVars
<1>1. CASE OwnerStarts
  <2>1. Places' /\ Codes'
    BY <1>1, SMT DEF OwnerStarts
  <2>2. Flags'
    BY <1>1, Zenon DEF OwnerStarts
  <2> QED
    BY <2>1, <2>2
<1>2. CASE OwnerReadsStart
  BY <1>2 DEF OwnerReadsStart
<1>3. CASE OwnerSetupFails
  BY <1>3 DEF OwnerSetupFails, Return
<1>4. CASE ReceiveReady
  <2>1. Places' /\ Codes'
    BY <1>4, SMT DEF ReceiveReady, Return, Settle
  <2>2. Flags'
    BY <1>4, ReceiveFlags, Zenon
  <2> QED
    BY <2>1, <2>2
<1>5. CASE ReceiveExit
  <2>1. Places' /\ Codes'
    BY <1>5, SMT DEF ReceiveExit, Return, Settle
  <2>2. Flags'
    BY <1>5, ReceiveFlags, Zenon
  <2> QED
    BY <2>1, <2>2
<1>6. CASE ReceivePhaseError
  BY <1>6 DEF ReceivePhaseError, Return
<1>7. CASE ReceiveResult
  <2>1. Places' /\ Codes'
    BY <1>7, SMT DEF ReceiveResult, Return, Settle
  <2>2. Flags'
    BY <1>7, ReceiveFlags, Zenon
  <2> QED
    BY <2>1, <2>2
<1>8. CASE ReceiveProviderError
  BY <1>8 DEF ReceiveProviderError, Return
<1>9. CASE SetupDeadline
  BY <1>9 DEF SetupDeadline, Return
<1>10. CASE CleanupDeadline
  BY <1>10 DEF CleanupDeadline, Return
<1>11. CASE OwnerStopsGroup
  BY <1>11 DEF OwnerStopsGroup, KillGroup
<1>12. CASE OwnerReleases
  <2>1. Places' /\ Codes'
    BY <1>12, SMT DEF OwnerReleases
  <2>2. Flags'
    BY <1>12, Zenon DEF OwnerReleases
  <2> QED
    BY <2>1, <2>2
<1>13. CASE ProviderGoneInGrace
  <2>1. Places' /\ Codes'
    BY <1>13, SMT DEF ProviderGoneInGrace, ConfirmCleanup
  <2>2. Flags'
    BY <1>13, Zenon DEF ProviderGoneInGrace, ConfirmCleanup
  <2> QED
    BY <2>1, <2>2
<1>14. CASE GraceExpires
  BY <1>14 DEF GraceExpires
<1>15. CASE OwnerKillsProvider
  BY <1>15 DEF OwnerKillsProvider
<1>16. CASE OwnerReaps
  <2>1. Places' /\ Codes'
    BY <1>16, SMT DEF OwnerReaps, ConfirmCleanup
  <2>2. Flags'
    BY <1>16, Zenon DEF OwnerReaps, ConfirmCleanup
  <2> QED
    BY <2>1, <2>2
<1>17. CASE OwnerReapExpires
  BY <1>17 DEF OwnerReapExpires
<1>18. CASE OwnerSweeps
  BY <1>18 DEF OwnerSweeps
<1> QED
  BY <1>1, <1>2, <1>3, <1>4, <1>5, <1>6, <1>7, <1>8, <1>9, <1>10, <1>11, <1>12, <1>13, <1>14, <1>15, <1>16, <1>17, <1>18 DEF OwnerStep

LEMMA OwnerFaultType ==
  ASSUME IInv, ObserveError \/ OwnerPrepareFails \/ OwnerSweepFails \/ OwnerKilled
  PROVE  TypeOK'
<1> USE FixtureAssumption DEF IInv, TypeOK, Places, Flags, Codes, ResultReported, LiveChild, Status,
      Refused, Killed, Signalled, Aborted, Pending,
      ownerVars, watchVars, providerVars, groupVars
<1>1. CASE ObserveError
  BY <1>1 DEF ObserveError
<1>2. CASE OwnerPrepareFails
  BY <1>2 DEF OwnerPrepareFails
<1>3. CASE OwnerSweepFails
  BY <1>3 DEF OwnerSweepFails
<1>4. CASE OwnerKilled
  <2>1. Places' /\ Codes'
    BY <1>4, SMT DEF OwnerKilled
  <2>2. Flags'
    BY <1>4, Zenon DEF OwnerKilled
  <2> QED
    BY <2>1, <2>2
<1> QED
  BY <1>1, <1>2, <1>3, <1>4

-----------------------------------------------------------------------------
(* The strengthening, one step per action.                                 *)

LEMMA GroupStepSafe ==
  ASSUME IInv, GroupStep
  PROVE  Safe'
<1> USE DEF IInv, TypeOK, Places, Flags, Codes, Safe, BeforeSpawn, ProviderStopped, ResultReported,
      VerifiedStopped, JobStopped, CleanupSafe, RemovedSafe, Retired, Retired, GroupQuiet, LiveChild,
      Unwinding, ownerVars, watchVars, providerVars, groupVars
<1>1. CASE ChildGranted
  BY <1>1 DEF ChildGranted
<1>2. CASE ChildRefusesGrant
  BY <1>2 DEF ChildRefusesGrant, ChildExits
<1>3. CASE ChildDials
  BY <1>3 DEF ChildDials
<1>4. CASE ChildSaysHello
  BY <1>4 DEF ChildSaysHello
<1>5. CASE ChildPhaseFails
  BY <1>5 DEF ChildPhaseFails, ChildExits
<1>6. CASE ChildLeaseLost
  BY <1>6 DEF ChildLeaseLost, ChildExits
<1>7. CASE BodyStartsKin
  BY <1>7 DEF BodyStartsKin
<1>8. CASE KinEnds
  BY <1>8 DEF KinEnds
<1>9. ASSUME NEW s \in BodyStatus, BodyEnds(s) PROVE Safe'
  BY <1>9 DEF BodyEnds, ChildExits
<1> QED
  BY <1>1, <1>2, <1>3, <1>4, <1>5, <1>6, <1>7, <1>8, <1>9 DEF GroupStep

LEMMA KernelStepSafe ==
  ASSUME IInv, KernelStep \/ ProviderDies
  PROVE  Safe'
<1> USE DEF IInv, TypeOK, Places, Flags, Codes, Safe, BeforeSpawn, ProviderStopped, ResultReported,
      VerifiedStopped, JobStopped, CleanupSafe, RemovedSafe, Retired, Retired, GroupQuiet, LiveChild,
      Unwinding, ownerVars, watchVars, providerVars, groupVars
<1>1. CASE ChildDies
  BY <1>1 DEF ChildDies, ChildExits
<1>2. CASE KinDies
  BY <1>2 DEF KinDies
<1>3. CASE ProviderDies
  BY <1>3 DEF ProviderDies, KillGroup, ProviderEnds
<1> QED
  BY <1>1, <1>2, <1>3 DEF KernelStep

LEMMA ProviderStepSafe ==
  ASSUME IInv, ProviderStep
  PROVE  Safe'
<1> USE DEF IInv, TypeOK, Places, Flags, Codes, Safe, BeforeSpawn, ProviderStopped, ResultReported,
      VerifiedStopped, JobStopped, CleanupSafe, RemovedSafe, Retired, Retired, GroupQuiet, LiveChild,
      Unwinding, ownerVars, watchVars, providerVars, groupVars
<1>1. CASE ProviderBoots
  BY <1>1 DEF ProviderBoots
<1>2. CASE LeaseRevoked
  BY <1>2 DEF LeaseRevoked
<1>3. CASE ProviderSpawns
  BY <1>3 DEF ProviderSpawns
<1>4. CASE ProviderAnnounces
  BY <1>4 DEF ProviderAnnounces
<1>5. CASE ProviderGrants
  BY <1>5 DEF ProviderGrants
<1>6. CASE ProviderSeesExit
  BY <1>6 DEF ProviderSeesExit
<1>7. CASE ProviderSeesLoss
  BY <1>7 DEF ProviderSeesLoss
<1>8. CASE ProviderStopsGroup
  BY <1>8 DEF ProviderStopsGroup, KillGroup
<1>9. CASE ProviderReaps
  BY <1>9 DEF ProviderReaps
<1>10. CASE ProviderReapExpires
  BY <1>10 DEF ProviderReapExpires
<1>11. CASE ProviderRemovesRoot
  BY <1>11 DEF ProviderRemovesRoot
<1>12. CASE ProviderReports
  BY <1>12 DEF ProviderReports
<1>13. CASE ProviderExits
  BY <1>13 DEF ProviderExits, KillGroup, ProviderEnds
<1> QED
  BY <1>1, <1>2, <1>3, <1>4, <1>5, <1>6, <1>7, <1>8, <1>9, <1>10, <1>11, <1>12, <1>13 DEF ProviderStep

LEMMA ProviderFaultSafe ==
  ASSUME IInv, ProviderFault
  PROVE  Safe'
<1> USE DEF IInv, TypeOK, Places, Flags, Codes, Safe, BeforeSpawn, ProviderStopped, ResultReported,
      VerifiedStopped, JobStopped, CleanupSafe, RemovedSafe, Retired, Retired, GroupQuiet, LiveChild,
      Unwinding, ownerVars, watchVars, providerVars, groupVars
<1>1. CASE ProviderBootFails
  BY <1>1 DEF ProviderBootFails
<1>2. CASE ProviderSpawnFails
  BY <1>2 DEF ProviderSpawnFails
<1>3. CASE ProviderSignalled
  BY <1>3 DEF ProviderSignalled
<1>4. CASE ProviderRemoveFails
  BY <1>4 DEF ProviderRemoveFails
<1>5. CASE ProviderKilled
  BY <1>5 DEF ProviderKilled, KillGroup, ProviderEnds
<1> QED
  BY <1>1, <1>2, <1>3, <1>4, <1>5 DEF ProviderFault

LEMMA WatchStepSafe ==
  ASSUME IInv, WatchStep
  PROVE  Safe'
<1> USE DEF IInv, TypeOK, Places, Flags, Codes, Safe, BeforeSpawn, ProviderStopped, ResultReported,
      VerifiedStopped, JobStopped, CleanupSafe, RemovedSafe, Retired, Retired, GroupQuiet, LiveChild,
      Unwinding, ownerVars, watchVars, providerVars, groupVars
<1>1. CASE ObserveIdentity
  BY <1>1 DEF ObserveIdentity
<1>2. CASE ObserveRefusal
  BY <1>2 DEF ObserveRefusal
<1>3. CASE ObserveClose
  BY <1>3 DEF ObserveClose
<1>4. CASE ReadCompletion
  BY <1>4 DEF ReadCompletion
<1>5. CASE ReadPrematureEOF
  BY <1>5 DEF ReadPrematureEOF
<1>6. CASE ConfirmExit
  BY <1>6 DEF ConfirmExit
<1>7. CASE TeardownExpires
  BY <1>7 DEF TeardownExpires
<1> QED
  BY <1>1, <1>2, <1>3, <1>4, <1>5, <1>6, <1>7 DEF WatchStep

LEMMA OwnerStepSafe ==
  ASSUME IInv, OwnerStep
  PROVE  Safe'
<1> USE DEF IInv, TypeOK, Places, Flags, Codes, Safe, BeforeSpawn, ProviderStopped, ResultReported,
      VerifiedStopped, JobStopped, CleanupSafe, RemovedSafe, Retired, Retired, GroupQuiet, LiveChild,
      Unwinding, ownerVars, watchVars, providerVars, groupVars
<1>1. CASE OwnerStarts
  BY <1>1 DEF OwnerStarts
<1>2. CASE OwnerReadsStart
  BY <1>2 DEF OwnerReadsStart
<1>3. CASE OwnerSetupFails
  BY <1>3 DEF OwnerSetupFails, Return
<1>4. CASE ReceiveReady
  BY <1>4 DEF ReceiveReady, Return, Settle
<1>5. CASE ReceiveExit
  BY <1>5 DEF ReceiveExit, Return, Settle
<1>6. CASE ReceivePhaseError
  BY <1>6 DEF ReceivePhaseError, Return
<1>7. CASE ReceiveResult
  BY <1>7 DEF ReceiveResult, Return, Settle
<1>8. CASE ReceiveProviderError
  BY <1>8 DEF ReceiveProviderError, Return
<1>9. CASE SetupDeadline
  BY <1>9 DEF SetupDeadline, Return
<1>10. CASE CleanupDeadline
  BY <1>10 DEF CleanupDeadline, Return
<1>11. CASE OwnerStopsGroup
  BY <1>11 DEF OwnerStopsGroup, KillGroup
<1>12. CASE OwnerReleases
  BY <1>12 DEF OwnerReleases
<1>13. CASE ProviderGoneInGrace
  BY <1>13 DEF ProviderGoneInGrace, ConfirmCleanup
<1>14. CASE GraceExpires
  BY <1>14 DEF GraceExpires
<1>15. CASE OwnerKillsProvider
  BY <1>15 DEF OwnerKillsProvider
<1>16. CASE OwnerReaps
  BY <1>16 DEF OwnerReaps, ConfirmCleanup
<1>17. CASE OwnerReapExpires
  BY <1>17 DEF OwnerReapExpires
<1>18. CASE OwnerSweeps
  BY <1>18 DEF OwnerSweeps
<1> QED
  BY <1>1, <1>2, <1>3, <1>4, <1>5, <1>6, <1>7, <1>8, <1>9, <1>10, <1>11, <1>12, <1>13, <1>14, <1>15, <1>16, <1>17, <1>18 DEF OwnerStep

LEMMA OwnerFaultSafe ==
  ASSUME IInv, ObserveError \/ OwnerPrepareFails \/ OwnerSweepFails \/ OwnerKilled
  PROVE  Safe'
<1> USE DEF IInv, TypeOK, Places, Flags, Codes, Safe, BeforeSpawn, ProviderStopped, ResultReported,
      VerifiedStopped, JobStopped, CleanupSafe, RemovedSafe, Retired, Retired, GroupQuiet, LiveChild,
      Unwinding, ownerVars, watchVars, providerVars, groupVars
<1>1. CASE ObserveError
  BY <1>1 DEF ObserveError
<1>2. CASE OwnerPrepareFails
  BY <1>2 DEF OwnerPrepareFails
<1>3. CASE OwnerSweepFails
  BY <1>3 DEF OwnerSweepFails
<1>4. CASE OwnerKilled
  BY <1>4 DEF OwnerKilled
<1> QED
  BY <1>1, <1>2, <1>3, <1>4

-----------------------------------------------------------------------------

LEMMA InitIInv == Init => IInv
  BY FixtureAssumption
  DEF Init, IInv, TypeOK, Places, Flags, Codes, Safe, BeforeSpawn, ProviderStopped, ResultReported,
      VerifiedStopped, JobStopped, CleanupSafe, RemovedSafe, Retired, Retired, GroupQuiet, LiveChild,
      Unwinding, Status, Refused, Killed, Signalled, Aborted, Pending

LEMMA StutterIInv == IInv /\ UNCHANGED vars => IInv'
  BY DEF vars, ownerVars, watchVars, providerVars, groupVars,
      IInv, TypeOK, Places, Flags, Codes, Safe, BeforeSpawn, ProviderStopped, ResultReported,
      VerifiedStopped, JobStopped, CleanupSafe, RemovedSafe, Retired, Retired, GroupQuiet, LiveChild,
      Unwinding

\* Every step of the owner, the provider, the child, their helpers and the
\* failing environment preserves the strengthening.
LEMMA NextIInv == IInv /\ [Next]_vars => IInv'
<1> SUFFICES ASSUME IInv, [Next]_vars PROVE IInv'
  OBVIOUS
<1>1. CASE GroupStep
  BY <1>1, GroupStepType, GroupStepSafe DEF IInv
<1>2. CASE KernelStep \/ ProviderDies
  BY <1>2, KernelStepType, KernelStepSafe DEF IInv
<1>3. CASE ProviderStep
  BY <1>3, ProviderStepType, ProviderStepSafe DEF IInv
<1>4. CASE ProviderFault
  BY <1>4, ProviderFaultType, ProviderFaultSafe DEF IInv
<1>5. CASE WatchStep
  BY <1>5, WatchStepType, WatchStepSafe DEF IInv
<1>6. CASE OwnerStep
  BY <1>6, OwnerStepType, OwnerStepSafe DEF IInv
<1>7. CASE ObserveError \/ OwnerPrepareFails \/ OwnerSweepFails \/ OwnerKilled
  BY <1>7, OwnerFaultType, OwnerFaultSafe DEF IInv
<1>8. CASE UNCHANGED vars
  BY <1>8, StutterIInv
<1> QED
  BY <1>1, <1>2, <1>3, <1>4, <1>5, <1>6, <1>7, <1>8 DEF Next, Fault

THEOREM Inductive == Spec => []IInv
<1>1. Init => IInv
  BY InitIInv
<1>2. IInv /\ [Next]_vars => IInv'
  BY NextIInv
<1> QED
  BY <1>1, <1>2, PTL DEF Spec

\* Every variable keeps its type.
THEOREM TypeCorrect == Spec => []TypeOK
<1>1. IInv => TypeOK
  BY DEF IInv
<1> QED
  BY <1>1, Inductive, PTL

\* The root is never removed from under a process of the group that can run.
THEOREM RootSafety == Spec => []RootOutlivesGroup
<1>1. IInv => RootOutlivesGroup
  BY DEF IInv, Safe, RemovedSafe, RootOutlivesGroup
<1> QED
  BY <1>1, Inductive, PTL
-----------------------------------------------------------------------------
(* The verdict.  The strengthening follows the status from the child's exit *)
(* through the provider's report and the reader to the owner.               *)

\* A verdict that is not of the provider's own making is the child's status.
VerdictIsChilds ==
  verdict \notin {Pending, Refused, Signalled} =>
    child = "gone" /\ verdict = childStatus

\* The normal path of the provider: reap, remove, report.
ReportEarned ==
  /\ failing => provider \in {"stop", "reap", "rmtree", "exit", "doomed", "gone"}
  /\ provider = "rmtree" /\ ~failing => child = "gone"
  /\ provider = "report" => ~failing /\ child = "gone" /\ root = "gone"
  /\ told = "completed" => child = "gone" /\ root = "gone"

\* What the owner holds is what the provider reported.
StatusEarned ==
  /\ result # Pending => result = verdict
  /\ status \notin {Pending, Refused} => clean /\ status = result
  /\ status = Pending => owner \in {"prepare", "setup", "select", "killed"}

Earned == VerdictIsChilds /\ ReportEarned /\ StatusEarned

LEMMA GroupStepEarned ==
  ASSUME IInv, Earned, GroupStep
  PROVE  Earned'
<1> USE DEF IInv, TypeOK, Places, Flags, Codes, Safe, BeforeSpawn, ProviderStopped,
      ResultReported, GroupQuiet, LiveChild, Earned, VerdictIsChilds, ReportEarned,
      StatusEarned, Status, Refused, Killed, Signalled, Aborted, Pending,
      ownerVars, watchVars, providerVars, groupVars
<1>1. CASE ChildGranted
  BY <1>1 DEF ChildGranted
<1>2. CASE ChildRefusesGrant
  BY <1>2 DEF ChildRefusesGrant, ChildExits
<1>3. CASE ChildDials
  BY <1>3 DEF ChildDials
<1>4. CASE ChildSaysHello
  BY <1>4 DEF ChildSaysHello
<1>5. CASE ChildPhaseFails
  BY <1>5 DEF ChildPhaseFails, ChildExits
<1>6. CASE ChildLeaseLost
  BY <1>6 DEF ChildLeaseLost, ChildExits
<1>7. CASE BodyStartsKin
  BY <1>7 DEF BodyStartsKin
<1>8. CASE KinEnds
  BY <1>8 DEF KinEnds
<1>9. ASSUME NEW s \in BodyStatus, BodyEnds(s) PROVE Earned'
  BY <1>9 DEF BodyEnds, ChildExits
<1> QED
  BY <1>1, <1>2, <1>3, <1>4, <1>5, <1>6, <1>7, <1>8, <1>9 DEF GroupStep

LEMMA KernelStepEarned ==
  ASSUME IInv, Earned, KernelStep \/ ProviderDies
  PROVE  Earned'
<1> USE DEF IInv, TypeOK, Places, Flags, Codes, Safe, BeforeSpawn, ProviderStopped,
      ResultReported, GroupQuiet, LiveChild, Earned, VerdictIsChilds, ReportEarned,
      StatusEarned, Status, Refused, Killed, Signalled, Aborted, Pending,
      ownerVars, watchVars, providerVars, groupVars
<1>1. CASE ChildDies
  BY <1>1 DEF ChildDies, ChildExits
<1>2. CASE KinDies
  BY <1>2 DEF KinDies
<1>3. CASE ProviderDies
  BY <1>3 DEF ProviderDies, KillGroup, ProviderEnds
<1> QED
  BY <1>1, <1>2, <1>3 DEF KernelStep

LEMMA ProviderStepEarned ==
  ASSUME IInv, Earned, ProviderStep
  PROVE  Earned'
<1> USE DEF IInv, TypeOK, Places, Flags, Codes, Safe, BeforeSpawn, ProviderStopped,
      ResultReported, GroupQuiet, LiveChild, Earned, VerdictIsChilds, ReportEarned,
      StatusEarned, Status, Refused, Killed, Signalled, Aborted, Pending,
      ownerVars, watchVars, providerVars, groupVars
<1>1. CASE ProviderBoots
  BY <1>1 DEF ProviderBoots
<1>2. CASE LeaseRevoked
  BY <1>2 DEF LeaseRevoked
<1>3. CASE ProviderSpawns
  BY <1>3 DEF ProviderSpawns
<1>4. CASE ProviderAnnounces
  BY <1>4 DEF ProviderAnnounces
<1>5. CASE ProviderGrants
  BY <1>5 DEF ProviderGrants
<1>6. CASE ProviderSeesExit
  BY <1>6 DEF ProviderSeesExit
<1>7. CASE ProviderSeesLoss
  BY <1>7 DEF ProviderSeesLoss
<1>8. CASE ProviderStopsGroup
  BY <1>8 DEF ProviderStopsGroup, KillGroup
<1>9. CASE ProviderReaps
  BY <1>9 DEF ProviderReaps
<1>10. CASE ProviderReapExpires
  BY <1>10 DEF ProviderReapExpires
<1>11. CASE ProviderRemovesRoot
  BY <1>11 DEF ProviderRemovesRoot
<1>12. CASE ProviderReports
  BY <1>12 DEF ProviderReports
<1>13. CASE ProviderExits
  BY <1>13 DEF ProviderExits, KillGroup, ProviderEnds
<1> QED
  BY <1>1, <1>2, <1>3, <1>4, <1>5, <1>6, <1>7, <1>8, <1>9, <1>10, <1>11, <1>12, <1>13 DEF ProviderStep

LEMMA ProviderFaultEarned ==
  ASSUME IInv, Earned, ProviderFault
  PROVE  Earned'
<1> USE DEF IInv, TypeOK, Places, Flags, Codes, Safe, BeforeSpawn, ProviderStopped,
      ResultReported, GroupQuiet, LiveChild, Earned, VerdictIsChilds, ReportEarned,
      StatusEarned, Status, Refused, Killed, Signalled, Aborted, Pending,
      ownerVars, watchVars, providerVars, groupVars
<1>1. CASE ProviderBootFails
  BY <1>1 DEF ProviderBootFails
<1>2. CASE ProviderSpawnFails
  BY <1>2 DEF ProviderSpawnFails
<1>3. CASE ProviderSignalled
  BY <1>3 DEF ProviderSignalled
<1>4. CASE ProviderRemoveFails
  BY <1>4 DEF ProviderRemoveFails
<1>5. CASE ProviderKilled
  BY <1>5 DEF ProviderKilled, KillGroup, ProviderEnds
<1> QED
  BY <1>1, <1>2, <1>3, <1>4, <1>5 DEF ProviderFault

LEMMA WatchStepEarned ==
  ASSUME IInv, Earned, WatchStep
  PROVE  Earned'
<1> USE DEF IInv, TypeOK, Places, Flags, Codes, Safe, BeforeSpawn, ProviderStopped,
      ResultReported, GroupQuiet, LiveChild, Earned, VerdictIsChilds, ReportEarned,
      StatusEarned, Status, Refused, Killed, Signalled, Aborted, Pending,
      ownerVars, watchVars, providerVars, groupVars
<1>1. CASE ObserveIdentity
  BY <1>1 DEF ObserveIdentity
<1>2. CASE ObserveRefusal
  BY <1>2 DEF ObserveRefusal
<1>3. CASE ObserveClose
  BY <1>3 DEF ObserveClose
<1>4. CASE ReadCompletion
  BY <1>4 DEF ReadCompletion
<1>5. CASE ReadPrematureEOF
  BY <1>5 DEF ReadPrematureEOF
<1>6. CASE ConfirmExit
  BY <1>6 DEF ConfirmExit
<1>7. CASE TeardownExpires
  BY <1>7 DEF TeardownExpires
<1> QED
  BY <1>1, <1>2, <1>3, <1>4, <1>5, <1>6, <1>7 DEF WatchStep

LEMMA OwnerStepEarned ==
  ASSUME IInv, Earned, OwnerStep
  PROVE  Earned'
<1> USE DEF IInv, TypeOK, Places, Flags, Codes, Safe, BeforeSpawn, ProviderStopped,
      ResultReported, GroupQuiet, LiveChild, Earned, VerdictIsChilds, ReportEarned,
      StatusEarned, Status, Refused, Killed, Signalled, Aborted, Pending,
      ownerVars, watchVars, providerVars, groupVars
<1>1. CASE OwnerStarts
  BY <1>1 DEF OwnerStarts, CleanupSafe
<1>2. CASE OwnerReadsStart
  BY <1>2 DEF OwnerReadsStart
<1>3. CASE OwnerSetupFails
  BY <1>3 DEF OwnerSetupFails, Return
<1>4. CASE ReceiveReady
  BY <1>4 DEF ReceiveReady, Return, Settle
<1>5. CASE ReceiveExit
  BY <1>5 DEF ReceiveExit, Return, Settle
<1>6. CASE ReceivePhaseError
  BY <1>6 DEF ReceivePhaseError, Return
<1>7. CASE ReceiveResult
  BY <1>7 DEF ReceiveResult, Return, Settle
<1>8. CASE ReceiveProviderError
  BY <1>8 DEF ReceiveProviderError, Return
<1>9. CASE SetupDeadline
  BY <1>9 DEF SetupDeadline, Return
<1>10. CASE CleanupDeadline
  BY <1>10 DEF CleanupDeadline, Return
<1>11. CASE OwnerStopsGroup
  BY <1>11 DEF OwnerStopsGroup, KillGroup
<1>12. CASE OwnerReleases
  BY <1>12 DEF OwnerReleases
<1>13. CASE ProviderGoneInGrace
  BY <1>13 DEF ProviderGoneInGrace, ConfirmCleanup
<1>14. CASE GraceExpires
  BY <1>14 DEF GraceExpires
<1>15. CASE OwnerKillsProvider
  BY <1>15 DEF OwnerKillsProvider
<1>16. CASE OwnerReaps
  BY <1>16 DEF OwnerReaps, ConfirmCleanup
<1>17. CASE OwnerReapExpires
  BY <1>17 DEF OwnerReapExpires
<1>18. CASE OwnerSweeps
  BY <1>18 DEF OwnerSweeps
<1> QED
  BY <1>1, <1>2, <1>3, <1>4, <1>5, <1>6, <1>7, <1>8, <1>9, <1>10, <1>11, <1>12, <1>13, <1>14, <1>15, <1>16, <1>17, <1>18 DEF OwnerStep

LEMMA OwnerFaultEarned ==
  ASSUME IInv, Earned, ObserveError \/ OwnerPrepareFails \/ OwnerSweepFails \/ OwnerKilled
  PROVE  Earned'
<1> USE DEF IInv, TypeOK, Places, Flags, Codes, Safe, BeforeSpawn, ProviderStopped,
      ResultReported, GroupQuiet, LiveChild, Earned, VerdictIsChilds, ReportEarned,
      StatusEarned, Status, Refused, Killed, Signalled, Aborted, Pending,
      ownerVars, watchVars, providerVars, groupVars
<1>1. CASE ObserveError
  BY <1>1 DEF ObserveError
<1>2. CASE OwnerPrepareFails
  BY <1>2 DEF OwnerPrepareFails
<1>3. CASE OwnerSweepFails
  BY <1>3 DEF OwnerSweepFails
<1>4. CASE OwnerKilled
  BY <1>4 DEF OwnerKilled
<1> QED
  BY <1>1, <1>2, <1>3, <1>4


LEMMA InitEarned == Init => Earned
  BY DEF Init, Earned, VerdictIsChilds, ReportEarned, StatusEarned,
      Refused, Signalled, Pending

LEMMA NextEarned == IInv /\ Earned /\ [Next]_vars => Earned'
<1> SUFFICES ASSUME IInv, Earned, [Next]_vars PROVE Earned'
  OBVIOUS
<1>1. CASE GroupStep
  BY <1>1, GroupStepEarned
<1>2. CASE KernelStep \/ ProviderDies
  BY <1>2, KernelStepEarned
<1>3. CASE ProviderStep
  BY <1>3, ProviderStepEarned
<1>4. CASE ProviderFault
  BY <1>4, ProviderFaultEarned
<1>5. CASE WatchStep
  BY <1>5, WatchStepEarned
<1>6. CASE OwnerStep
  BY <1>6, OwnerStepEarned
<1>7. CASE ObserveError \/ OwnerPrepareFails \/ OwnerSweepFails \/ OwnerKilled
  BY <1>7, OwnerFaultEarned
<1>8. CASE UNCHANGED vars
  BY <1>8 DEF vars, ownerVars, watchVars, providerVars, groupVars,
      Earned, VerdictIsChilds, ReportEarned, StatusEarned
<1> QED
  BY <1>1, <1>2, <1>3, <1>4, <1>5, <1>6, <1>7, <1>8 DEF Next, Fault

THEOREM EarnedInductive == Spec => []Earned
<1>1. Init => Earned
  BY InitEarned
<1>2. IInv /\ Earned /\ [Next]_vars => Earned'
  BY NextEarned
<1> QED
  BY <1>1, <1>2, Inductive, PTL DEF Spec

\* A completed record is the last thing a provider does: nothing runs and the
\* root is gone.
THEOREM CompletionSafety == Spec => []CompletionIsLast
<1>1. IInv /\ Earned => CompletionIsLast
  BY DEF IInv, Safe, ProviderStopped, Earned, ReportEarned, CompletionIsLast
<1> QED
  BY <1>1, Inductive, EarnedInductive, PTL

\* A status that is not a refusal is the body's own (or the signal's), drawn
\* after the group has stopped and the root is gone.
THEOREM VerdictSafety == Spec => []VerdictIsEarned
<1>1. IInv /\ Earned => VerdictIsEarned
  BY DEF IInv, TypeOK, Codes, Safe, ProviderStopped, ResultReported, GroupQuiet, Earned,
      VerdictIsChilds, ReportEarned, StatusEarned, VerdictIsEarned, Pending, Refused
<1> QED
  BY <1>1, Inductive, EarnedInductive, PTL
-----------------------------------------------------------------------------
(* The refinement of FixtureOwnership.                                     *)

LEMMA InitOwnership == Init => Ownership!Init
  BY DEF Init, Ownership!Init, GroupPhase, Outcome

\* A step of the group alone, or of nobody, is a stop or a stutter.
LEMMA GroupOnly ==
  ASSUME UNCHANGED <<owner, status, root>>,
         (child = "none") <=> (child' = "none"),
         GroupQuiet => GroupQuiet'
  PROVE  Ownership!Stop \/ UNCHANGED Ownership!vars
  BY DEF Ownership!Stop, Ownership!vars, GroupPhase, Outcome

\* A step that is of the owner alone, short of its end, is a stutter.
LEMMA OwnerOnly ==
  ASSUME UNCHANGED <<child, kin, root>>,
         owner \notin {"done", "killed"}, owner' \notin {"done", "killed"}
  PROVE  UNCHANGED Ownership!vars
  BY DEF Ownership!vars, GroupPhase, GroupQuiet, Outcome

LEMMA StepOwnership ==
  IInv /\ Earned /\ [Next]_vars => [Ownership!Next]_(Ownership!vars)
<1> SUFFICES ASSUME IInv, Earned, [Next]_vars
             PROVE  Ownership!Next \/ UNCHANGED Ownership!vars
  OBVIOUS
<1> USE DEF ownerVars, watchVars, providerVars, groupVars
<1>1. CASE GroupStep
  <2>1. /\ UNCHANGED <<owner, status, root>>
        /\ (child = "none") <=> (child' = "none")
        /\ GroupQuiet => GroupQuiet'
    BY <1>1 DEF GroupStep, ChildGranted, ChildRefusesGrant, ChildDials, ChildSaysHello,
       ChildPhaseFails, ChildLeaseLost, BodyStartsKin, KinEnds, BodyEnds, ChildExits,
       GroupQuiet, LiveChild
  <2> QED
    BY <2>1, GroupOnly DEF Ownership!Next
<1>2. CASE KernelStep \/ ProviderDies
  <2>1. /\ UNCHANGED <<owner, status, root>>
        /\ (child = "none") <=> (child' = "none")
        /\ GroupQuiet => GroupQuiet'
    BY <1>2 DEF KernelStep, ChildDies, KinDies, ProviderDies, ProviderEnds, KillGroup,
       ChildExits, GroupQuiet, LiveChild
  <2> QED
    BY <2>1, GroupOnly DEF Ownership!Next
<1>3. CASE ProviderSpawns
  <2>1. child = "none" /\ root = "present" /\ owner # "done" /\ child' = "grant"
    BY <1>3 DEF ProviderSpawns, IInv, TypeOK, Places, Safe, BeforeSpawn, RemovedSafe, Retired
  <2>2. Ownership!Start
    BY <1>3, <2>1 DEF ProviderSpawns, Ownership!Start, GroupPhase, GroupQuiet, LiveChild, Outcome
  <2> QED
    BY <2>2 DEF Ownership!Next
<1>4. CASE ProviderRemovesRoot
  <2>1. GroupQuiet /\ UNCHANGED <<owner, status, child, kin>> /\ root' = "gone"
    BY <1>4 DEF ProviderRemovesRoot, IInv, Safe, ProviderStopped
  <2>2. CASE root = "gone"
    BY <2>1, <2>2 DEF Ownership!vars, GroupPhase, GroupQuiet, Outcome
  <2>3. CASE root = "present"
    <3>1. Ownership!Remove
      BY <2>1, <2>3 DEF Ownership!Remove, Ownership!Reclaim, GroupPhase, GroupQuiet, Outcome
    <3> QED
      BY <3>1 DEF Ownership!Next
  <2> QED
    BY <2>2, <2>3 DEF IInv, TypeOK, Places
<1>5. CASE ProviderStep /\ ~ProviderSpawns /\ ~ProviderRemovesRoot
  <2>1. /\ UNCHANGED <<owner, status, root>>
        /\ (child = "none") <=> (child' = "none")
        /\ GroupQuiet => GroupQuiet'
    BY <1>5 DEF ProviderStep, ProviderBoots, LeaseRevoked, ProviderAnnounces, ProviderGrants,
       ProviderSeesExit, ProviderSeesLoss, ProviderStopsGroup, ProviderReaps,
       ProviderReapExpires, ProviderReports, ProviderExits, ProviderEnds, KillGroup,
       GroupQuiet, LiveChild
  <2> QED
    BY <2>1, GroupOnly DEF Ownership!Next
<1>6. CASE ProviderFault \/ WatchStep \/ ObserveError
  <2>1. /\ UNCHANGED <<owner, status, root>>
        /\ (child = "none") <=> (child' = "none")
        /\ GroupQuiet => GroupQuiet'
    BY <1>6 DEF ProviderFault, ProviderBootFails, ProviderSpawnFails, ProviderSignalled,
       ProviderRemoveFails, ProviderKilled, ProviderEnds, KillGroup, WatchStep,
       ObserveIdentity, ObserveRefusal, ObserveClose, ObserveError, ReadCompletion,
       ReadPrematureEOF, ConfirmExit, TeardownExpires, GroupQuiet, LiveChild
  <2> QED
    BY <2>1, GroupOnly DEF Ownership!Next
<1>7. CASE OwnerStopsGroup
  <2>1. UNCHANGED root /\ owner \notin {"done", "killed"} /\ owner' \notin {"done", "killed"}
    BY <1>7 DEF OwnerStopsGroup
  <2>2. (child = "none") <=> (child' = "none")
    BY <1>7 DEF OwnerStopsGroup, KillGroup, LiveChild
  <2>3. GroupQuiet => GroupQuiet'
    BY <1>7 DEF OwnerStopsGroup, KillGroup, GroupQuiet, LiveChild
  <2>4. Ownership!Stop \/ UNCHANGED Ownership!vars
    BY <2>1, <2>2, <2>3 DEF Ownership!Stop, Ownership!vars, GroupPhase, Outcome
  <2> QED
    BY <2>4 DEF Ownership!Next
<1>8. CASE OwnerSweeps
  <2>1. /\ UNCHANGED <<child, kin, status>> /\ owner = "sweep" /\ owner' = "done"
        /\ root' = IF allowed THEN "gone" ELSE root
    BY <1>8 DEF OwnerSweeps
  <2>2. CASE status = Refused
    <3>1. allowed => GroupQuiet
      BY DEF IInv, Safe, CleanupSafe
    <3>2. Ownership!Refuse
      BY <2>1, <2>2, <3>1 DEF Ownership!Refuse, Ownership!Reclaim, GroupPhase, GroupQuiet, Outcome
    <3> QED
      BY <3>2 DEF Ownership!Next
  <2>3. CASE status # Refused
    <3>1. GroupQuiet /\ child = "gone" /\ root = "gone"
      BY <2>1, <2>3 DEF IInv, TypeOK, Places, Codes, Safe, ProviderStopped, ResultReported,
         Earned, ReportEarned, StatusEarned, Pending
    <3>2. Ownership!Earn
      BY <2>1, <2>3, <3>1 DEF Ownership!Earn, GroupPhase, GroupQuiet, Outcome
    <3> QED
      BY <3>2 DEF Ownership!Next
  <2> QED
    BY <2>2, <2>3
<1>9. CASE OwnerStep /\ ~OwnerStopsGroup /\ ~OwnerSweeps
  <2>1. /\ UNCHANGED <<child, kin, root>>
        /\ owner \notin {"done", "killed"} /\ owner' \notin {"done", "killed"}
    BY <1>9 DEF OwnerStep, OwnerStarts, OwnerReadsStart, OwnerSetupFails, ReceiveReady,
       ReceiveExit, ReceivePhaseError, ReceiveResult, ReceiveProviderError, SetupDeadline,
       CleanupDeadline, OwnerReleases, ProviderGoneInGrace, GraceExpires,
       OwnerKillsProvider, OwnerReaps, OwnerReapExpires, Settle, Return
  <2> QED
    BY <2>1, OwnerOnly
<1>10. CASE OwnerPrepareFails
  <2>1. /\ UNCHANGED <<child, kin, root>>
        /\ owner \notin {"done", "killed"} /\ owner' \notin {"done", "killed"}
    BY <1>10 DEF OwnerPrepareFails
  <2> QED
    BY <2>1, OwnerOnly
<1>11. CASE OwnerSweepFails
  <2>1. Ownership!Refuse
    BY <1>11 DEF OwnerSweepFails, Ownership!Refuse, GroupPhase, GroupQuiet, Outcome
  <2> QED
    BY <2>1 DEF Ownership!Next
<1>12. CASE OwnerKilled
  <2>1. Ownership!Abandon
    BY <1>12 DEF OwnerKilled, Ownership!Abandon, GroupPhase, GroupQuiet, Outcome
  <2> QED
    BY <2>1 DEF Ownership!Next
<1>13. CASE UNCHANGED vars
  BY <1>13 DEF vars, Ownership!vars, GroupPhase, GroupQuiet, Outcome
<1> QED
  BY <1>1, <1>2, <1>3, <1>4, <1>5, <1>6, <1>7, <1>8, <1>9, <1>10, <1>11, <1>12, <1>13
  DEF Next, Fault

\* The supervision implements what FixtureOwnership promises its caller.
THEOREM Implements == Spec => OwnershipKept
<1>1. Init => Ownership!Init
  BY InitOwnership
<1>2. IInv /\ Earned /\ [Next]_vars => [Ownership!Next]_(Ownership!vars)
  BY StepOwnership
<1> QED
  BY <1>1, <1>2, Inductive, EarnedInductive, PTL DEF Spec, OwnershipKept, Ownership!Spec
=============================================================================
